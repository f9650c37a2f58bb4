------------------------------- MODULE G1Info -------------------------------
(***************************************************************************)
(* The tables of the G1 robot: G1SupplementalInfo, for the three places of *)
(* the waist and the two elbow poses (data/robot_model/supplemental_info). *)
(*                                                                         *)
(* A joint is its number in the order of the degrees of freedom that       *)
(* Pinocchio gives the model: legs, waist, and for each side the arm and   *)
(* then its hand (index, middle, thumb).  Angles are in microradians.      *)
(***************************************************************************)
EXTENDS Integers, Sequences

LeftLeg == 1 .. 6
RightLeg == 7 .. 12
Waist == 13 .. 15
LeftArm == 16 .. 22
LeftHand == 23 .. 29
RightArm == 30 .. 36
RightHand == 37 .. 43
JointNames == [i \in 1 .. 43 |-> i]
Joints == 1 .. 43

Run(first, last) == [i \in 1 .. last - first + 1 |-> first + i - 1]

\* The order in which motors are commanded: each thumb comes first.
BodyActuated == Run(1, 22) \o Run(30, 36)
LeftHandActuated == Run(27, 29) \o Run(23, 26)
RightHandActuated == Run(41, 43) \o Run(37, 40)

Waists == {"lower_body", "upper_body", "lower_and_upper_body"}

\* joint_groups, a dictionary: its order is the order of resolution.
GroupOrder ==
  <<"waist", "left_leg", "right_leg", "legs", "left_arm", "right_arm", "arms",
    "left_hand", "right_hand", "hands", "lower_body", "upper_body_no_hands", "body",
    "upper_body">>
Groups == {GroupOrder[i] : i \in DOMAIN GroupOrder}

DirectJoints(g) ==
  CASE g = "waist" -> Waist
    [] g = "left_leg" -> LeftLeg [] g = "right_leg" -> RightLeg
    [] g = "left_arm" -> LeftArm [] g = "right_arm" -> RightArm
    [] g = "left_hand" -> LeftHand [] g = "right_hand" -> RightHand
    [] OTHER -> {}

Subgroups(waist, g) ==
  CASE g = "legs" -> {"left_leg", "right_leg"}
    [] g = "arms" -> {"left_arm", "right_arm"}
    [] g = "hands" -> {"left_hand", "right_hand"}
    [] g = "lower_body" -> IF waist = "upper_body" THEN {"legs"} ELSE {"waist", "legs"}
    [] g = "upper_body_no_hands" -> IF waist = "lower_body" THEN {"arms"} ELSE {"arms", "waist"}
    [] g = "body" -> {"lower_body", "upper_body_no_hands"}
    [] g = "upper_body" -> {"upper_body_no_hands", "hands"}
    [] OTHER -> {}

\* Both sides have the same limits, but for the rolls of hips and shoulders,
\* which are mirrored.
Symmetric(l) == <<-l, l>>
Mirrored(limits) == <<-limits[2], -limits[1]>>
LegLimits ==
  <<<<-2530700, 2879800>>, <<-523600, 2967100>>, Symmetric(2757600), <<-87267, 2879800>>,
    <<-872670, 523600>>, Symmetric(261800)>>
WaistLimits == <<Symmetric(2618000), Symmetric(520000), Symmetric(520000)>>
ArmLimits ==
  <<<<-3089200, 2670400>>, <<190000, 2251500>>, Symmetric(2618000), <<-1047200, 2094400>>,
    Symmetric(1972222), Symmetric(1614430), Symmetric(1614430)>>
HandLimits ==
  <<<<-1570796, 0>>, <<-1745329, 0>>, <<-1570796, 0>>, <<-1745329, 0>>,
    Symmetric(1047198), <<-724312, 1047198>>, <<0, 1745329>>>>
MirrorRoll(limits) == [limits EXCEPT ![2] = Mirrored(@)]
JointLimits ==
  LegLimits \o MirrorRoll(LegLimits) \o WaistLimits \o ArmLimits \o HandLimits
    \o MirrorRoll(ArmLimits) \o HandLimits

\* default_joint_q: the joints that do not stay at zero, left and right.
Default(high) ==
  IF high
  THEN [j \in {16, 17, 18, 20, 21, 22, 30, 31, 32, 34, 35, 36} |->
          CASE j \in {17, 22, 32, 34} -> 500000
            [] j \in {31, 36, 18, 20} -> -500000
            [] j \in {16, 30, 21, 35} -> -200000]
  ELSE [j \in {17, 31} |-> IF j = 17 THEN 200000 ELSE -200000]
=============================================================================
