----------------------------- MODULE RobotModel -----------------------------
(***************************************************************************)
(* The robot model of data/robot_model/robot_model.py: the degrees of      *)
(* freedom of a model, its joint groups, limits and poses, the views with  *)
(* fixed joints (ReducedRobotModel), and the forward kinematics that a     *)
(* model caches inside Pinocchio for later queries.                        *)
(*                                                                         *)
(* A configuration is an array over the degrees of freedom, counted from   *)
(* 1; with a floating base its first 7 are the pose of the base.  What     *)
(* Pinocchio computes from a configuration is abstracted to the            *)
(* configuration itself.                                                   *)
(*                                                                         *)
(* The parts of the specification are named after the model (ModelInit,    *)
(* modelVars, ...) so that its theorems can stand beside those of          *)
(* Simulator in one module.                                                *)
(***************************************************************************)
EXTENDS G1Info, FiniteSets

CONSTANTS
  Models,  \* <<set_floating_base, waist_location, high_elbow_pose>> to try
  Levels   \* the levels of the configurations to try, in microradians

ASSUME ModelAssumption ==
  Models \subseteq BOOLEAN \X Waists \X BOOLEAN /\ Levels \subseteq Int

VARIABLES
  floating,    \* is_floating_base_model
  waist,       \* waist_location
  high,        \* high_elbow_pose
  view,        \* the reduced model of this one, or NoView
  placed,      \* the configuration of the full model's cached kinematics
  placedView,  \* that of the view, in reduced space
  by           \* the last call that cached kinematics

modelVars == <<floating, waist, high, view, placed, placedView, by>>
shape == <<floating, waist, high>>

NoView == [map |-> <<>>, fixed |-> <<>>, values |-> <<>>]
HasView == view # NoView
Unplaced == <<>>
-----------------------------------------------------------------------------
(* Degrees of freedom, groups and limits of the full model *)

Root == IF floating THEN 7 ELSE 0
Size == Root + Len(JointNames)
dof_index(joint) == Root + joint

\* The joints' limits are arrays without the base.
lower(i) == JointLimits[i - Root][1]
upper(i) == JointLimits[i - Root][2]

\* q0: the neutral pose of the base is the identity quaternion at the origin.
q_zero == [i \in 1 .. Size |-> IF i = Root /\ floating THEN 1000000 ELSE 0]

default_body_pose ==
  [i \in 1 .. Size |-> IF i - Root \in DOMAIN Default(high) THEN Default(high)[i - Root]
                       ELSE q_zero[i]]

\* Groups are resolved in the order of the dictionary, a subgroup by looking up
\* what it has been resolved to; one that has not been yet raises.
Mut_DirectOnly(resolved, g) == {dof_index(j) : j \in DirectJoints(g)}
Indices(resolved, g) ==
  {dof_index(j) : j \in DirectJoints(g)}
    \cup UNION {resolved[h] : h \in Subgroups(waist, g)}

Resolved[k \in 0 .. Len(GroupOrder)] ==
  IF k = 0 THEN [g \in {} |-> {}]
  ELSE LET before == Resolved[k - 1]
           g == GroupOrder[k]
       IN  [h \in DOMAIN before \cup {g} |-> IF h = g THEN Indices(before, g) ELSE before[h]]
get_joint_group_indices(g) == Resolved[Len(GroupOrder)][g]
Resolves ==
  \A k \in DOMAIN GroupOrder :
    Subgroups(waist, GroupOrder[k]) \subseteq {GroupOrder[i] : i \in 1 .. k - 1}

\* np.clip(q, lower + margin, upper - margin), of the joints only.
Bounded(x, low, up) == IF x > up THEN up ELSE IF x < low THEN low ELSE x
clip_configuration(q) ==
  [i \in DOMAIN q |-> IF i <= Root THEN q[i] ELSE Bounded(q[i], lower(i) + 1, upper(i) - 1)]

Indexed(joints) == [i \in DOMAIN joints |-> dof_index(joints[i])]
At(q, indices) == [i \in DOMAIN indices |-> q[indices[i]]]
Assign(q, indices, x) ==
  [i \in DOMAIN q |-> IF \E k \in DOMAIN indices : indices[k] = i
                      THEN x[CHOOSE k \in DOMAIN indices : indices[k] = i] ELSE q[i]]

\* From the values of the actuated joints, in the order of the motors.
get_configuration_from_actuated_joints(body, left, right) ==
  Assign(Assign(Assign(q_zero, Indexed(BodyActuated), body), Indexed(LeftHandActuated), left),
      Indexed(RightHandActuated), right)
-----------------------------------------------------------------------------
(* Views with fixed joints *)

InSeq(x, s) == \E i \in DOMAIN s : s[i] = x

\* Joints in the order of joint_names, which is that of their numbers.
Rank(j, joints) == Cardinality({i \in joints : i <= j})
Sorted(joints) ==
  [k \in 1 .. Cardinality(joints) |-> CHOOSE j \in joints : Rank(j, joints) = k]

\* reduced_to_full: the base, then the joints that are not fixed, in order.
ReducedToFull(fixed) ==
  Run(1, Root) \o Indexed(Sorted({j \in Joints : ~InSeq(j, fixed)}))

View(fixed, values) == [map |-> ReducedToFull(fixed), fixed |-> fixed, values |-> values]

FixedValue(v, i) == v.values[CHOOSE k \in DOMAIN v.fixed : dof_index(v.fixed[k]) = i]

\* The reduced array is read at the full index.
Mut_FullIndex(v, q, i) == IF i <= Len(q) THEN q[i] ELSE 0
ActiveValue(v, q, i) == q[CHOOSE k \in DOMAIN v.map : v.map[k] = i]

\* Zeros, the active joints, then the fixed joints.
reduced_to_full_configuration(v, q) ==
  [i \in 1 .. Size |->
     IF \E k \in DOMAIN v.fixed : dof_index(v.fixed[k]) = i THEN FixedValue(v, i)
     ELSE IF InSeq(i, v.map) THEN ActiveValue(v, q, i) ELSE 0]
full_to_reduced_configuration(v, q) == At(q, v.map)

\* Through the full model, so that the joints have the full model's limits.
ClipView(v, q) ==
  full_to_reduced_configuration(v, clip_configuration(reduced_to_full_configuration(v, q)))

ViewIndices(v, indices) == {k \in DOMAIN v.map : v.map[k] \in indices}

\* buildReducedModel locks the fixed joints at q0, whatever their values are.
LockedAtZero(v, q) ==
  [i \in 1 .. Size |-> IF InSeq(i, v.map) THEN q[CHOOSE k \in DOMAIN v.map : v.map[k] = i]
                       ELSE q_zero[i]]

\* from_fixed_groups takes joint_names at the indices of the subgroups: with a
\* floating base these are 7 too far.
FixedBy(g) == DirectJoints(g) \cup UNION {get_joint_group_indices(h) : h \in Subgroups(waist, g)}

\* from_active_groups descends into the subgroups.
Descend[g \in Groups] == DirectJoints(g) \cup UNION {Descend[h] : h \in Subgroups(waist, g)}
FixedUnless(g) == Joints \ Descend[g]

AtZero(fixed) == [k \in DOMAIN fixed |-> q_zero[dof_index(fixed[k])]]

\* list() of a set has some order, and explicit values are taken by position.
Orders(joints) ==
  IF Cardinality(joints) > 3 THEN {Sorted(joints)}
  ELSE {f \in [1 .. Cardinality(joints) -> joints] : \A j \in joints : InSeq(j, f)}
-----------------------------------------------------------------------------
(* The calls *)

Uniform(level) == [i \in 1 .. Size |-> IF i <= Root THEN q_zero[i] ELSE level]
Configurations == {q_zero, default_body_pose} \cup {Uniform(level) : level \in Levels}
Explicit(fixed) == [k \in DOMAIN fixed |-> 300000 + k]

ModelInit ==
  /\ \E model \in Models : floating = model[1] /\ waist = model[2] /\ high = model[3]
  /\ view = NoView
  /\ placed = Unplaced /\ placedView = Unplaced /\ by = "none"

\* from_fixed_group and from_active_group, with and without fixed values.  The
\* first raises IndexError when an index is past the last name.
BuildView ==
  /\ ~HasView
  /\ \E g \in Groups : \E joints \in {FixedBy(g), FixedUnless(g)} :
       /\ joints \subseteq Joints
       /\ \E fixed \in Orders(joints) : \E values \in {AtZero(fixed), Explicit(fixed)} :
            view' = View(fixed, values)
  /\ UNCHANGED <<shape, placed, placedView, by>>

\* cache_forward_kinematics(q, auto_clip).
CacheFull(q, clip) ==
  /\ placed' = IF clip THEN clip_configuration(q) ELSE q
  /\ by' = "full"
  /\ UNCHANGED <<shape, view, placedView>>

\* First the full model's, then the view's own, which is not clipped.
CacheView(q, clip) ==
  LET full == reduced_to_full_configuration(view, q)
  IN  /\ HasView
      /\ placed' = IF clip THEN clip_configuration(full) ELSE full
      /\ placedView' = q
      /\ by' = IF clip THEN "view" ELSE "gravity"
      /\ UNCHANGED <<shape, view>>

\* Gravity torques are a query that caches the kinematics of its clipped
\* argument; a view then caches its fixed joints unclipped.
GravityFull(q) == CacheFull(clip_configuration(q), FALSE)
GravityView(q) == HasView /\ CacheView(ClipView(view, q), FALSE)

ResetFull == CacheFull(q_zero, TRUE)
ResetView == HasView /\ CacheView(full_to_reduced_configuration(view, q_zero), TRUE)

ModelNext ==
  \/ BuildView \/ ResetFull \/ ResetView
  \/ \E q \in Configurations :
       \/ \E clip \in BOOLEAN : CacheFull(q, clip)
       \/ GravityFull(q)
       \/ /\ HasView
          /\ LET r == full_to_reduced_configuration(view, q)
             IN  GravityView(r) \/ \E clip \in BOOLEAN : CacheView(r, clip)

ModelSpec == ModelInit /\ [][ModelNext]_modelVars
-----------------------------------------------------------------------------
ModelTypes ==
  /\ floating \in BOOLEAN /\ waist \in Waists /\ high \in BOOLEAN
  /\ Len(view.fixed) = Len(view.values)
  /\ HasView => Len(view.map) + Len(view.fixed) = Size
  /\ placed = Unplaced \/ placed \in [1 .. Size -> Int]

\* The groups are resolved in one pass over a dictionary by one algorithm, and
\* descended into by another: both find the same joints, for every place of
\* the waist, and fixing a group leaves active what activating it would fix.
\* (With a floating base from_fixed_groups fixes other joints than asked.)
GroupsAgree ==
  /\ Resolves
  /\ \A g \in Groups :
       /\ get_joint_group_indices(g) = {dof_index(j) : j \in Descend[g]}
       /\ ~floating => FixedBy(g) = Joints \ FixedUnless(g)
  /\ Descend["body"] \cup Descend["hands"] = Joints
  /\ Descend["lower_body"] \cap Descend["upper_body"] =
       (IF waist = "lower_and_upper_body" THEN Waist ELSE {})

\* A configuration survives every conversion: into a view and back, with the
\* fixed joints where they are fixed; and into the motors' order and back.
ConversionsInvert ==
  \A q \in Configurations :
    /\ get_configuration_from_actuated_joints(
         At(q, Indexed(BodyActuated)), At(q, Indexed(LeftHandActuated)),
         At(q, Indexed(RightHandActuated))) = q
    /\ HasView =>
         LET r == full_to_reduced_configuration(view, q)
             full == reduced_to_full_configuration(view, r)
         IN  /\ full_to_reduced_configuration(view, full) = r
             /\ \A k \in DOMAIN view.fixed : full[dof_index(view.fixed[k])] = view.values[k]
             /\ \A g \in Groups :
                  {r[k] : k \in ViewIndices(view, get_joint_group_indices(g))} \subseteq
                    {q[i] : i \in get_joint_group_indices(g)}

ModelInv == ModelTypes /\ GroupsAgree /\ ConversionsInvert

\* A view and the full model it drives show the robot in one and the same
\* pose (up to the margin), if the view is asked for joints within their limits
\* and its fixed joints are fixed where buildReducedModel locks them, within
\* their limits.  The query for gravity torques changes nothing of that.
Within(q) == \A i \in Root + 1 .. Size : lower(i) <= q[i] /\ q[i] <= upper(i)
PlacementsAgree ==
  by \in {"view", "gravity"} /\ view.values = AtZero(view.fixed)
      /\ Within(LockedAtZero(view, placedView)) =>
    \A i \in 1 .. Size : placed[i] - LockedAtZero(view, placedView)[i] \in {-1, 0, 1}
=============================================================================
