---------------------------- MODULE MCImageNames ----------------------------
(* Instances of ImageNames for TLC.                                          *)
EXTENDS ImageNames

CONSTANTS i1, i2, a, b, r1, r2

Job(op, ref, add) == [op |-> op, ref |-> ref, add |-> add]

\* Every operation, on the images and names that the others change.
AllJobs ==
  {Job("tag", a, {b}), Job("tag", i1, {a}), Job("remove", a, {}), Job("remove", i1, {}),
   Job("prune", i1, {}), Job("all", i1, {}), Job("load", i1, {a}), Job("import", i2, {b}),
   Job("build", i1, {b}), Job("build", i2, {}), Job("buildFrom", i1, {a})}
=============================================================================
