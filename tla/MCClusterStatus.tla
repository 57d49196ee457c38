------------------------------ MODULE MCClusterStatus ------------------------------
(* An instance of ClusterStatus for TLC: the second template mounts a TLS Secret that may
   not be there yet, and has unequal memory limits, which call for a warning. *)
EXTENDS ClusterStatus

Created == [conf |-> "c1", template |-> "t1"]
WithSecret == [Created EXCEPT !.template = "t2"]
OneSpec == {Created}
NewSpecs == {Created, WithSecret}

\* A change of rabbitmq.conf and back, and a change of the Secret, which is one of the template.
SomeEdits ==
    LET conf == [Created EXCEPT !.conf = "c2"]
    IN  {<<Created, conf>>, <<conf, Created>>, <<Created, WithSecret>>}
=============================================================================
