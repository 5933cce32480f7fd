----------------------------- MODULE MCSelftest -----------------------------
(***************************************************************************)
(* All trees of three devices by which devices they refer to, circles      *)
(* included.  In some of them the third device is a sensor without test    *)
(* points, or is referred to in the layer the selftest ignores, or a       *)
(* reference dangles: no tree has the device "x".                          *)
(***************************************************************************)
EXTENDS Selftest

Others(d) == {"a", "b", "c"} \ {d}

Value(severity, expects) ==
    [layer |-> "firmware_status", nested |-> "none", expects |-> expects,
     severity |-> severity]

Reference(layer, d, expects) ==
    [layer |-> layer, nested |-> d, expects |-> expects, severity |-> 2]

\* c is referred to for its pins, the others for their power.
LayerTo(d, variant) ==
    IF d = "c" THEN IF variant = "ignored" THEN "data_dump" ELSE "pin_status"
    ELSE "power_rail"

Own(d, variant) ==
    CASE d = "a" -> <<Value(1, TRUE)>>
      [] d = "b" -> <<Value(2, TRUE)>>
      [] d = "c" -> IF variant = "bare" THEN <<>> ELSE <<Value(1, FALSE)>>

Tree(refs, variant) ==
    [d \in {"a", "b", "c"} |->
      [type |-> IF d = "c" THEN "sensor" ELSE "regular",
       association |-> <<>>,
       setHealth |-> variant # "ignored",
       test |-> Own(d, variant)
                \o SetToSeq({Reference(LayerTo(e, variant), e, variant # "bare") :
                               e \in refs[d]})
                \o IF variant = "dangling" /\ d = "b"
                   THEN <<Reference("power_rail", "x", TRUE)>> ELSE <<>>]]

Refs == {r \in [{"a", "b", "c"} -> SUBSET {"a", "b", "c"}] :
            \A d \in {"a", "b", "c"} :
               /\ r[d] \subseteq Others(d)
               /\ d = "c" /\ r[d] # {} => r[d] = {"a"}}

\* A sensor without test points refers to nothing.
Trees == {Tree(r, v) : r \in Refs, v \in {"plain", "ignored", "dangling"}}
         \cup {Tree(r, "bare") : r \in {q \in Refs : q["c"] = {}}}

TraceOf(d, categories, fixed) ==
    [kind |-> "trace", device |-> d, categories |-> categories, fixed |-> fixed,
     severity |-> 1]

JobsOf3 ==
        {TraceOf("a", {}, "none"), TraceOf("a", {"power_rail"}, "none"),
         TraceOf("c", {}, "none"), TraceOf("a", {}, "x"), TraceOf("x", {}, "none"),
         [kind |-> "process", device |-> "a"],
         [kind |-> "boot", hmc |-> TRUE], [kind |-> "boot", hmc |-> FALSE]}

SomeTree == Tree([d \in {"a", "b", "c"} |-> {}], "plain")

TasksOf3 ==
    (Trees \X JobsOf3)
      \cup {<<SomeTree, [kind |-> "entries", log |-> log]>> :
               log \in SeqOf(Entries, 2)}

=============================================================================
