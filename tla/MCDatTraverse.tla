--------------------------- MODULE MCDatTraverse ---------------------------
(* Small trees for TLC: a chain with a join, a cycle, a name that is missing. *)
EXTENDS DatTraverse, TLC

NamesOf3 == {"base", "gpu", "port"}
OrderOf3 == <<"base", "gpu", "port">>

device3(assoc, nested) ==
    [type |-> "regular", association |-> assoc, setHealth |-> TRUE,
     test |-> [i \in DOMAIN nested |->
                 [layer |-> "pin_status", nested |-> nested[i], expects |-> TRUE, severity |-> 2]]]

treeJoin == "base" :> device3(<<"gpu", "port">>, <<"gpu", None>>)
         @@ "gpu" :> device3(<<"port">>, <<"port", "port">>)
         @@ "port" :> device3(<<>>, <<None>>)
treeCycle == "base" :> device3(<<"gpu">>, <<"gpu">>)
          @@ "gpu" :> device3(<<"port", "base">>, <<"port">>)
          @@ "port" :> device3(<<>>, <<"gpu">>)
treeMissing == "base" :> device3(<<"port", "gpu">>, <<"gpu">>)
            @@ "gpu" :> device3(<<>>, <<None>>)

TreesOf3 == {treeJoin, treeCycle, treeMissing}

pathOf(name, hgx, chassis) == [name |-> name, hgx |-> hgx, chassis |-> chassis]
gpuChassis == pathOf("gpu", TRUE, TRUE)
gpuProcessor == pathOf("gpu", FALSE, FALSE)
portItem == pathOf("port", FALSE, FALSE)
baseBoard == pathOf("base", FALSE, TRUE)

both == {"Definitions", "Health"}
busFull == baseBoard :> ("mgr" :> both) @@ gpuChassis :> ("mgr" :> both)
        @@ gpuProcessor :> ("mgr" :> {"Health"}) @@ portItem :> ("gpumgr" :> both)
busTwoManagers == baseBoard :> ("mgr" :> both)
               @@ gpuChassis :> ("mgr" :> both @@ "gpumgr" :> {"Definitions"})
               @@ portItem :> ("gpumgr" :> {"Health"} @@ "mgr" :> both)
busEarly == baseBoard :> ("mgr" :> both)

BusesOf3 == {busFull, busTwoManagers, busEarly}
=============================================================================
