------------------------------- MODULE MCReads -------------------------------
(* Bounds for Reads.cfg.  Each behaviour asks for one thing: pages of the  *)
(* timeline, an overview, a search of images, a repair of the data, or the *)
(* numbers of the agent's tools.                                           *)
EXTENDS Paging, Overview, ImageSearch, DataRepair, Stats

VARIABLE asked

MCWindows == {[grain |-> 2, s |-> 0, e |-> 2], [grain |-> 2, s |-> 1, e |-> 3]}
    \cup {[grain |-> 1, s |-> t, e |-> t + 1] : t \in 0 .. 2}

Shot(id, hash, ts, dev, app) ==
    [id |-> id, hash |-> hash, ts |-> ts, dev |-> dev, app |-> app]
MCShots == {Shot(1, {}, 0, "d1", "a1"), Shot(2, {1}, 1, "d1", "a2"),
            Shot(3, {2}, 1, "d2", "a1"), Shot(4, {1}, 2, "d1", "a1")}
MCQueries ==
    {[hash |-> {}, radius |-> 1, from |-> 1, to |-> 2, dev |-> d[1], app |-> d[2]] :
        d \in {<<"d1", "a1">>, <<AllDevices, "a2">>}}

MCProfiles == {[app |-> "app", dev |-> "s1"], [app |-> "none", dev |-> "s2"]}
MCPeriods == {[from |-> 0, to |-> 2], [from |-> 1, to |-> 3]}

MCSymmetry == Permutations(Devices) \cup Permutations(Handlers)

(* The rows of a repair are numbered by their starts; the devices have     *)
(* different names at first.                                               *)
MCInit ==
    /\ asked \in {"pages", "overview", "image", "repair", "stats"}
    /\ PagingInit /\ OverviewInit /\ ImageInit /\ RepairInit /\ StatsInit
    /\ IF asked = "stats" THEN clock = 2 ELSE clock = 0 /\ digest = NoDigest
    /\ deviceName = [d \in Registered |-> d]
    /\ asked # "repair" => \A r \in Rows : begins[r] = 0 /\ device[r] = CHOOSE m \in Machines : TRUE
    /\ \A r, n \in Rows : r <= n => begins[r] <= begins[n]

MCNext ==
    /\ UNCHANGED asked
    /\ \/ asked = "pages" /\ PagingNext /\ UNCHANGED <<overviewVars, imageVars, repairVars, statsVars>>
       \/ asked = "overview" /\ OverviewNext /\ UNCHANGED <<pagingVars, imageVars, repairVars, statsVars>>
       \/ asked = "image" /\ ImageNext /\ UNCHANGED <<pagingVars, overviewVars, repairVars, statsVars>>
       \/ asked = "repair" /\ RepairNext /\ UNCHANGED <<pagingVars, overviewVars, imageVars, statsVars>>
       \/ asked = "stats" /\ StatsNext /\ UNCHANGED <<pagingVars, overviewVars, imageVars, repairVars>>

MCSpec == MCInit /\ [][MCNext]_<<asked, pagingVars, overviewVars, imageVars, repairVars, statsVars>>
=============================================================================
