------------------------ MODULE InventoryScansProofs ------------------------
(***************************************************************************)
(* Proofs for InventoryScans: for any number of hosts, callers, changes and *)
(* faults, and any findings.                                                *)
(***************************************************************************)
EXTENDS InventoryScans, TLAPS

USE ScansAssumption

Busy == {"scanning", "dispatching", "failing"}

\* The lock is held by the one cycle that is past asking for it.
Holding == \A c \in Callers : cycle[c] \in Busy <=> holder = c

\* A caller that waits has no scans left over.
Waiting ==
    \A c \in Callers : cycle[c] = "waiting" => \A h \in Hosts : scan[<<c, h>>] \notin Scanning

\* Two scans of a host at a time are noticed when the later cycle begins, and
\* forgotten by a scan of the cycle with the lock, when there is no other.
Alone ==
    \A h \in Hosts \ overlapped :
        /\ \A c, d \in Callers :
              scan[<<c, h>>] \in Scanning /\ scan[<<d, h>>] \in Scanning => c = d
        /\ \A c, d \in Callers :
              cycle[c] \in Busy /\ h \in inventory[c] /\ scan[<<d, h>>] \in Scanning => c = d

\* What counts as a success of this cycle is one, or is still to come.
Counted ==
    \A c \in Callers, h \in Hosts :
        /\ cycle[c] \in Busy /\ h \in inventory[c] =>
              \/ scan[<<c, h>>] \in {"probing", "raised"}
              \/ ~lastOk[h] \/ h \in scanned[c] \cup overlapped
        /\ cycle[c] = "dispatching" => scan[<<c, h>>] = "no"

\* A verdict is on its way to the alert table, or has arrived.
Verdicts ==
    /\ \A h \in Hosts : baseline[h] = None => h \notin alert
    /\ \A h \in Hosts, c \in Callers :
          scan[<<c, h>>] \in {"quiet", "fires"} => baseline[h] # None
    /\ \A h \in Hosts \ overlapped, c \in Callers :
          scan[<<c, h>>] \in {"quiet", "fires"} => (scan[<<c, h>>] = "fires" <=> verdict[h])
    /\ \A h \in Hosts \ (missed \cup overlapped) :
          (\A c \in Callers : scan[<<c, h>>] \notin {"quiet", "fires"}) =>
             (h \in alert <=> verdict[h])

Inv ==
    /\ TypeOK
    /\ Holding
    /\ Waiting
    /\ RunningIsHeld
    /\ Alone
    /\ Counted
    /\ Verdicts

-----------------------------------------------------------------------------
(* Where the scans are                                                      *)

\* One scan moves.
LEMMA OneScan ==
    ASSUME TypeOK, NEW c \in Callers, NEW h \in Hosts, NEW v \in ScanStages,
           scan' = [scan EXCEPT ![<<c, h>>] = v]
    PROVE  /\ scan' \in [Callers \X Hosts -> ScanStages]
           /\ scan'[<<c, h>>] = v
           /\ \A d \in Callers, x \in Hosts :
                 d # c \/ x # h => scan'[<<d, x>>] = scan[<<d, x>>]
<1>1. scan \in [Callers \X Hosts -> ScanStages]
  BY DEF TypeOK
<1>2. \A d \in Callers, x \in Hosts : d # c \/ x # h => <<d, x>> # <<c, h>>
  OBVIOUS
<1>3. QED BY <1>1, <1>2

\* The scans of one caller begin.
LEMMA NewScans ==
    ASSUME TypeOK, NEW c \in Callers, NEW hosts \in SUBSET Hosts, Acquires(c, hosts)
    PROVE  /\ scan' \in [Callers \X Hosts -> ScanStages]
           /\ \A x \in Hosts : scan'[<<c, x>>] = IF x \in hosts THEN "probing" ELSE "no"
           /\ \A d \in Callers \ {c}, x \in Hosts : scan'[<<d, x>>] = scan[<<d, x>>]
<1>1. scan \in [Callers \X Hosts -> ScanStages]
  BY DEF TypeOK
<1>2. scan' = [p \in Callers \X Hosts |-> IF p[1] # c THEN scan[p]
                                          ELSE IF p[2] \in hosts THEN "probing" ELSE "no"]
  BY <1>1 DEF Acquires
<1>3. ASSUME NEW p \in Callers \X Hosts PROVE scan'[p] \in ScanStages
  <2>1. scan'[p] = IF p[1] # c THEN scan[p] ELSE IF p[2] \in hosts THEN "probing" ELSE "no"
    BY <1>2
  <2>2. scan[p] \in ScanStages
    BY <1>1
  <2>3. QED BY <2>1, <2>2 DEF ScanStages, Scanning
<1>4. QED BY <1>1, <1>2, <1>3

-----------------------------------------------------------------------------
(* The actions                                                              *)

\* Whoever moves neither scans nor cycles nor results keeps their invariants.
LEMMA Frame ==
    ASSUME Inv, UNCHANGED <<cycleVars, scanVars, overlapped>>
    PROVE  Holding' /\ Waiting' /\ RunningIsHeld' /\ Alone' /\ Counted'
BY DEF Inv, cycleVars, scanVars, rowVars, Holding, Waiting, RunningIsHeld, Alone, Counted

LEMMA DriftStep == ASSUME Inv, NEW h \in Hosts, HostDrifts(h) PROVE Inv'
<1>1. TypeOK'
  BY DEF Inv, TypeOK, HostDrifts, Drift, cycleVars, scanVars, rowVars
<1>2. Verdicts'
  BY DEF Inv, Verdicts, HostDrifts, cycleVars, scanVars, rowVars
<1>3. QED BY <1>1, <1>2, Frame DEF Inv, HostDrifts

LEMMA RuleStep == ASSUME Inv, SwitchRule PROVE Inv'
<1>1. TypeOK'
  BY DEF Inv, TypeOK, SwitchRule, Drift, cycleVars, scanVars, rowVars
<1>2. Verdicts'
  BY DEF Inv, Verdicts, SwitchRule, scanVars, rowVars
<1>3. QED BY <1>1, <1>2, Frame DEF Inv, SwitchRule

\* A closed alert is one that the last verdict no longer speaks for.
LEMMA CloseStep == ASSUME Inv, NEW h \in Hosts, CloseIncident(h) PROVE Inv'
<1>1. TypeOK'
  BY DEF Inv, TypeOK, CloseIncident, cycleVars, scanVars, rowVars
<1>2. Verdicts'
  <2>1. /\ UNCHANGED <<baseline, scan, verdict, overlapped>> /\ Verdicts
        /\ missed' = missed \cup {h} /\ alert' = alert \ {h}
    BY DEF Inv, CloseIncident, scanVars, rowVars
  <2>2. QED BY <2>1 DEF Verdicts
<1>3. QED BY <1>1, <1>2, Frame DEF Inv, CloseIncident

LEMMA WaitStep ==
    ASSUME Inv, NEW c \in Callers, NEW hosts \in SUBSET Hosts, Begins(c, hosts), Waits(c),
           manual' \in 0..MaxManual
    PROVE  Inv'
<1>1. TypeOK'
  BY DEF Inv, TypeOK, Begins, Waits, Runs, hostVars
<1>2. /\ holder = None /\ holder' = None
      /\ \A d \in Callers : cycle'[d] \notin Busy /\ run'[d] # "running"
  BY DEF Inv, TypeOK, Holding, RunningIsHeld, Begins, Waits, Busy
<1>3. Holding' /\ RunningIsHeld' /\ Counted'
  BY <1>2 DEF Holding, RunningIsHeld, Counted, Busy
<1>4. Alone'
  BY <1>2 DEF Inv, Alone, Begins, Waits
<1>5. Waiting'
  BY DEF Inv, TypeOK, Waiting, Begins, Waits
<1>6. Verdicts'
  BY DEF Inv, Verdicts, Begins, Waits, hostVars
<1>7. QED BY <1>1, <1>3, <1>4, <1>5, <1>6 DEF Inv

LEMMA AcquireStep ==
    ASSUME Inv, NEW c \in Callers, NEW hosts \in SUBSET Hosts, Acquires(c, hosts),
           inventory' = [inventory EXCEPT ![c] = hosts], manual' \in 0..MaxManual,
           \A h \in Hosts : scan[<<c, h>>] \notin Scanning, ended' = ended,
           UNCHANGED <<job, hostVars, baseline, lastOk, verdict, missed, drift, faults>>
    PROVE  Inv'
<1>0. TypeOK /\ holder = None /\ holder' = c /\ c # None
  BY DEF Inv, Acquires
<1>1. TypeOK'
  <2>1. scan' \in [Callers \X Hosts -> ScanStages]
    BY <1>0, NewScans
  <2>2. /\ cycle' \in [Callers -> {"idle", "waiting", "scanning", "dispatching", "failing"}]
        /\ run' \in [Callers -> Runs] /\ scanned' \in [Callers -> SUBSET Hosts]
        /\ inventory' \in [Callers -> SUBSET Hosts] /\ overlapped' \subseteq Hosts
    BY <1>0 DEF TypeOK, Acquires, Runs
  <2>3. QED BY <1>0, <2>1, <2>2 DEF TypeOK, hostVars
<1>2. \A d \in Callers : d # c => /\ cycle'[d] = cycle[d] /\ cycle[d] \notin Busy
                                  /\ run'[d] = run[d] /\ run[d] # "running"
                                  /\ scanned'[d] = scanned[d] /\ inventory'[d] = inventory[d]
  BY <1>0 DEF Inv, TypeOK, Holding, RunningIsHeld, Acquires
<1>3. /\ cycle'[c] = "scanning" /\ run'[c] = "running" /\ scanned'[c] = {}
      /\ inventory'[c] = hosts
  BY <1>0 DEF TypeOK, Acquires
<1>a. /\ \A x \in Hosts : scan'[<<c, x>>] = IF x \in hosts THEN "probing" ELSE "no"
      /\ \A d \in Callers \ {c}, x \in Hosts : scan'[<<d, x>>] = scan[<<d, x>>]
  BY <1>0, NewScans
<1>4. Holding' /\ RunningIsHeld'
  BY <1>0, <1>2, <1>3 DEF Holding, RunningIsHeld, Busy
<1>5. Alone'
  <2>1. SUFFICES ASSUME NEW h \in Hosts, h \notin overlapped'
                 PROVE  /\ \A b, d \in Callers :
                             scan'[<<b, h>>] \in Scanning /\ scan'[<<d, h>>] \in Scanning => b = d
                        /\ \A b, d \in Callers :
                             cycle'[b] \in Busy /\ h \in inventory'[b]
                               /\ scan'[<<d, h>>] \in Scanning => b = d
    BY DEF Alone
  <2>2. h \notin overlapped /\ (h \in hosts => \A d \in Callers : scan[<<d, h>>] \notin Scanning)
    BY <2>1 DEF Acquires, UnderWay
  <2>3. CASE h \in hosts
    BY <1>0, <1>2, <1>3, <2>2, <2>3, NewScans
  <2>4. CASE h \notin hosts
    <3>1. scan'[<<c, h>>] \notin Scanning
      BY <1>0, <2>4, NewScans DEF Scanning
    <3>2. QED BY <1>0, <1>2, <1>3, <2>2, <2>4, <3>1, NewScans DEF Inv, Alone
  <2>5. QED BY <2>3, <2>4
<1>6. Counted'
  BY <1>2, <1>3, <1>a DEF Counted, Busy
<1>7. Waiting'
  BY <1>2, <1>3, <1>a DEF Inv, Waiting
<1>8. Verdicts'
  <2>1. \A h \in Hosts, d \in Callers :
           /\ scan'[<<d, h>>] \in {"quiet", "fires"} => scan'[<<d, h>>] = scan[<<d, h>>]
           /\ scan[<<d, h>>] \in {"quiet", "fires"} => scan'[<<d, h>>] = scan[<<d, h>>]
    BY <1>a DEF Scanning
  <2>2. missed' = missed /\ overlapped \subseteq overlapped'
    BY DEF Acquires
  <2>3. baseline' = baseline /\ verdict' = verdict /\ alert' = alert /\ Verdicts
    BY DEF Inv, hostVars
  <2>4. \A h \in Hosts : (\A d \in Callers : scan'[<<d, h>>] \notin {"quiet", "fires"}) =>
                          (\A d \in Callers : scan[<<d, h>>] \notin {"quiet", "fires"})
    BY <2>1
  <2>5. QED BY <2>1, <2>2, <2>3, <2>4 DEF Verdicts
<1>9. QED BY <1>1, <1>4, <1>5, <1>6, <1>7, <1>8 DEF Inv

\* A cycle goes on or fails.
LEMMA GoesStep ==
    ASSUME Inv, NEW c \in Callers, NEW to \in {"dispatching", "failing"}, cycle[c] \in Busy,
           to = "dispatching" => \A h \in Hosts : scan[<<c, h>>] = "no",
           cycle' = [cycle EXCEPT ![c] = to], faults' \in 0..MaxFaults,
           UNCHANGED <<job, hostVars, holder, ended, inventory, run, scanVars, missed,
                       overlapped, drift, manual>>
    PROVE  Inv'
<1>0. TypeOK /\ cycle'[c] = to /\ \A d \in Callers \ {c} : cycle'[d] = cycle[d]
  BY DEF Inv, TypeOK
<1>1. TypeOK'
  BY <1>0 DEF TypeOK, hostVars, scanVars, rowVars
<1>2. Holding' /\ RunningIsHeld' /\ Waiting'
  BY <1>0 DEF Inv, Holding, RunningIsHeld, Waiting, Busy, scanVars, rowVars
<1>3. Alone'
  BY <1>0 DEF Inv, Alone, Busy, scanVars, rowVars
<1>4. Counted'
  BY <1>0 DEF Inv, Counted, Busy, scanVars, rowVars
<1>5. Verdicts'
  BY DEF Inv, Verdicts, hostVars, scanVars, rowVars
<1>6. QED BY <1>1, <1>2, <1>3, <1>4, <1>5 DEF Inv

LEMMA ReleaseStep ==
    ASSUME Inv, NEW c \in Callers, cycle[c] \in Busy,
           NEW status \in {"success", "partial", "failed"}, Releases(c, status),
           ended' \in BOOLEAN,
           UNCHANGED <<job, hostVars, rowVars, scan, missed, overlapped, drift, manual, faults>>
    PROVE  Inv'
<1>0. /\ TypeOK /\ holder = c /\ holder' = None /\ c # None
      /\ cycle'[c] = "idle" /\ \A d \in Callers \ {c} : cycle'[d] = cycle[d]
      /\ run'[c] = status /\ \A d \in Callers \ {c} : run'[d] = run[d]
      /\ \A d \in Callers : cycle'[d] \notin Busy
  BY DEF Inv, TypeOK, Holding, Releases, Busy
<1>1. TypeOK'
  BY <1>0 DEF TypeOK, Releases, Runs, hostVars, rowVars
<1>2. Holding' /\ RunningIsHeld' /\ Waiting'
  BY <1>0 DEF Inv, Holding, RunningIsHeld, Waiting, Busy
<1>3. Alone'
  BY <1>0 DEF Inv, Alone, Busy, Releases
<1>4. Counted'
  BY <1>0 DEF Counted, Busy
<1>5. Verdicts'
  BY DEF Inv, Verdicts, hostVars, rowVars
<1>6. QED BY <1>1, <1>2, <1>3, <1>4, <1>5 DEF Inv

LEMMA ProbeFailsStep ==
    ASSUME Inv, NEW c \in Callers, NEW h \in Hosts, ProbeFails(c, h)
    PROVE  Inv'
<1>0. /\ TypeOK /\ scan[<<c, h>>] = "probing"
      /\ scan' \in [Callers \X Hosts -> ScanStages] /\ scan'[<<c, h>>] = "no"
      /\ \A d \in Callers, x \in Hosts : d # c \/ x # h => scan'[<<d, x>>] = scan[<<d, x>>]
      /\ lastOk'[h] = FALSE /\ \A x \in Hosts \ {h} : lastOk'[x] = lastOk[x]
  BY OneScan DEF Inv, TypeOK, ProbeFails, ScanStages
<1>1. TypeOK'
  BY <1>0 DEF TypeOK, ProbeFails, hostVars, cycleVars
<1>2. Holding' /\ RunningIsHeld'
  BY DEF Inv, Holding, RunningIsHeld, ProbeFails, cycleVars
<1>3. Waiting'
  BY <1>0 DEF Inv, Waiting, ProbeFails, cycleVars, Scanning
<1>4. Alone'
  BY <1>0 DEF Inv, Alone, ProbeFails, cycleVars, Scanning
<1>5. Counted'
  <2>1. /\ cycle' = cycle /\ inventory' = inventory /\ scanned' = scanned
        /\ overlapped' = overlapped /\ Counted
    BY DEF Inv, ProbeFails, cycleVars
  <2>2. \A x \in Hosts : lastOk'[x] => lastOk[x] /\ x # h
    BY <1>0
  <2>3. \A d \in Callers, x \in Hosts :
           /\ x # h => scan'[<<d, x>>] = scan[<<d, x>>]
           /\ scan[<<d, x>>] = "no" => scan'[<<d, x>>] = "no"
    BY <1>0
  <2>4. QED BY <2>1, <2>2, <2>3 DEF Counted
<1>6. Verdicts'
  BY <1>0 DEF Inv, Verdicts, ProbeFails, hostVars
<1>7. QED BY <1>1, <1>2, <1>3, <1>4, <1>5, <1>6 DEF Inv

\* What an inspection makes of what it found is quiet or fires, or nothing yet.
LEMMA RecordsStep ==
    ASSUME Inv, NEW c \in Callers, NEW h \in Hosts, NEW stage \in {"no", "quiet", "fires"},
           stage = "no" => baseline[h] = None, Records(c, h, stage)
    PROVE  Inv'
<1>0. /\ TypeOK /\ scan[<<c, h>>] = "probing"
      /\ scan' \in [Callers \X Hosts -> ScanStages] /\ scan'[<<c, h>>] = stage
      /\ \A d \in Callers, x \in Hosts : d # c \/ x # h => scan'[<<d, x>>] = scan[<<d, x>>]
  <2>1. TypeOK /\ stage \in ScanStages /\ scan' = [scan EXCEPT ![<<c, h>>] = stage]
    BY DEF Inv, Records, ScanStages, Scanning
  <2>2. /\ scan' \in [Callers \X Hosts -> ScanStages] /\ scan'[<<c, h>>] = stage
        /\ \A d \in Callers, x \in Hosts : d # c \/ x # h => scan'[<<d, x>>] = scan[<<d, x>>]
    BY <2>1, OneScan
  <2>3. scan[<<c, h>>] = "probing"
    BY DEF Records
  <2>4. QED BY <2>1, <2>2, <2>3
<1>1. /\ baseline'[h] = truth[h] /\ truth[h] # None
      /\ verdict'[h] = (stage = "fires") /\ h \in scanned'[c]
      /\ \A x \in Hosts \ {h} : /\ lastOk'[x] = lastOk[x] /\ baseline'[x] = baseline[x]
                                /\ verdict'[x] = verdict[x]
      /\ \A d \in Callers : scanned[d] \subseteq scanned'[d]
      /\ overlapped' \subseteq overlapped /\ overlapped \subseteq overlapped' \cup {h}
  BY <1>0 DEF TypeOK, Records
\* A scan that ends the exception is of the only cycle, and the only scan.
<1>a. ASSUME h \notin overlapped'
      PROVE  /\ \A d \in Callers \ {c} : scan[<<d, h>>] \notin Scanning
             /\ \A d \in Callers \ {c} : cycle[d] \in Busy => h \notin inventory[d]
  <2>1. CASE h \notin overlapped
    BY <1>0, <2>1 DEF Inv, Alone, Scanning
  <2>2. CASE h \in overlapped
    <3>1. holder = c /\ UnderWay(h) = {c}
      BY <1>a, <2>2 DEF Records
    <3>2. QED BY <3>1 DEF Inv, Holding, UnderWay
  <2>3. QED BY <2>1, <2>2
<1>2. TypeOK'
  BY <1>0 DEF TypeOK, Records, hostVars, cycleVars
<1>3. Holding' /\ RunningIsHeld'
  BY <1>1 DEF Inv, Holding, RunningIsHeld, Records, cycleVars
<1>4. Waiting'
  BY <1>0 DEF Inv, Waiting, Records, cycleVars, Scanning
<1>5. Alone'
  <2>1. cycle' = cycle /\ inventory' = inventory /\ Alone
    BY DEF Inv, Records, cycleVars
  <2>2. SUFFICES ASSUME NEW x \in Hosts, x \notin overlapped'
                 PROVE  /\ \A b, d \in Callers :
                             scan'[<<b, x>>] \in Scanning /\ scan'[<<d, x>>] \in Scanning => b = d
                        /\ \A b, d \in Callers :
                             cycle[b] \in Busy /\ x \in inventory[b]
                               /\ scan'[<<d, x>>] \in Scanning => b = d
    BY <2>1 DEF Alone
  <2>3. CASE x = h
    BY <1>0, <1>a, <2>2, <2>3
  <2>4. CASE x # h
    BY <1>0, <1>1, <2>1, <2>2, <2>4 DEF Alone
  <2>5. QED BY <2>3, <2>4
<1>6. Counted'
  <2>1. SUFFICES ASSUME NEW d \in Callers, NEW x \in Hosts, cycle'[d] \in Busy
                 PROVE  /\ x \in inventory'[d] =>
                             scan'[<<d, x>>] \in {"probing", "raised"} \/ ~lastOk'[x]
                               \/ x \in (scanned[d] \cup overlapped)'
                        /\ cycle'[d] = "dispatching" => scan'[<<d, x>>] = "no"
    BY DEF Counted, Busy
  <2>2. CASE x # h
    BY <1>0, <1>1, <2>1, <2>2 DEF Inv, Counted, Records, cycleVars
  <2>3. CASE x = h /\ d = c
    BY <1>0, <1>1, <2>1, <2>3 DEF Inv, Counted, Records, cycleVars
  <2>4. CASE x = h /\ d # c
    <3>1. x \in inventory[d] => x \in overlapped'
      BY <1>a, <2>1, <2>4 DEF Records, cycleVars
    <3>2. QED BY <1>0, <2>1, <2>4, <3>1 DEF Inv, Counted, Records, cycleVars
  <2>5. QED BY <2>2, <2>3, <2>4
<1>7. Verdicts'
  <2>1. alert' = alert /\ missed' = missed /\ Verdicts
    BY DEF Inv, Records, hostVars
  <2>2. \A x \in Hosts : baseline'[x] = None => baseline[x] = None /\ x # h
    BY <1>1
  <2>3. \A x \in Hosts, d \in Callers :
           scan'[<<d, x>>] \in {"quiet", "fires"} =>
              (x = h /\ d = c) \/ (x = h /\ d # c /\ scan[<<d, x>>] \in Scanning)
              \/ (x # h /\ scan'[<<d, x>>] = scan[<<d, x>>])
    BY <1>0 DEF Scanning
  <2>4. \A x \in Hosts \ {h} : x \in overlapped' <=> x \in overlapped
    BY <1>1
  <2>5. \A x \in Hosts, d \in Callers :
           scan'[<<d, x>>] \in {"quiet", "fires"} => baseline'[x] # None
    BY <1>1, <2>1, <2>3 DEF Verdicts
  <2>6. ASSUME NEW x \in Hosts, x \notin overlapped', NEW d \in Callers,
               scan'[<<d, x>>] \in {"quiet", "fires"}
        PROVE  scan'[<<d, x>>] = "fires" <=> verdict'[x]
    <3>1. CASE x # h
      BY <1>1, <2>1, <2>3, <2>4, <2>6, <3>1 DEF Verdicts
    <3>2. CASE x = h /\ d = c
      BY <1>0, <1>1, <3>2
    <3>3. QED BY <1>a, <2>3, <2>6, <3>1, <3>2
  <2>7. ASSUME NEW x \in Hosts, x \notin missed, x \notin overlapped',
               \A d \in Callers : scan'[<<d, x>>] \notin {"quiet", "fires"}
        PROVE  x \in alert <=> verdict'[x]
    <3>1. CASE x # h
      BY <1>0, <1>1, <2>1, <2>4, <2>7, <3>1 DEF Verdicts
    <3>2. CASE x = h
      BY <1>0, <1>1, <2>1, <2>7, <3>2 DEF Verdicts
    <3>3. QED BY <3>1, <3>2
  <2>8. QED BY <2>1, <2>2, <2>5, <2>6, <2>7 DEF Verdicts
<1>8. QED BY <1>2, <1>3, <1>4, <1>5, <1>6, <1>7 DEF Inv

LEMMA UpdateStep ==
    ASSUME Inv, NEW c \in Callers, NEW h \in Hosts, UpdateAlert(c, h)
    PROVE  Inv'
<1>0. /\ TypeOK /\ scan[<<c, h>>] \in {"quiet", "fires"}
      /\ scan' \in [Callers \X Hosts -> ScanStages] /\ scan'[<<c, h>>] = "no"
      /\ \A d \in Callers, x \in Hosts : d # c \/ x # h => scan'[<<d, x>>] = scan[<<d, x>>]
  BY OneScan DEF Inv, UpdateAlert, ScanStages
<1>1. TypeOK'
  BY <1>0 DEF TypeOK, UpdateAlert, cycleVars
<1>2. Holding' /\ RunningIsHeld'
  BY DEF Inv, Holding, RunningIsHeld, UpdateAlert, cycleVars
<1>3. Waiting'
  BY <1>0 DEF Inv, Waiting, UpdateAlert, cycleVars, Scanning
<1>4. Alone'
  BY <1>0 DEF Inv, Alone, UpdateAlert, cycleVars, Scanning
<1>5. Counted'
  <2>1. /\ cycle' = cycle /\ inventory' = inventory /\ scanned' = scanned
        /\ overlapped' = overlapped /\ lastOk' = lastOk /\ Counted
    BY DEF Inv, UpdateAlert, cycleVars
  <2>2. \A d \in Callers, x \in Hosts :
           /\ scan[<<d, x>>] \in {"probing", "raised"} => scan'[<<d, x>>] = scan[<<d, x>>]
           /\ scan[<<d, x>>] = "no" => scan'[<<d, x>>] = "no"
    BY <1>0
  <2>3. QED BY <2>1, <2>2 DEF Counted
<1>6. Verdicts'
  <2>1. baseline' = baseline /\ verdict' = verdict /\ overlapped' = overlapped /\ Verdicts
    BY DEF Inv, UpdateAlert
  <2>2. \A x \in Hosts, d \in Callers :
           scan'[<<d, x>>] \in {"quiet", "fires"} => scan'[<<d, x>>] = scan[<<d, x>>]
    BY <1>0
  <2>3. \A x \in Hosts : x \in alert' => x \in alert \/ x = h
    BY DEF UpdateAlert
  <2>4. baseline[h] # None
    BY <1>0, <2>1 DEF Verdicts
  <2>5. ASSUME NEW x \in Hosts, x \notin missed', x \notin overlapped,
               \A d \in Callers : scan'[<<d, x>>] \notin {"quiet", "fires"}
        PROVE  x \in alert' <=> verdict[x]
    <3>1. CASE x # h
      <4>1. x \notin missed /\ (x \in alert' <=> x \in alert)
        BY <2>5, <3>1 DEF UpdateAlert
      <4>2. \A d \in Callers : scan[<<d, x>>] \notin {"quiet", "fires"}
        BY <1>0, <2>5, <3>1
      <4>3. QED BY <2>1, <2>5, <4>1, <4>2 DEF Verdicts
    <3>2. CASE x = h
      <4>1. rule /\ (h \in alert' <=> scan[<<c, h>>] = "fires")
        BY <1>0, <2>5, <3>2 DEF UpdateAlert
      <4>2. scan[<<c, h>>] = "fires" <=> verdict[h]
        BY <1>0, <2>1, <2>5, <3>2 DEF Verdicts
      <4>3. QED BY <3>2, <4>1, <4>2
    <3>3. QED BY <3>1, <3>2
  <2>6. QED BY <2>1, <2>2, <2>3, <2>4, <2>5 DEF Verdicts
<1>7. QED BY <1>1, <1>2, <1>3, <1>4, <1>5, <1>6 DEF Inv

LEMMA RaiseStep ==
    ASSUME Inv, NEW c \in Callers, NEW h \in Hosts, ScanRaises(c, h)
    PROVE  Inv'
<1>0. /\ TypeOK /\ scan[<<c, h>>] \in Scanning
      /\ scan' \in [Callers \X Hosts -> ScanStages] /\ scan'[<<c, h>>] = "raised"
      /\ \A d \in Callers, x \in Hosts : d # c \/ x # h => scan'[<<d, x>>] = scan[<<d, x>>]
  <2>1. TypeOK /\ "raised" \in ScanStages /\ scan' = [scan EXCEPT ![<<c, h>>] = "raised"]
    BY DEF Inv, ScanRaises, ScanStages
  <2>2. QED BY <2>1, OneScan DEF ScanRaises
<1>1. TypeOK'
  BY <1>0 DEF TypeOK, ScanRaises, Fault, hostVars, cycleVars
<1>2. Holding' /\ RunningIsHeld'
  BY DEF Inv, Holding, RunningIsHeld, ScanRaises, cycleVars
<1>3. Waiting'
  BY <1>0 DEF Inv, Waiting, ScanRaises, cycleVars, Scanning
<1>4. Alone'
  BY <1>0 DEF Inv, Alone, ScanRaises, cycleVars, Scanning
<1>5. Counted'
  <2>1. /\ cycle' = cycle /\ inventory' = inventory /\ scanned' = scanned
        /\ overlapped' = overlapped /\ lastOk' = lastOk /\ Counted
    BY DEF Inv, ScanRaises, cycleVars
  <2>2. \A d \in Callers, x \in Hosts :
           /\ scan[<<d, x>>] \in {"probing", "raised"} => scan'[<<d, x>>] \in {"probing", "raised"}
           /\ scan[<<d, x>>] = "no" => scan'[<<d, x>>] = "no"
    BY <1>0 DEF Scanning
  <2>3. QED BY <2>1, <2>2 DEF Counted
<1>6. Verdicts'
  <2>1. /\ baseline' = baseline /\ verdict' = verdict /\ overlapped' = overlapped
        /\ alert' = alert /\ Verdicts
    BY DEF Inv, ScanRaises, hostVars
  <2>2. \A x \in Hosts, d \in Callers :
           scan'[<<d, x>>] \in {"quiet", "fires"} => scan'[<<d, x>>] = scan[<<d, x>>]
    BY <1>0
  <2>3. \A x \in Hosts, d \in Callers :
           x \notin missed' /\ scan[<<d, x>>] \in {"quiet", "fires"} =>
              scan'[<<d, x>>] = scan[<<d, x>>]
    BY <1>0 DEF ScanRaises
  <2>4. missed \subseteq missed'
    BY DEF ScanRaises
  <2>5. QED BY <2>1, <2>2, <2>3, <2>4 DEF Verdicts
<1>7. QED BY <1>1, <1>2, <1>3, <1>4, <1>5, <1>6 DEF Inv

LEMMA RestartStep == ASSUME Inv, ApiRestart PROVE Inv'
<1>0. /\ TypeOK /\ holder' = None
      /\ scan' = [p \in Callers \X Hosts |-> "no"]
      /\ \A d \in Callers, x \in Hosts : scan'[<<d, x>>] = "no"
  BY DEF Inv, TypeOK, ApiRestart
<1>1. TypeOK'
  <2>1. scan' \in [Callers \X Hosts -> ScanStages] /\ ended' \in BOOLEAN
    BY <1>0 DEF ApiRestart, ScanStages
  <2>2. run' \in [Callers -> Runs]
    BY <1>0 DEF TypeOK, ApiRestart, Runs
  <2>3. faults' \in 0..MaxFaults /\ missed' \subseteq Hosts
    BY <1>0 DEF TypeOK, ApiRestart, Untold, Fault
  <2>4. cycle' \in [Callers -> {"idle", "waiting", "scanning", "dispatching", "failing"}]
    BY <1>0 DEF ApiRestart
  <2>5. QED BY <1>0, <2>1, <2>2, <2>3, <2>4 DEF TypeOK, ApiRestart, hostVars, rowVars
<1>2. Holding' /\ RunningIsHeld' /\ Waiting' /\ Alone' /\ Counted'
  BY <1>0 DEF Holding, RunningIsHeld, Waiting, Alone, Counted, ApiRestart, Busy, Scanning
<1>3. Verdicts'
  <2>1. /\ baseline' = baseline /\ verdict' = verdict /\ overlapped' = overlapped
        /\ alert' = alert /\ Verdicts
    BY DEF Inv, ApiRestart, hostVars, rowVars
  <2>2. \A x \in Hosts : x \notin missed' =>
           x \notin missed /\ \A d \in Callers : scan[<<d, x>>] \notin {"quiet", "fires"}
    BY DEF ApiRestart, Untold
  <2>3. QED BY <1>0, <2>1, <2>2 DEF Verdicts
<1>4. QED BY <1>1, <1>2, <1>3 DEF Inv

-----------------------------------------------------------------------------
LEMMA Start == Init => Inv
<1> SUFFICES ASSUME Init PROVE Inv
  OBVIOUS
<1>1. \A c \in Callers, h \in Hosts : scan[<<c, h>>] = "no"
  BY DEF Init
<1>2. TypeOK
  <2>1. /\ scan \in [Callers \X Hosts -> ScanStages] /\ run \in [Callers -> Runs]
        /\ ended \in BOOLEAN
    BY DEF Init, Runs, ScanStages
  <2>2. drift \in 0..MaxDrift /\ manual \in 0..MaxManual /\ faults \in 0..MaxFaults
    BY DEF Init
  <2>3. QED BY <2>1, <2>2 DEF Init, TypeOK
<1>3. Holding /\ RunningIsHeld /\ Waiting /\ Alone /\ Counted
  BY <1>1 DEF Init, Holding, RunningIsHeld, Waiting, Alone, Counted, Busy, Scanning
<1>4. Verdicts
  BY <1>1 DEF Init, Verdicts
<1>5. QED BY <1>2, <1>3, <1>4 DEF Inv

LEMMA CycleKeeps ==
    ASSUME Inv, NEW c \in Callers, CycleStep(c) \/ DispatchRaises(c)
    PROVE  Inv'
<1>0. TypeOK
  BY DEF Inv
<1>1. CASE Acquire(c)
  <2>1. Acquires(c, inventory[c]) /\ inventory[c] \in SUBSET Hosts
    BY <1>0, <1>1 DEF Acquire, TypeOK
  <2>2. \A h \in Hosts : scan[<<c, h>>] \notin Scanning
    BY <1>1 DEF Acquire, Inv, Waiting
  <2>3. inventory' = [inventory EXCEPT ![c] = inventory[c]] /\ manual' \in 0..MaxManual
    BY <1>0, <1>1 DEF Acquire, TypeOK
  <2>4. QED BY <1>1, <2>1, <2>2, <2>3, AcquireStep DEF Acquire
<1>2. CASE GatherReturns(c)
  BY <1>0, <1>2, GoesStep DEF GatherReturns, Busy, TypeOK
<1>3. CASE GatherRaises(c)
  BY <1>0, <1>3, GoesStep DEF GatherRaises, Busy, TypeOK
<1>4. CASE DispatchRaises(c)
  <2>1. faults' \in 0..MaxFaults
    BY <1>0, <1>4 DEF DispatchRaises, TypeOK, Fault
  <2>2. QED BY <1>4, <2>1, GoesStep DEF DispatchRaises, Busy
<1>5. CASE FinishFailed(c)
  <2>1. ended' \in BOOLEAN
    BY <1>0, <1>5 DEF FinishFailed, TypeOK
  <2>2. QED BY <1>5, <2>1, ReleaseStep DEF FinishFailed, Busy
<1>6. CASE Finish(c)
  <2>1. /\ \E status \in {"success", "partial", "failed"} : Releases(c, status)
        /\ ended' \in BOOLEAN
    BY <1>0, <1>6 DEF Finish, TypeOK
  <2>2. QED BY <1>6, <2>1, ReleaseStep DEF Finish, Busy
<1>7. QED BY <1>1, <1>2, <1>3, <1>4, <1>5, <1>6 DEF CycleStep

LEMMA ScanKeeps ==
    ASSUME Inv, NEW c \in Callers, NEW h \in Hosts, ScanStep(c, h) \/ ScanRaises(c, h)
    PROVE  Inv'
<1>1. CASE RecordAssets(c, h)
  <2> DEFINE stage == IF baseline[h] = None THEN "no"
                      ELSE IF Drifted(truth[h], baseline[h]) THEN "fires" ELSE "quiet"
  <2>1. /\ Records(c, h, stage) /\ stage \in {"no", "quiet", "fires"}
        /\ stage = "no" => baseline[h] = None
    BY <1>1 DEF RecordAssets
  <2> HIDE DEF stage
  <2>2. QED BY <2>1, RecordsStep
<1>2. CASE RecordUpdates(c, h) \/ RecordSecurity(c, h)
  <2>1. \E stage \in {"quiet", "fires"} : Records(c, h, stage)
    BY <1>2 DEF RecordUpdates, RecordSecurity
  <2>2. QED BY <2>1, RecordsStep
<1>3. CASE ProbeFails(c, h) \/ UpdateAlert(c, h) \/ ScanRaises(c, h)
  BY <1>3, ProbeFailsStep, UpdateStep, RaiseStep
<1>4. QED BY <1>1, <1>2, <1>3 DEF ScanStep, Record

LEMMA AskedKeeps ==
    ASSUME Inv, NEW c \in Callers, NEW hosts \in SUBSET Hosts,
           (LoopBegins /\ c = Loop /\ hosts = Hosts) \/ AdminBegins(c, hosts) \/ RunJob(c)
    PROVE  Inv'
<1>0. TypeOK /\ (Asked(c) => manual' \in 0..MaxManual)
  BY DEF Inv, TypeOK, Asked
<1>1. CASE (LoopBegins /\ c = Loop /\ hosts = Hosts) \/ AdminBegins(c, hosts)
  BY <1>0, <1>1, WaitStep DEF LoopBegins, AdminBegins, TypeOK
<1>2. CASE RunJob(c)
  BY <1>0, <1>2, AcquireStep DEF RunJob, Begins
<1>3. QED BY <1>1, <1>2

LEMMA Step == Inv /\ [Next]_vars => Inv'
<1> SUFFICES ASSUME Inv, [Next]_vars PROVE Inv'
  OBVIOUS
<1>1. CASE UNCHANGED vars
  <2>1. TypeOK' /\ Verdicts'
    BY <1>1 DEF Inv, TypeOK, Verdicts, vars, hostVars, cycleVars, scanVars, rowVars
  <2>2. QED BY <1>1, <2>1, Frame DEF Inv, vars
<1>2. CASE LoopBegins
  BY <1>2, AskedKeeps
<1>3. CASE \E c \in Callers, hosts \in (SUBSET Hosts) \ {{}} : AdminBegins(c, hosts)
  BY <1>3, AskedKeeps
<1>4. CASE \E c \in Callers : RunJob(c)
  BY <1>4, AskedKeeps
<1>5. QED
  BY <1>1, <1>2, <1>3, <1>4, DriftStep, CloseStep, RuleStep, CycleKeeps, ScanKeeps, RestartStep
  DEF Next

LEMMA Invariance == Spec => []Inv
BY Start, Step, PTL DEF Spec

\* Every variable keeps its type, whatever is scanned, fails and restarts.
THEOREM TypeCorrect == Spec => []TypeOK
BY Invariance, PTL DEF Inv

\* An automation_runs row says running only while its cycle has the lock: the
\* cycle ends it in every way it can end, and a restart (main.py 1625) the others.
THEOREM Running == Spec => []RunningIsHeld
BY Invariance, PTL DEF Inv

\* Only Finish writes a success.
LEMMA SuccessIsFinish ==
    ASSUME Inv, [Next]_vars, NEW c \in Callers, run'[c] = "success", run[c] # "success"
    PROVE  cycle[c] = "dispatching" /\ \A h \in inventory[c] : lastOk[h]
<1>0. run \in [Callers -> Runs]
  BY DEF Inv, TypeOK
<1>1. CASE \E d \in Callers : Finish(d)
  <2>1. PICK d \in Callers : Finish(d)
    BY <1>1
  <2>2. d = c
    BY <1>0, <2>1 DEF Finish, Releases
  <2>3. {h \in inventory[c] : lastOk[h]} = inventory[c]
    BY <1>0, <2>1, <2>2 DEF Finish, Releases
  <2>4. QED BY <2>1, <2>2, <2>3 DEF Finish
<1>2. CASE \E d \in Callers : FinishFailed(d)
  BY <1>0, <1>2 DEF FinishFailed, Releases
<1>3. CASE \E d \in Callers : Acquire(d) \/ RunJob(d)
  BY <1>0, <1>3 DEF Acquire, RunJob, Acquires
<1>4. CASE LoopBegins \/ \E d \in Callers, hosts \in SUBSET Hosts : AdminBegins(d, hosts)
  BY <1>0, <1>4 DEF LoopBegins, AdminBegins, Waits
<1>5. CASE ApiRestart
  BY <1>0, <1>5 DEF ApiRestart
<1>6. CASE \E d \in Callers : GatherReturns(d) \/ GatherRaises(d) \/ DispatchRaises(d)
  BY <1>6 DEF GatherReturns, GatherRaises, DispatchRaises
<1>7. CASE \E d \in Callers, h \in Hosts : ScanStep(d, h) \/ ScanRaises(d, h)
  BY <1>7 DEF ScanStep, ProbeFails, Record, RecordAssets, RecordUpdates, RecordSecurity,
              Records, UpdateAlert, ScanRaises, cycleVars
<1>8. CASE \/ SwitchRule \/ UNCHANGED vars
            \/ \E h \in Hosts : HostDrifts(h) \/ CloseIncident(h)
  BY <1>8 DEF SwitchRule, HostDrifts, CloseIncident, vars, cycleVars
<1>9. QED
  BY <1>1, <1>2, <1>3, <1>4, <1>5, <1>6, <1>7, <1>8 DEF Next, CycleStep

\* finish_automation_run calls a cycle a success only if its scans were, although
\* it counts the latest row of each host whoever wrote it.
THEOREM Successes == Spec => SuccessMeansScanned
<1>1. ASSUME Inv, [Next]_vars, NEW c \in Callers, run'[c] = "success", run[c] # "success"
      PROVE  inventory[c] \subseteq scanned[c] \cup overlapped
  <2>1. /\ cycle[c] \in Busy /\ \A h \in inventory[c] : lastOk[h]
        /\ \A h \in Hosts : scan[<<c, h>>] = "no"
    BY <1>1, SuccessIsFinish DEF Inv, Counted, Busy
  <2>2. QED BY <1>1, <2>1 DEF Inv, Counted, TypeOK
<1>2. Inv /\ [Next]_vars =>
        [\A c \in Callers :
            run'[c] = "success" =>
               run[c] = "success" \/ inventory[c] \subseteq scanned[c] \cup overlapped]_vars
  BY <1>1
<1>3. QED BY <1>2, Invariance, PTL DEF Spec, SuccessMeansScanned

\* The alert table says what the last scan of each host said, but for verdicts lost
\* in a fault or under a rule that is off, alerts closed since, by close_incident
\* (main.py 8070) or with the rule, and hosts scanned by two cycles at a time.
THEOREM Alerts == Spec => []AlertMatchesLastScan
<1>1. Inv => AlertMatchesLastScan
  BY DEF Inv, Verdicts, AlertMatchesLastScan, UnderWay, Scanning
<1>2. QED BY <1>1, Invariance, PTL
=============================================================================
