------------------------- MODULE Recon_proofs -------------------------
(* What holds of the passive branch for any hosts, sources, agents, calls,     *)
(* engines, caps and deadline, and for any number of sources in parallel.      *)
EXTENDS PassiveRecon, Discovery, TLAPS, FiniteSetTheorems, WellFoundedInduction

Places == {"idle", "next", "again", "pacing", "forging", "flying", "done", "failed"}
Busy == {"next", "again", "pacing", "forging", "flying"}
Stops == {"sweep", "recurse", "working", "draining", "probe", "listing", "probing", "done"}
Statuses == {"active", "cooldown", "isolated"}

PassiveTypes ==
  /\ now \in 1 .. Deadline /\ rows \subseteq Host
  /\ main \in [at: Stops,
               cap: SeedsCaps, depth: 0 .. DepthCap, seeds: SUBSET Host, base: SUBSET Host,
               fresh: SUBSET Host, partial: SUBSET {"budget", "seeds_cap"}]
  /\ main.base \subseteq rows /\ main.fresh \subseteq rows
  /\ main.at \in {"working", "draining"} => Cardinality(main.seeds) <= main.cap
  /\ place \in [Thread -> Places] /\ found \in [Thread -> SUBSET Host] /\ named \in [Thread -> SUBSET Host]
  /\ cut \subseteq {"calls", "probe"}

\* A call is cut only once the time is over, and what follows looks at the clock.
BudgetNoted ==
  /\ cut # {} => Late
  /\ main.at \in {"listing", "probing", "done"} /\ "calls" \in cut => "budget" \in main.partial

\* Who may run, by the place of the branch.
Between == {"recurse", "probe", "listing", "probing", "done"}
Resting ==
  /\ main.at \in Between => \A t \in Thread : place[t] = "idle"
  /\ main.at = "sweep" => \A t \in Host : place[t] = "idle"
  /\ main.at \in {"working", "draining"} => \A t \in Thread \ main.seeds : place[t] = "idle"

\* What a thread has read is a candidate, or the thread holds it.
HeldBy(t) ==
  /\ found[t] \subseteq named[t] /\ named[t] \subseteq rows \cup found[t]
  /\ t \in Host /\ place[t] = "idle" => named[t] \subseteq rows
  /\ t \notin Host /\ Ended(t) => found[t] = {}
  /\ ~AddsLast(t) /\ place[t] \in {"flying", "forging", "pacing", "again"} => found[t] = {}
Held == \A t \in Thread : HeldBy(t)

\* What ended threads had read are candidates, unless the budget is disclosed.
Disclosed ==
  /\ main.at = "draining" => "budget" \in main.partial
  /\ "budget" \notin main.partial => owed \subseteq rows

PInv == PassiveTypes /\ BudgetNoted /\ Resting /\ Held /\ Disclosed

LEMMA Threads ==
  /\ Host \subseteq Thread /\ Source \subseteq Thread /\ Agent \subseteq Thread
  /\ \A t \in Thread : t \in Source \cup Agent <=> t \notin Host
BY PassiveAssumption DEF Thread

(***************************************************************************)
(* A step of one thread.                                                    *)
(***************************************************************************)
Moves(t) ==
  /\ UNCHANGED <<now, main, owed>>
  /\ place[t] \in Busy
  /\ \E l \in Places \ {"idle"} : place' = [place EXCEPT ![t] = l]
  /\ \E f \in SUBSET Host : found' = [found EXCEPT ![t] = f]
  /\ \E n \in SUBSET Host : named' = [named EXCEPT ![t] = n]
  /\ rows \subseteq rows' /\ rows' \subseteq Host
  /\ cut' = cut \/ (Late /\ cut' = cut \cup {"calls"})
  /\ HeldBy(t)'

LEMMA HearMoves ==
  ASSUME PInv, NEW t \in Thread, NEW how, NEW hosts \in SUBSET Host, Hear(t, how, hosts),
         place[t] \in Busy, UNCHANGED <<now, main, rows, owed>>, NEW late, CutIf(late), late => Late
  PROVE  Moves(t)
<1> USE DEF PInv, PassiveTypes
<1>1. place' = [place EXCEPT ![t] = "next"] /\ found' = [found EXCEPT ![t] = found[t] \cup hosts]
      /\ named' = [named EXCEPT ![t] = named[t] \cup hosts]
  BY DEF Hear
<1>2. found[t] \cup hosts \in SUBSET Host /\ named[t] \cup hosts \in SUBSET Host
  OBVIOUS
<1>3. cut' = cut \/ (Late /\ cut' = cut \cup {"calls"})
  BY DEF CutIf
<1>4. HeldBy(t)'
  <2>1. place'[t] = "next" /\ found'[t] = found[t] \cup hosts /\ named'[t] = named[t] \cup hosts
    BY <1>1
  <2>2. HeldBy(t)
    BY DEF Held
  <2> QED BY <2>1, <2>2 DEF HeldBy, Ended
<1> QED BY <1>1, <1>2, <1>3, <1>4 DEF Moves, Places

\* The thread goes on without an answer.
LEMMA GoMoves ==
  ASSUME PInv, NEW t \in Thread, NEW l \in {"again", "pacing", "forging", "flying"}, place' = [place EXCEPT ![t] = l],
         place[t] \in Busy, AddsLast(t) \/ found[t] = {}, UNCHANGED <<now, main, rows, owed, found, named>>,
         NEW late, CutIf(late), late => Late
  PROVE  Moves(t)
<1> USE DEF PInv, PassiveTypes
<1>1. found' = [found EXCEPT ![t] = found[t]] /\ named' = [named EXCEPT ![t] = named[t]]
      /\ found[t] \in SUBSET Host /\ named[t] \in SUBSET Host
  OBVIOUS
<1>2. place'[t] = l /\ found'[t] = found[t] /\ named'[t] = named[t] /\ rows' = rows
  OBVIOUS
<1>3. HeldBy(t)
  BY DEF Held
<1>4. AddsLast(t)' = AddsLast(t)
  BY DEF AddsLast
<1>5. HeldBy(t)'
  BY <1>2, <1>3, <1>4 DEF HeldBy, Ended
<1> QED BY <1>1, <1>5 DEF Moves, Places, CutIf

LEMMA KeptHosts == ASSUME NEW t, NEW how, NEW hosts \in SUBSET Host PROVE Credited(t, how, hosts) \in SUBSET Host
BY DEF Credited

LEMMA StepMoves ==
  ASSUME PInv, NEW t \in Thread, Step(t) \/ Raise(t)
  PROVE  Moves(t)
<1>0. place \in [Thread -> Places] /\ found \in [Thread -> SUBSET Host] /\ named \in [Thread -> SUBSET Host] /\ HeldBy(t)
  BY DEF PInv, PassiveTypes, Held
<1>0a. \A x : AddsLast(x)' = AddsLast(x)
  BY DEF AddsLast
<1>1. CASE Ask(t)
  <2>1. /\ place[t] \in Busy /\ (AddsLast(t) \/ found[t] = {})
        /\ UNCHANGED <<now, main, rows, owed>> /\ CutIf(Late)
    BY <1>0, <1>1 DEF Ask, Ready, Busy, HeldBy
  <2>2. CASE Hear(t, "cut", {})
    BY <2>1, <2>2, HearMoves
  <2>3. CASE place' = [place EXCEPT ![t] = "flying"] /\ UNCHANGED <<found, named>>
    BY <2>1, <2>3, GoMoves
  <2> QED BY <1>1, <2>2, <2>3 DEF Ask, StartCall
<1>2. CASE Replies(t)
  <2>1. PICK how \in {"ok", "bad"}, hosts \in Answers :
          /\ Hear(t, Ending(t, how, Credited(t, how, hosts)), Credited(t, how, hosts))
          /\ CutIf(Late /\ how = "bad")
    BY <1>2 DEF Replies
  <2>2. Credited(t, how, hosts) \in SUBSET Host
    BY KeptHosts DEF Answers
  <2>3. place[t] \in Busy /\ UNCHANGED <<now, main, rows, owed>>
    BY <1>2 DEF Replies, Busy
  <2> QED BY <2>1, <2>2, <2>3, HearMoves
<1>3. CASE Choose(t)
  <2>1. place[t] \in Busy /\ (AddsLast(t) \/ found[t] = {}) /\ UNCHANGED <<now, main, rows, owed>>
    BY <1>3, <1>0 DEF Choose, Ready, Busy, HeldBy
  <2>2. \/ \E how, late : Hear(t, how, {}) /\ CutIf(late) /\ (late => Late)
        \/ place' = [place EXCEPT ![t] = "pacing"] /\ UNCHANGED <<found, named, cut>>
    <3> DEFINE engine == Pick(WokenAll(pool, now))
               early == place[t] = "next" /\ Late
    <3>1. \/ /\ early \/ engine = None \/ Late
             /\ Hear(t, IF early \/ engine # None THEN "cut" ELSE "asked", {})
             /\ CutIf(early \/ engine # None)
          \/ place' = [place EXCEPT ![t] = "pacing"] /\ UNCHANGED <<found, named, cut>>
      BY <1>3 DEF Choose
    <3> HIDE DEF engine
    <3>2. (early \/ engine = None \/ Late) => ((early \/ engine # None) => Late)
      OBVIOUS
    <3> QED BY <3>1, <3>2
  <2>3. CASE \E how, late : Hear(t, how, {}) /\ CutIf(late) /\ (late => Late)
    BY <2>1, <2>3, HearMoves
  <2>4. CASE place' = [place EXCEPT ![t] = "pacing"] /\ UNCHANGED <<found, named, cut>>
    <3>1. CutIf(FALSE)
      BY <2>4 DEF CutIf
    <3> QED BY <2>1, <2>4, <3>1, GoMoves
  <2> QED BY <2>2, <2>3, <2>4
<1>4. CASE Send(t)
  <2>1. /\ place[t] \in Busy /\ (AddsLast(t) \/ found[t] = {})
        /\ UNCHANGED <<now, main, rows, owed>> /\ CutIf(Late)
    BY <1>4, <1>0 DEF Send, Busy, HeldBy
  <2>2. CASE Hear(t, "cut", {})
    BY <2>1, <2>2, HearMoves
  <2>3. CASE place' = [place EXCEPT ![t] = "flying"] /\ UNCHANGED <<found, named>>
    BY <2>1, <2>3, GoMoves
  <2> QED BY <1>4, <2>2, <2>3 DEF Send, StartCall
<1>5. CASE EngineAnswers(t)
  <2>1. place[t] \in Busy /\ (AddsLast(t) \/ found[t] = {}) /\ UNCHANGED <<now, main, rows, owed>>
    BY <1>5, <1>0 DEF EngineAnswers, Busy, HeldBy
  <2>2. PICK late : CutIf(late) /\ (late => Late)
    BY <1>5 DEF EngineAnswers
  <2>3. \/ \E hosts \in SUBSET Host : Hear(t, "asked", hosts)
        \/ place' = [place EXCEPT ![t] = "again"] /\ UNCHANGED <<found, named>>
    BY <1>5 DEF EngineAnswers, Answers
  <2>4. CASE \E hosts \in SUBSET Host : Hear(t, "asked", hosts)
    BY <2>1, <2>2, <2>4, HearMoves
  <2>5. CASE place' = [place EXCEPT ![t] = "again"] /\ UNCHANGED <<found, named>>
    BY <2>1, <2>2, <2>5, GoMoves
  <2> QED BY <2>3, <2>4, <2>5
<1>6. CASE Add(t)
  <2>1. /\ place[t] = "next" /\ place' = place /\ rows' = rows \cup found[t] /\ found' = [found EXCEPT ![t] = {}]
        /\ UNCHANGED <<now, main, named, owed, cut>>
    BY <1>6 DEF Add
  <2>2. place' = [place EXCEPT ![t] = "next"] /\ named' = [named EXCEPT ![t] = named[t]]
    BY <1>0, <2>1
  <2>3. rows \subseteq rows' /\ rows' \subseteq Host
    BY <1>0, <2>1 DEF PInv, PassiveTypes
  <2>4. HeldBy(t)'
    BY <1>0, <2>1 DEF HeldBy, Ended
  <2> QED BY <1>0, <2>1, <2>2, <2>3, <2>4 DEF Moves, Busy, Places
<1>7. CASE Finish(t)
  <2>1. /\ place[t] = "next" /\ (t \notin Host => found[t] = {})
        /\ \E l \in {"done", "failed"} : place' = [place EXCEPT ![t] = l]
        /\ UNCHANGED <<now, main, found, rows, named, owed, cut>>
    BY <1>7 DEF Finish
  <2>2. found' = [found EXCEPT ![t] = found[t]] /\ named' = [named EXCEPT ![t] = named[t]] /\ rows' \subseteq Host
    BY <1>0, <2>1 DEF PInv, PassiveTypes
  <2>3. place'[t] \in {"done", "failed"}
    BY <1>0, <2>1
  <2>4. HeldBy(t)'
    BY <1>0, <2>1, <2>3 DEF HeldBy, Ended
  <2> QED BY <1>0, <2>1, <2>2, <2>4 DEF Moves, Busy, Places, PInv, PassiveTypes
<1>8. CASE Raise(t)
  <2>1. /\ place[t] \in {"flying", "forging"} /\ place' = [place EXCEPT ![t] = "failed"] /\ found' = [found EXCEPT ![t] = {}]
        /\ named' = [named EXCEPT ![t] = IF AddsLast(t) THEN {} ELSE named[t]]
        /\ UNCHANGED <<now, main, rows, owed, cut>>
    BY <1>8 DEF Raise
  <2>2. place'[t] = "failed" /\ found'[t] = {} /\ named'[t] = IF AddsLast(t) THEN {} ELSE named[t]
    BY <1>0, <2>1
  <2>3. HeldBy(t)'
    BY <1>0, <1>0a, <2>1, <2>2 DEF HeldBy, Ended
  <2>4. (IF AddsLast(t) THEN {} ELSE named[t]) \in SUBSET Host
    BY <1>0
  <2> QED BY <2>1, <2>3, <2>4 DEF Moves, Busy, Places, PInv, PassiveTypes
<1>9. CASE ForgeResolvers(t)
  <2>1. /\ place[t] \in Busy /\ place' = [place EXCEPT ![t] = "forging"]
        /\ UNCHANGED <<now, main, rows, owed, found, named, cut>> /\ (AddsLast(t) \/ found[t] = {})
    BY <1>9 DEF ForgeResolvers, Ready, Busy
  <2>2. CutIf(FALSE)
    BY <2>1 DEF CutIf
  <2> QED BY <2>1, <2>2, GoMoves
<1>10. CASE Retry(t)
  <2>1. /\ place[t] = "flying" /\ place' = place /\ CutIf(Late)
        /\ UNCHANGED <<now, main, found, rows, named, owed>>
    BY <1>10 DEF Retry
  <2>2. place' = [place EXCEPT ![t] = "flying"]
    BY <1>0, <2>1
  <2> QED BY <1>0, <2>1, <2>2, GoMoves DEF Busy, HeldBy
<1> QED BY <1>1, <1>2, <1>3, <1>4, <1>5, <1>6, <1>7, <1>8, <1>9, <1>10 DEF Step

LEMMA StepKeeps ==
  ASSUME PInv, NEW t \in Thread, Step(t) \/ Raise(t)
  PROVE  PInv'
<1> USE DEF PInv
<1>1. Moves(t)
  BY StepMoves
<1>2. PICK l \in Places \ {"idle"} : place' = [place EXCEPT ![t] = l]
  BY <1>1 DEF Moves
<1>3. PICK f \in SUBSET Host : found' = [found EXCEPT ![t] = f]
  BY <1>1 DEF Moves
<1>4. PICK n \in SUBSET Host : named' = [named EXCEPT ![t] = n]
  BY <1>1 DEF Moves
<1>5. \A u \in Thread \ {t} : place'[u] = place[u] /\ found'[u] = found[u] /\ named'[u] = named[u]
  BY <1>2, <1>3, <1>4 DEF PassiveTypes
<1>6. PassiveTypes'
  BY <1>1, <1>2, <1>3, <1>4 DEF PassiveTypes, Moves
<1>7. BudgetNoted' /\ Disclosed'
  <2>1. main.at \notin Between
    BY <1>1 DEF Resting, Moves, Busy
  <2> QED BY <1>1, <2>1 DEF BudgetNoted, Disclosed, Moves, Late, Between
<1>8. Resting'
  <2>1. place[t] # "idle"
    BY <1>1 DEF Moves, Busy
  <2>2. main' = main
    BY <1>1 DEF Moves
  <2> QED BY <1>5, <2>1, <2>2, Threads DEF Resting
<1>9. Held'
  <2>1. ASSUME NEW u \in Thread, u # t PROVE HeldBy(u)'
    <3>1. HeldBy(u) /\ rows \subseteq rows'
      BY <1>1 DEF Held, Moves
    <3>2. AddsLast(u)' = AddsLast(u)
      BY DEF AddsLast
    <3> QED BY <1>5, <2>1, <3>1, <3>2 DEF HeldBy, Ended
  <2>2. HeldBy(t)'
    BY <1>1 DEF Moves
  <2> QED BY <2>1, <2>2, Zenon DEF Held
<1> QED BY <1>6, <1>7, <1>8, <1>9

(***************************************************************************)
(* A step of the branch.                                                    *)
(***************************************************************************)

\* Between the parallel parts no thread runs, and what they had read is owed.
LEMMA GoneHeld ==
  ASSUME ThreadsGone
  PROVE  /\ place' \in [Thread -> Places] /\ found' \in [Thread -> SUBSET Host] /\ named' \in [Thread -> SUBSET Host]
         /\ \A t \in Thread : place'[t] = "idle" /\ found'[t] = {} /\ named'[t] = {}
         /\ Held'
<1>1. \A t \in Thread : place'[t] = "idle" /\ found'[t] = {} /\ named'[t] = {}
  BY DEF ThreadsGone
<1>2. place' \in [Thread -> Places] /\ found' \in [Thread -> SUBSET Host] /\ named' \in [Thread -> SUBSET Host]
  BY DEF ThreadsGone, Places
<1>3. Held'
  BY <1>1 DEF Held, HeldBy
<1> QED BY <1>1, <1>2, <1>3

\* The branch moves on; the threads and the candidates stay as they are.
LEMMA HeldStays ==
  ASSUME Held, UNCHANGED <<place, found, named, rows>>
  PROVE  Held'
<1>1. ASSUME NEW t \in Thread PROVE HeldBy(t)'
  <2>1. HeldBy(t)
    BY DEF Held
  <2> QED BY <2>1 DEF HeldBy, Ended, AddsLast
<1> QED BY <1>1, Zenon DEF Held

LEMMA SeedsPicked ==
  ASSUME NEW S \in SUBSET Host, NEW cap \in Nat,
         NEW seeds \in kSubset(Smaller(cap, Cardinality(S)), S)
  PROVE  seeds \in SUBSET Host /\ Cardinality(seeds) <= cap
<1>1. Cardinality(S) \in Nat
  BY PassiveAssumption, FS_Subset, FS_CardinalityType
<1> QED BY <1>1 DEF kSubset, Smaller

LEMMA BranchKeeps ==
  ASSUME PInv, BranchStep
  PROVE  PInv'
<1> USE DEF PInv
<1>0. DepthCap \in Nat /\ main.cap \in Nat
  <2>1. main.cap \in SeedsCaps
    BY DEF PassiveTypes
  <2> QED BY <2>1, PassiveAssumption
<1>1. CASE SweepEnds
  <2>1. /\ ThreadsGone /\ UNCHANGED <<now, rows>> /\ cut' = cut /\ main.at = "sweep"
        /\ owed' = owed \cup UNION {named[t] : t \in Thread}
    BY <1>1 DEF SweepEnds, ThreadsGone
  <2>2. main' = [main EXCEPT !.base = rows, !.seeds = rows \ {Target},
                             !.at = IF Late THEN "probe" ELSE "recurse",
                             !.partial = IF Late THEN Partial("budget") ELSE main.partial]
    BY <1>1 DEF SweepEnds
  <2>3. \A t \in Thread : named[t] \subseteq rows
    <3>1. ASSUME NEW t \in Thread PROVE named[t] \subseteq rows
      <4>1. HeldBy(t)
        BY DEF Held
      <4>2. CASE t \in Host
        BY <2>1, <4>1, <4>2 DEF Resting, HeldBy
      <4>3. CASE t \notin Host
        <5>1. Ended(t)
          BY <1>1, <4>3, Threads DEF SweepEnds
        <5> QED BY <4>1, <4>3, <5>1 DEF HeldBy
      <4> QED BY <4>2, <4>3
    <3> QED BY <3>1
  <2>4. PassiveTypes'
    BY <2>1, <2>2, GoneHeld DEF PassiveTypes, Stops, Partial
  <2>5. main'.at \in {"probe", "recurse"} /\ main.partial \subseteq main'.partial
    BY <2>2 DEF PassiveTypes, Partial
  <2>6. BudgetNoted'
    BY <2>1, <2>5 DEF BudgetNoted, Late
  <2>7. Resting'
    BY <2>1, <2>5, GoneHeld DEF Resting
  <2>8. Disclosed'
    BY <2>1, <2>3, <2>5 DEF Disclosed
  <2> QED BY <2>1, <2>4, <2>6, <2>7, <2>8, GoneHeld
<1>2. CASE Iterate
  <2>1. UNCHANGED <<now, found, rows, named, owed, cut>> /\ main.at = "recurse"
    BY <1>2 DEF Iterate
  <2>2. CASE main' = [main EXCEPT !.at = "probe"] /\ UNCHANGED place
    <3>1. PassiveTypes'
      BY <2>1, <2>2 DEF PassiveTypes, Stops
    <3>2. main'.at = "probe" /\ main'.partial = main.partial
      BY <2>2 DEF PassiveTypes
    <3> QED BY <2>1, <2>2, <3>1, <3>2, HeldStays DEF BudgetNoted, Resting, Disclosed, Late, Between
  <2>3. CASE main' = [main EXCEPT !.at = "probe", !.partial = Capped(main.seeds) \cup {"budget"}] /\ UNCHANGED place
    <3>1. Capped(main.seeds) \in SUBSET {"budget", "seeds_cap"} /\ main.partial \subseteq Capped(main.seeds)
      BY DEF Capped, Partial, PassiveTypes
    <3> HIDE DEF Capped
    <3>2. PassiveTypes'
      BY <2>1, <2>3, <3>1 DEF PassiveTypes, Stops
    <3>3. main'.at = "probe" /\ "budget" \in main'.partial
      BY <2>3 DEF PassiveTypes
    <3> QED BY <2>1, <2>3, <3>2, <3>3, HeldStays DEF BudgetNoted, Resting, Disclosed, Late, Between
  <2>4. CASE /\ main.depth < DepthCap
             /\ \E seeds \in kSubset(Smaller(main.cap, Cardinality(main.seeds)), main.seeds) :
                  /\ main' = [main EXCEPT !.at = "working", !.depth = main.depth + 1, !.seeds = seeds,
                                          !.partial = Capped(main.seeds)]
                  /\ place' = [t \in Thread |-> IF t \in seeds THEN "next" ELSE "idle"]
    <3>1. PICK seeds \in kSubset(Smaller(main.cap, Cardinality(main.seeds)), main.seeds) :
            /\ main' = [main EXCEPT !.at = "working", !.depth = main.depth + 1, !.seeds = seeds,
                                    !.partial = Capped(main.seeds)]
            /\ place' = [t \in Thread |-> IF t \in seeds THEN "next" ELSE "idle"]
      BY <2>4
    <3>2. seeds \in SUBSET Host /\ Cardinality(seeds) <= main.cap
      BY <1>0, SeedsPicked DEF PassiveTypes
    <3>3. main.depth + 1 \in 0 .. DepthCap
      BY <1>0, <2>4 DEF PassiveTypes
    <3>4. Capped(main.seeds) \in SUBSET {"budget", "seeds_cap"} /\ main.partial \subseteq Capped(main.seeds)
      BY DEF Capped, Partial, PassiveTypes
    <3>5. /\ main'.at = "working" /\ main'.partial = Capped(main.seeds) /\ main'.seeds = seeds
      BY <3>1 DEF PassiveTypes
    <3> HIDE DEF Capped
    <3>6. place' \in [Thread -> Places] /\ \A t \in Thread : place'[t] = IF t \in seeds THEN "next" ELSE "idle"
      BY <3>1 DEF Places
    <3>7. PassiveTypes'
      BY <2>1, <3>1, <3>2, <3>3, <3>4, <3>6 DEF PassiveTypes, Stops
    <3>8. BudgetNoted' /\ Disclosed'
      BY <2>1, <3>4, <3>5 DEF BudgetNoted, Disclosed, Late
    <3>9. Resting'
      BY <3>5, <3>6 DEF Resting, Between
    <3>10. Held'
      <4>1. ASSUME NEW t \in Thread PROVE HeldBy(t)'
        <5>1. place[t] = "idle" /\ HeldBy(t)
          BY <2>1 DEF Resting, Between, Held
        <5>2. t \notin Host => place'[t] = "idle"
          BY <3>2, <3>6
        <5>3. place'[t] \in {"idle", "next"}
          BY <3>6
        <5> QED BY <2>1, <5>1, <5>2, <5>3 DEF HeldBy, Ended, AddsLast
      <4> QED BY <4>1, Zenon DEF Held
    <3> QED BY <3>7, <3>8, <3>9, <3>10
  <2> QED BY <1>2, <2>2, <2>3, <2>4 DEF Iterate
<1>3. ASSUME NEW seed \in Host, Collect(seed) PROVE PInv'
  <2>1. /\ main.at = "working" /\ place[seed] \in {"done", "failed"}
        /\ UNCHANGED <<now, found, named, owed, cut>> /\ seed \in Thread
    BY <1>3, Threads DEF Collect
  <2>2. CASE Late
    <3>1. main' = [main EXCEPT !.at = "draining", !.partial = main.partial \cup {"budget"}] /\ UNCHANGED <<place, rows>>
      BY <1>3, <2>2 DEF Collect, Partial
    <3>2. main'.at = "draining" /\ "budget" \in main'.partial /\ main'.seeds = main.seeds
      BY <3>1 DEF PassiveTypes
    <3>3. PassiveTypes'
      BY <2>1, <3>1 DEF PassiveTypes, Stops
    <3> QED BY <2>1, <3>1, <3>2, <3>3, HeldStays DEF BudgetNoted, Resting, Disclosed, Late, Between
  <2>3. CASE ~Late
    <3>1. /\ main' = [main EXCEPT !.fresh = main.fresh \cup (found[seed] \ main.base)]
          /\ rows' = rows \cup found[seed] /\ place' = [place EXCEPT ![seed] = "idle"]
      BY <1>3, <2>3 DEF Collect
    <3>2. found[seed] \in SUBSET Host
      BY <2>1 DEF PassiveTypes
    <3>3. main'.at = main.at /\ main'.partial = main.partial /\ main'.seeds = main.seeds
      BY <3>1 DEF PassiveTypes
    <3>4. PassiveTypes'
      BY <2>1, <3>1, <3>2 DEF PassiveTypes, Places
    <3>5. BudgetNoted' /\ Disclosed'
      BY <2>1, <3>1, <3>3 DEF BudgetNoted, Disclosed, Late
    <3>6. \A t \in Thread : place'[t] = IF t = seed THEN "idle" ELSE place[t]
      BY <3>1 DEF PassiveTypes
    <3>7. Resting'
      BY <2>1, <3>3, <3>6 DEF Resting, Between
    <3>8. Held'
      <4>1. ASSUME NEW t \in Thread PROVE HeldBy(t)'
        <5>1. HeldBy(t) /\ rows \subseteq rows'
          BY <3>1 DEF Held
        <5>2. CASE t = seed
          BY <2>1, <3>1, <3>6, <5>1, <5>2 DEF HeldBy, Ended, AddsLast
        <5>3. CASE t # seed
          BY <2>1, <3>6, <5>1, <5>3 DEF HeldBy, Ended, AddsLast
        <5> QED BY <5>2, <5>3
      <4> QED BY <4>1, Zenon DEF Held
    <3> QED BY <3>4, <3>5, <3>7, <3>8
  <2> QED BY <2>2, <2>3
<1>4. CASE IterationEnds
  <2>1. /\ ThreadsGone /\ UNCHANGED <<now, rows>> /\ cut' = cut /\ main.at \in {"working", "draining"}
        /\ main' = [main EXCEPT !.at = "recurse", !.seeds = main.fresh, !.fresh = {}]
        /\ owed' = owed \cup UNION {named[t] : t \in Thread}
    BY <1>4 DEF IterationEnds, ThreadsGone
  <2>2. "budget" \notin main.partial => \A t \in Thread : named[t] \subseteq rows
    <3> SUFFICES ASSUME "budget" \notin main.partial, NEW t \in Thread PROVE named[t] \subseteq rows
      OBVIOUS
    <3>1. \A seed \in main.seeds : place[seed] = "idle"
      BY <1>4, <2>1 DEF IterationEnds, Disclosed
    <3>2. place[t] = "idle"
      BY <2>1, <3>1 DEF Resting
    <3>3. HeldBy(t)
      BY DEF Held
    <3> QED BY <3>2, <3>3 DEF HeldBy, Ended
  <2>3. main'.at = "recurse" /\ main'.partial = main.partial
    BY <2>1 DEF PassiveTypes
  <2>4. PassiveTypes'
    BY <2>1, GoneHeld DEF PassiveTypes, Stops
  <2>5. BudgetNoted'
    BY <2>1, <2>3 DEF BudgetNoted, Late
  <2>6. Resting'
    BY <2>1, <2>3, GoneHeld DEF Resting
  <2>7. Disclosed'
    BY <2>1, <2>2, <2>3 DEF Disclosed
  <2> QED BY <2>1, <2>4, <2>5, <2>6, <2>7, GoneHeld
<1>5. CASE Probe
  <2>1. UNCHANGED <<now, place, found, rows, named, owed, cut>> /\ main.at = "probe"
    BY <1>5 DEF Probe
  <2>2. main' = [main EXCEPT !.at = IF Late \/ rows = {} THEN "done" ELSE "listing",
                             !.partial = IF Late THEN main.partial \cup {"budget"} ELSE main.partial]
    BY <1>5 DEF Probe, Partial
  <2>3. /\ main'.at \in {"listing", "done"} /\ main.partial \subseteq main'.partial
        /\ Late => "budget" \in main'.partial
    BY <2>2 DEF PassiveTypes
  <2>4. PassiveTypes'
    BY <2>1, <2>2 DEF PassiveTypes, Stops
  <2> QED BY <2>1, <2>3, <2>4, HeldStays DEF BudgetNoted, Resting, Disclosed, Late, Between
<1>6. CASE ProbeCall \/ Probed
  <2>1. /\ UNCHANGED <<now, place, found, rows, named, owed>> /\ main.at \in {"listing", "probing"}
        /\ cut' = cut \/ (Late /\ cut' = cut \cup {"probe"})
        /\ \E at \in {"probing", "done"} : main' = [main EXCEPT !.at = at]
    BY <1>6 DEF ProbeCall, Probed
  <2>2. main'.at \in {"probing", "done"} /\ main'.partial = main.partial
    BY <2>1 DEF PassiveTypes
  <2>3. PassiveTypes'
    BY <2>1 DEF PassiveTypes, Stops
  <2>4. BudgetNoted'
    BY <2>1, <2>2 DEF BudgetNoted, Late
  <2> QED BY <2>1, <2>2, <2>3, <2>4, HeldStays DEF Resting, Disclosed, Between
<1> QED BY <1>1, <1>2, <1>3, <1>4, <1>5, <1>6 DEF BranchStep

LEMMA TickKeeps ==
  ASSUME PInv, Tick
  PROVE  PInv'
<1> USE DEF PInv
<1>1. now \in Nat /\ Deadline \in Nat /\ now' = now + 1 /\ now < Deadline /\ ~Late
  BY PassiveAssumption DEF PassiveTypes, Tick, Late
<1>2. UNCHANGED <<main, place, found, rows, named, owed, cut>>
  BY DEF Tick
<1>3. cut' = {}
  BY <1>1, <1>2 DEF BudgetNoted
<1>4. PassiveTypes'
  BY <1>1, <1>2 DEF PassiveTypes
<1> QED BY <1>2, <1>3, <1>4, HeldStays DEF BudgetNoted, Resting, Disclosed

LEMMA InitKeeps == PassiveInit => PInv
<1> SUFFICES ASSUME PassiveInit PROVE PInv
  OBVIOUS
<1>1. PICK cap \in SeedsCaps : main = [at |-> "sweep", cap |-> cap, depth |-> 0, seeds |-> {}, base |-> {}, fresh |-> {}, partial |-> {}]
  BY DEF PassiveInit
<1>2. PICK live \in SUBSET Source :
        place = [t \in Thread |-> CASE t \in live \/ (t \in Agent /\ "psv3" \in live) -> "next"
                                 [] t \in Source \ live -> "failed"
                                 [] OTHER -> "idle"]
  BY DEF PassiveInit
<1>3. /\ now = 1 /\ rows = {} /\ found = [t \in Thread |-> {}] /\ named = [t \in Thread |-> {}]
      /\ owed = {} /\ cut = {}
  BY DEF PassiveInit
<1>4. place \in [Thread -> Places] /\ \A t \in Host : place[t] = "idle"
  BY <1>2, Threads DEF Places
<1>5. PassiveTypes
  <2>1. /\ main.at = "sweep" /\ main.cap = cap /\ main.depth = 0 /\ main.seeds = {}
        /\ main.base = {} /\ main.fresh = {} /\ main.partial = {}
    BY <1>1
  <2>2. 0 \in 0 .. DepthCap /\ 1 \in 1 .. Deadline
    BY PassiveAssumption
  <2>3. main \in [at: Stops,
               cap: SeedsCaps, depth: 0 .. DepthCap, seeds: SUBSET Host, base: SUBSET Host,
               fresh: SUBSET Host, partial: SUBSET {"budget", "seeds_cap"}]
    BY <1>1, <2>2 DEF Stops
  <2>4. found \in [Thread -> SUBSET Host] /\ named \in [Thread -> SUBSET Host]
    BY <1>3
  <2> QED BY <1>3, <1>4, <2>1, <2>2, <2>3, <2>4 DEF PassiveTypes
<1>6. Resting
  BY <1>1, <1>4 DEF Resting, Between
<1>7. Held
  BY <1>3 DEF Held, HeldBy
<1> QED BY <1>1, <1>3, <1>5, <1>6, <1>7 DEF PInv, BudgetNoted, Disclosed

(***************************************************************************)
(* The engines of the forge keep their form.                                 *)
(***************************************************************************)
Fields == {"status", "until", "level", "events", "last"}
IsEngine(e) == e = [x \in Fields |-> e[x]] /\ e.status \in Statuses
Forge == pool = [e \in Engine |-> pool[e]] /\ \A e \in Engine : IsEngine(pool[e])

LEMMA FreshEngine == IsEngine(Fresh)
BY DEF IsEngine, Fresh, Fields, Statuses

LEMMA WokenEngine == ASSUME NEW e, IsEngine(e), NEW t PROVE IsEngine(Woken(e, t))
BY DEF IsEngine, Woken, Fields, Statuses

LEMMA SentEngine == ASSUME NEW e, IsEngine(e), NEW t PROVE IsEngine([e EXCEPT !.last = t])
BY DEF IsEngine, Fields, Statuses

LEMMA RecordedEngine ==
  ASSUME NEW e, IsEngine(e), NEW t, NEW answer
  PROVE  IsEngine(Recorded(e, t, answer))
<1> DEFINE ok == answer = "ok"
           kept == [e EXCEPT !.events = Recent(e, t, ok)]
           rested == IF answer = "blocked" THEN Blocked(kept, t) ELSE kept
           out == [rested EXCEPT !.status = "isolated"]
<1>1. IsEngine(kept)
  BY DEF IsEngine, Fields, Statuses
<1> HIDE DEF kept
<1>2. IsEngine(rested)
  <2>1. IsEngine(Blocked(kept, t))
    BY <1>1 DEF IsEngine, Blocked, Fields, Statuses
  <2> QED BY <1>1, <2>1
<1> HIDE DEF rested
<1>3. IsEngine(out)
  BY <1>2 DEF IsEngine, Fields, Statuses
<1>4. Recorded(e, t, answer) = out \/ Recorded(e, t, answer) = rested
  BY DEF Recorded, kept, rested
<1> HIDE DEF out
<1> QED BY <1>2, <1>3, <1>4

LEMMA ForgeStep ==
  ASSUME Forge, PassiveNext
  PROVE  Forge'
<1>1. CASE UNCHANGED pool
  BY <1>1 DEF Forge
<1>2. ASSUME NEW t \in Thread, Choose(t) PROVE Forge'
  <2>1. pool' = pool \/ pool' = WokenAll(pool, now)
    BY <1>2 DEF Choose
  <2>2. CASE pool' = WokenAll(pool, now)
    <3>1. pool' = [e \in Engine |-> Woken(pool[e], now)]
      BY <2>2 DEF WokenAll
    <3>2. \A e \in Engine : IsEngine(Woken(pool[e], now))
      BY WokenEngine DEF Forge
    <3> QED BY <3>1, <3>2 DEF Forge
  <2> QED BY <1>1, <2>1, <2>2
<1>3. ASSUME NEW t \in Thread, Send(t) \/ EngineAnswers(t) PROVE Forge'
  <2>1. PICK e, r : pool' = [pool EXCEPT ![e] = r] /\ (e \in Engine => IsEngine(r))
    <3>1. CASE Send(t)
      <4>1. pool' = [pool EXCEPT ![call[t].engine] = [pool[call[t].engine] EXCEPT !.last = now]]
        BY <3>1 DEF Send
      <4> QED BY <4>1, SentEngine DEF Forge
    <3>2. CASE EngineAnswers(t)
      <4>1. PICK how : pool' = [pool EXCEPT ![call[t].engine] = Recorded(pool[call[t].engine], now, how)]
        BY <3>2 DEF EngineAnswers
      <4> QED BY <4>1, RecordedEngine DEF Forge
    <3> QED BY <1>3, <3>1, <3>2
  <2>2. \A x \in Engine : pool'[x] = IF x = e THEN r ELSE pool[x]
    BY <2>1 DEF Forge
  <2>3. pool' = [x \in Engine |-> pool'[x]]
    BY <2>1 DEF Forge
  <2> QED BY <2>1, <2>2, <2>3 DEF Forge
<1>4. \/ UNCHANGED pool
      \/ \E t \in Thread : Choose(t) \/ Send(t) \/ EngineAnswers(t)
  BY DEF PassiveNext, Tick, BranchStep, SweepEnds, Iterate, Collect, IterationEnds, Probe, ProbeCall, Probed,
         Step, Raise, ForgeResolvers, Ask, Retry, Replies, Add, Finish
<1> QED BY <1>1, <1>2, <1>3, <1>4

(***************************************************************************)
(* No call starts more containers than its tool's attempts.                  *)
(***************************************************************************)
Parts == {"engine", "due", "tries"}
IsCall(c, t) == c = [x \in Parts |-> c[x]] /\ c.tries \in 0 .. Tries(t)
Calls == call = [t \in Thread |-> call[t]] /\ \A t \in Thread : IsCall(call[t], t)

LEMMA TriesNat == ASSUME NEW t PROVE Tries(t) \in Nat \ {0} /\ Tries(t)' = Tries(t)
BY PassiveAssumption DEF Tries

LEMMA NoneCalled == ASSUME NEW t PROVE IsCall(NoCall, t)
BY TriesNat DEF IsCall, NoCall, Parts

LEMMA CallStep ==
  ASSUME Calls, PassiveNext
  PROVE  Calls'
<1>1. \/ UNCHANGED call
      \/ \E t \in Thread : \E c : call' = [call EXCEPT ![t] = c] /\ IsCall(c, t)
  <2>1. CASE Tick \/ BranchStep
    BY <2>1 DEF Tick, BranchStep, SweepEnds, Iterate, Collect, IterationEnds, Probe, ProbeCall, Probed
  <2>2. ASSUME NEW t \in Thread, Step(t) \/ Raise(t)
        PROVE  UNCHANGED call \/ \E c : call' = [call EXCEPT ![t] = c] /\ IsCall(c, t)
    <3>0. IsCall(call[t], t) /\ Tries(t) \in Nat \ {0}
      BY TriesNat DEF Calls
    <3>1. CASE UNCHANGED call \/ call' = [call EXCEPT ![t] = NoCall]
      BY <3>1, NoneCalled
    <3>2. CASE StartCall(t)
      <4>1. call' = [call EXCEPT ![t] = [call[t] EXCEPT !.tries = 1]]
        BY <3>2 DEF StartCall
      <4>2. IsCall([call[t] EXCEPT !.tries = 1], t)
        BY <3>0 DEF IsCall, Parts
      <4> QED BY <4>1, <4>2
    <3>3. CASE Retry(t)
      <4>1. call' = [call EXCEPT ![t] = [call[t] EXCEPT !.tries = call[t].tries + 1]] /\ call[t].tries < Tries(t)
        BY <3>3 DEF Retry
      <4>2. IsCall([call[t] EXCEPT !.tries = call[t].tries + 1], t)
        BY <3>0, <4>1 DEF IsCall, Parts
      <4> QED BY <4>1, <4>2
    <3>4. CASE \E e, d : call' = [call EXCEPT ![t] = [engine |-> e, due |-> d, tries |-> 0]]
      <4>1. PICK e, d : call' = [call EXCEPT ![t] = [engine |-> e, due |-> d, tries |-> 0]]
        BY <3>4
      <4>2. IsCall([engine |-> e, due |-> d, tries |-> 0], t)
        BY <3>0 DEF IsCall, Parts
      <4> QED BY <4>1, <4>2
    <3>5. CASE Choose(t)
      <4>1. UNCHANGED call \/ \E e, d : call' = [call EXCEPT ![t] = [engine |-> e, due |-> d, tries |-> 0]]
        BY <3>5 DEF Choose
      <4> QED BY <3>1, <3>4, <4>1
    <3>6. CASE Step(t) /\ ~Choose(t)
      <4>1. UNCHANGED call \/ call' = [call EXCEPT ![t] = NoCall] \/ StartCall(t) \/ Retry(t)
        BY <3>6 DEF Step, ForgeResolvers, Ask, Replies, Send, EngineAnswers, Add, Finish
      <4> QED BY <3>1, <3>2, <3>3, <4>1
    <3>7. CASE Raise(t)
      BY <3>1, <3>7 DEF Raise
    <3> QED BY <2>2, <3>5, <3>6, <3>7
  <2> QED BY <2>1, <2>2 DEF PassiveNext
<1>2. CASE UNCHANGED call
  BY <1>2, TriesNat DEF Calls, IsCall
<1>3. ASSUME NEW t \in Thread, NEW c, call' = [call EXCEPT ![t] = c], IsCall(c, t) PROVE Calls'
  <2>1. \A u \in Thread : call'[u] = IF u = t THEN c ELSE call[u]
    BY <1>3 DEF Calls
  <2>2. call' = [u \in Thread |-> call'[u]]
    BY <1>3 DEF Calls
  <2> QED BY <1>3, <2>1, <2>2, TriesNat DEF Calls, IsCall
<1> QED BY <1>1, <1>2, <1>3

\* Where the branch is, who may run, who holds what and who has looked at the
\* clock: the inductive invariant of the passive branch.
THEOREM PassiveInvariant == PassiveSpec => []PInv
<1>1. PInv /\ [PassiveNext]_passiveVars => PInv'
  <2> SUFFICES ASSUME PInv, [PassiveNext]_passiveVars PROVE PInv'
    OBVIOUS
  <2>1. CASE \E t \in Thread : Step(t) \/ Raise(t)
    BY <2>1, StepKeeps
  <2>2. CASE UNCHANGED passiveVars
    <3>1. UNCHANGED <<now, main, place, found, rows, named, owed, cut>>
      BY <2>2 DEF passiveVars
    <3> QED BY <3>1, HeldStays DEF PInv, PassiveTypes, BudgetNoted, Resting, Disclosed, Late
  <2> QED BY <2>1, <2>2, BranchKeeps, TickKeeps DEF PassiveNext
<1> QED BY <1>1, InitKeeps, PTL DEF PassiveSpec

\* PassiveTypes: no clock past the deadline, no candidate or seed out of scope, no
\* recursion deeper than its cap, no more seeds than theirs, no call with more
\* containers than its tool's attempts, and every engine rests, works or is isolated.
THEOREM PassiveTypeCorrect == PassiveSpec => []PassiveTypeOK
<1>1. PassiveInit => Forge /\ Calls
  <2> SUFFICES ASSUME PassiveInit PROVE Forge /\ Calls
    OBVIOUS
  <2>1. pool = [e \in Engine |-> Fresh] /\ call = [t \in Thread |-> NoCall]
    BY DEF PassiveInit
  <2> QED BY <2>1, FreshEngine, NoneCalled DEF Forge, Calls
<1>2. Forge /\ Calls /\ [PassiveNext]_passiveVars => Forge' /\ Calls'
  <2>1. Forge /\ UNCHANGED passiveVars => Forge'
    BY DEF Forge, passiveVars
  <2>2. Calls /\ UNCHANGED passiveVars => Calls'
    BY TriesNat DEF Calls, IsCall, passiveVars
  <2> QED BY <2>1, <2>2, ForgeStep, CallStep
<1>3. Forge /\ Calls /\ PInv => PassiveTypeOK
  <2> SUFFICES ASSUME Forge, Calls, PInv PROVE PassiveTypeOK
    OBVIOUS
  <2>1. \A t \in Thread : found[t] \subseteq named[t] /\ place[t] \in Places
    BY DEF PInv, PassiveTypes, Held, HeldBy
  <2>2. \A e \in Engine : pool[e].status \in Statuses
    BY DEF Forge, IsEngine
  <2>3. main.depth \in 0 .. DepthCap /\ main.partial \subseteq {"budget", "seeds_cap"} /\ main.at \in Stops
    BY DEF PInv, PassiveTypes
  <2>4. \A t \in Thread : call[t].tries \in 0 .. Tries(t)
    BY DEF Calls, IsCall
  <2> QED BY <2>1, <2>2, <2>3, <2>4 DEF Stops, PInv, PassiveTypes, PassiveTypeOK, Places, Statuses
<1> QED BY <1>1, <1>2, <1>3, PassiveInvariant, PTL DEF PassiveSpec

\* A result is marked partial when the budget skipped or killed a call of the sources
\* or of the recursion: these only log it, but the clock is looked at again before the
\* probe. The probe's own call leaves no mark, and is not in the statement.
THEOREM BudgetIsDisclosed == PassiveSpec => []BudgetDisclosed
<1>1. PInv => BudgetDisclosed
  BY DEF PInv, BudgetNoted, BudgetDisclosed
<1> QED BY <1>1, PassiveInvariant, PTL

\* A result without a mark lost no host a thread that did not fail had read,
\* for any number of sources, agents, seeds and iterations.
THEOREM NothingIsDropped == PassiveSpec => []NothingDropped
<1>1. PInv => NothingDropped
  BY DEF PInv, Disclosed, NothingDropped
<1> QED BY <1>1, PassiveInvariant, PTL

\* After the deadline no call of any tool begins, by whichever thread, however long it
\* waited for its engine or for resolvers, nor does the probe's.
THEOREM NoCallIsLate == PassiveSpec => NoLateCall
<1>1. PInv /\ [PassiveNext]_passiveVars =>
        [Late => Calling' \subseteq Calling /\ (main'.at = "probing" => main.at = "probing")]_passiveVars
  <2> SUFFICES ASSUME PInv, PassiveNext, Late
               PROVE  Calling' \subseteq Calling /\ (main'.at = "probing" => main.at = "probing")
    OBVIOUS
  <2>0. place \in [Thread -> Places] /\ main = [main EXCEPT !.at = main.at]
    BY DEF PInv, PassiveTypes
  <2>1. CASE Tick
    BY <2>1 DEF Tick
  <2>2. CASE BranchStep
    <3>1. place' = place \/ ThreadsGone \/ (\E seed \in Host : place' = [place EXCEPT ![seed] = "idle"])
          \/ \E seeds : place' = [u \in Thread |-> IF u \in seeds THEN "next" ELSE "idle"]
      BY <2>2 DEF BranchStep, SweepEnds, Iterate, Collect, IterationEnds, Probe, ProbeCall, Probed
    <3>2. \A t \in Thread : place'[t] = "flying" => place[t] = "flying"
      BY <2>0, <3>1 DEF ThreadsGone
    <3>3. main'.at = "probing" => main.at = "probing"
      <4>1. \A seed \in Host : Collect(seed) => main'.at = "draining"
        BY DEF PInv, PassiveTypes, Collect
      <4>2. SweepEnds \/ Iterate \/ IterationEnds => main'.at \in {"probe", "recurse", "working"}
        BY DEF PInv, PassiveTypes, SweepEnds, Iterate, IterationEnds
      <4>3. Probe \/ ProbeCall \/ Probed => main'.at = "done"
        BY DEF PInv, PassiveTypes, Probe, ProbeCall, Probed
      <4> QED BY <2>2, <4>1, <4>2, <4>3 DEF BranchStep
    <3> QED BY <3>2, <3>3 DEF Calling
  <2>3. CASE \E u \in Thread : Step(u) \/ Raise(u)
    <3>1. PICK u \in Thread : Step(u) \/ Raise(u)
      BY <2>3
    <3>2. main' = main
      BY <3>1, StepMoves DEF Moves
    <3>3. place' = place \/ \E l \in Places \ {"flying"} : place' = [place EXCEPT ![u] = l]
      <4> DEFINE To(l) == place' = [place EXCEPT ![u] = l]
      <4>1. CASE Ask(u) \/ Send(u)
        BY <4>1 DEF Ask, Send, Hear, Places
      <4>2. CASE Replies(u)
        BY <4>2 DEF Replies, Hear, Places
      <4>3. CASE Choose(u)
        <5>1. To("next") \/ To("pacing")
          BY <4>3 DEF Choose, Hear
        <5> QED BY <5>1 DEF Places
      <4>4. CASE EngineAnswers(u)
        <5>1. To("next") \/ To("again")
          BY <4>4 DEF EngineAnswers, Hear
        <5> QED BY <5>1 DEF Places
      <4>5. CASE Add(u) \/ Retry(u)
        BY <4>5 DEF Add, Retry
      <4>6. CASE Finish(u) \/ Raise(u) \/ ForgeResolvers(u)
        <5>1. To("done") \/ To("failed") \/ To("forging")
          BY <4>6 DEF Finish, Raise, ForgeResolvers
        <5> QED BY <5>1 DEF Places
      <4> QED BY <3>1, <4>1, <4>2, <4>3, <4>4, <4>5, <4>6 DEF Step
    <3>4. \A t \in Thread : place'[t] = "flying" => place[t] = "flying"
      BY <2>0, <3>3
    <3> QED BY <3>2, <3>4 DEF Calling
  <2> QED BY <2>1, <2>2, <2>3 DEF PassiveNext
<1> QED BY <1>1, PassiveInvariant, PTL DEF PassiveSpec, NoLateCall

(***************************************************************************)
(* The active branch: what holds of Discovery for any names, zones, words,  *)
(* depths, rates and number of runs, stops and deaths.                      *)
(***************************************************************************)
JobState == {"waiting", "running", "ended", "paused"}
Job == [chunk : Nat \ {0}, state : JobState]
Dns == {"apex", "level", "brute", "perm", "permute", "resolve", "write"}
Quiet == {"idle", "dns", "raised", "written", "vhosts", "expand", "expanded", "unexpanded"}

\* The names whose children are names.
Narrow == {n \in Name : Len(n) < ReconDepth}

DnsTypes ==
  /\ zone \in Zones /\ files \in [Path -> File] /\ run \in Nat
  /\ pc \in Dns \cup Quiet \cup {"expanding"}
  /\ known \subseteq Name
  /\ resolved \in [DOMAIN resolved -> Row] /\ DOMAIN resolved \subseteq Name
  /\ wild \subseteq IP /\ suspects \subseteq Name /\ nested \subseteq Name
  /\ level \in 1..(ReconDepth + 1)
  /\ jobs \in [DOMAIN jobs -> Job] /\ DOMAIN jobs \subseteq Narrow
  /\ lb \in Balance
  /\ stop \in BOOLEAN /\ failed \in BOOLEAN

DocTypes ==
  /\ doc = [rows |-> doc.rows, wild |-> doc.wild, suspects |-> doc.suspects, nested |-> doc.nested,
            caught |-> doc.caught, whole |-> doc.whole, run |-> doc.run]
  /\ doc.rows \in [DOMAIN doc.rows -> Row] /\ DOMAIN doc.rows \subseteq Name
  /\ doc.wild \subseteq IP /\ doc.suspects \subseteq Name /\ doc.nested \subseteq Name
  /\ doc.whole \in BOOLEAN
  /\ doc.caught \subseteq doc.wild

EngineTypes ==
  /\ stage \in Stages /\ docs \subseteq Branch /\ passive \subseteq Name
  /\ ffuf.hosts \subseteq Name /\ HostsIn(ffuf.vhosts) \subseteq Name
  /\ HostsIn(hits) \subseteq Name /\ HostsIn(ffuf3) \subseteq Name
  /\ HostsIn(list.assets) \subseteq Name

\* What is true at each place of the branch.
Placed ==
  /\ stage \in {"idle", "down", "ffuf-3", "merge"} => pc = "idle"
  /\ pc \notin {"brute", "expanding"} => jobs = <<>>
  /\ pc = "apex" => level = 1 /\ nested = {}
  /\ pc = "brute" => level <= ReconDepth /\ (level = 1 => DOMAIN jobs = {Apex})
  /\ pc \in {"perm", "permute", "resolve", "write"} /\ partial = {} => level >= 2
  /\ pc = "expanding" => nested = doc.nested /\ doc.caught \subseteq wild
  /\ \A p \in DOMAIN jobs : jobs[p].state = "ended" => jobs[p].chunk > Len(Chunks)

\* The jobs at work are no more than the pool, whose rates add up to no more than
\* the rate the batch began with.
Shared ==
  /\ batch.live \in 1..QpsMax /\ batch.qps \in Nat \ {0} /\ batch.pool \in Nat \ {0}
  /\ batch.pool * batch.qps <= batch.live
  /\ Cardinality(Running) <= batch.pool

\* What zone z answers of a name.
AnswerIn(z, n) ==
  IF z.real[n] # {} THEN z.real[n] ELSE IF n = Apex THEN {} ELSE z.wild[Front(n)]

\* A row says what the zone answers, or that nothing was heard.
Truthful(z, store) == \A h \in DOMAIN store : store[h].ips \in {{}, AnswerIn(z, h)}

\* A marked file of the brute force holds all the tool can answer, whichever run wrote it.
Asks(p, i) == {Child(p, l) : l \in Chunks[i]}
MarkedWhole ==
  \A p \in Name, i \in DOMAIN Chunks :
    files[<<"brute", p, i>>].done =>
      files[<<"brute", p, i>>].rows = {n \in Asks(p, i) : AnswerIn(zone, n) # {}}
Honest == MarkedWhole /\ Truthful(zone, resolved) /\ Truthful(zone, doc.rows)

\* The words of a chunk below p that answer with a real address are in the store.
Holds(z, n, store, w) ==
  n \in InScope /\ AnswerIn(z, n) # {} /\ ~WildcardOnly(AnswerIn(z, n), w) =>
    n \in DOMAIN store /\ store[n].ips = AnswerIn(z, n)
Covers(z, p, i, store, w) == \A l \in Chunks[i] : Holds(z, Child(p, l), store, w)
CoversAll(z, p, store, w) == \A i \in DOMAIN Chunks : Covers(z, p, i, store, w)
CoversParents(z, parents, store, w) == \A p \in parents : CoversAll(z, p, store, w)

DocCovered == doc.whole => CoversParents(zone, doc.nested \cup {Apex}, doc.rows, doc.wild)
OldCovered ==
  pc = "expanding" /\ doc.whole => CoversParents(zone, doc.nested \cup {Apex}, resolved, wild)

\* While nothing failed or was paused: the parents left, and of those in the batch
\* the chunks behind.
Finished == (nested \cup IF level >= 2 THEN {Apex} ELSE {}) \ DOMAIN jobs
NamesCovered ==
  pc \in Dns /\ partial = {} /\ ~failed => CoversParents(zone, Finished, resolved, wild)
JobsCovered ==
  pc \in {"brute", "expanding"} /\ ~failed =>
    \A p \in DOMAIN jobs, i \in DOMAIN Chunks :
      i < jobs[p].chunk => Covers(zone, p, i, resolved, wild)
Covered == DocCovered /\ OldCovered /\ NamesCovered /\ JobsCovered

DInv == DnsTypes /\ DocTypes /\ EngineTypes /\ Placed /\ Shared /\ Honest /\ Covered

(***************************************************************************)
(* Names.                                                                   *)
(***************************************************************************)
LEMMA FiniteStrings == ASSUME NEW n \in Nat PROVE IsFiniteSet([1..n -> Label])
<1> DEFINE S == {m \in Nat : ~IsFiniteSet([1..m -> Label])}
<1>1. SUFFICES ASSUME S # {} PROVE FALSE
  OBVIOUS
<1>2. PICK k \in S : \A m \in S : ~(<<m, k>> \in OpToRel(<, Nat))
  BY <1>1, NatLessThanWellFounded, WFMin
<1>3. \A m \in Nat : m < k => m \notin S
  BY <1>2 DEF OpToRel
<1>4. CASE k = 0
  <2>1. \A f, g \in [1..0 -> Label] : f = g
    OBVIOUS
  <2>2. [1..0 -> Label] \subseteq {<<>>}
    BY <2>1
  <2> QED BY <1>4, <2>2, FS_Singleton, FS_Subset
<1>5. CASE k # 0
  <2> DEFINE A == [1..(k - 1) -> Label]
             F == [x \in A \X Label |-> [i \in 1..k |-> IF i = k THEN x[2] ELSE x[1][i]]]
  <2>1. k - 1 \in Nat /\ k - 1 < k
    BY <1>5
  <2>2. IsFiniteSet(A)
    BY <1>3, <2>1
  <2>3. IsFiniteSet(A \X Label)
    BY <2>2, HostsAssumption, FS_Product
  <2>4. F \in [A \X Label -> [1..k -> Label]]
    <3> SUFFICES ASSUME NEW x \in A \X Label, NEW i \in 1..k PROVE (IF i = k THEN x[2] ELSE x[1][i]) \in Label
      OBVIOUS
    <3>1. x[1] \in A /\ x[2] \in Label
      OBVIOUS
    <3>2. i # k => i \in 1..(k - 1)
      OBVIOUS
    <3> QED BY <3>1, <3>2
  <2>5. ASSUME NEW g \in [1..k -> Label] PROVE \E x \in A \X Label : F[x] = g
    <3> DEFINE a == [i \in 1..(k - 1) |-> g[i]]
    <3>1. a \in A /\ g[k] \in Label
      BY <1>5
    <3>2. <<a, g[k]>> \in A \X Label
      BY <3>1
    <3>3. F[<<a, g[k]>>] = [i \in 1..k |-> IF i = k THEN g[k] ELSE a[i]]
      <4> DEFINE x == <<a, g[k]>>
      <4>1. x[1] = a /\ x[2] = g[k]
        OBVIOUS
      <4>2. x \in A \X Label
        BY <3>2
      <4> HIDE DEF x, a, A
      <4> QED BY <4>1, <4>2
    <3>4. \A i \in 1..k : (IF i = k THEN g[k] ELSE a[i]) = g[i]
      BY <2>1
    <3>5. F[<<a, g[k]>>] = g
      BY <3>3, <3>4
    <3> QED BY <3>2, <3>5
  <2> HIDE DEF F, A
  <2>6. F \in Surjection(A \X Label, [1..k -> Label])
    BY <2>4, <2>5 DEF Surjection
  <2>7. IsFiniteSet([1..k -> Label])
    BY <2>3, <2>6, FS_Surjection
  <2> QED BY <2>7
<1> QED BY <1>4, <1>5

LEMMA FiniteName == IsFiniteSet(Name)
<1> DEFINE Of == [n \in 0..MaxLen |-> [1..n -> Label]]
           Lengths == {[1..n -> Label] : n \in 0..MaxLen}
<1>1. IsFiniteSet(0..MaxLen)
  BY HostsAssumption, FS_Interval
<1>2. Of \in Surjection(0..MaxLen, Lengths)
  BY DEF Surjection
<1>3. IsFiniteSet(Lengths)
  BY <1>1, <1>2, FS_Surjection
<1>4. \A T \in Lengths : IsFiniteSet(T)
  BY FiniteStrings, HostsAssumption
<1> QED BY <1>3, <1>4, FS_UNION DEF Name

LEMMA ApexName == Apex \in Name /\ Apex \in Narrow
<1>1. <<>> \in [1..0 -> Label] /\ 0 \in 0..MaxLen /\ Len(<<>>) = 0
  BY HostsAssumption
<1> QED BY <1>1, HostsAssumption DEF Apex, Name, Narrow

LEMMA NameSeq == ASSUME NEW n \in Name PROVE n \in Seq(Label) /\ Len(n) \in 0..MaxLen
<1>1. PICK k \in 0..MaxLen : n \in [1..k -> Label]
  BY DEF Name
<1>2. k \in Nat
  BY HostsAssumption
<1>3. n \in Seq(Label)
  BY <1>1, <1>2
<1> QED BY <1>1, <1>2, <1>3

LEMMA SeqName == ASSUME NEW n \in Seq(Label), Len(n) <= MaxLen PROVE n \in Name
<1>1. n \in [1..Len(n) -> Label] /\ Len(n) \in 0..MaxLen
  BY HostsAssumption
<1> QED BY <1>1 DEF Name

LEMMA ChildName == ASSUME NEW p \in Narrow, NEW l \in Label PROVE Child(p, l) \in Name
<1>1. p \in Seq(Label) /\ Len(p) < ReconDepth /\ Len(p) \in Nat
  BY NameSeq DEF Narrow
<1>2. Append(p, l) \in Seq(Label) /\ Len(Append(p, l)) = Len(p) + 1
  BY <1>1
<1>3. Len(Append(p, l)) <= MaxLen
  BY <1>1, <1>2, HostsAssumption
<1> QED BY <1>2, <1>3, SeqName DEF Child

LEMMA FrontName == ASSUME NEW n \in Name, n # Apex PROVE Front(n) \in Name
<1>1. n \in Seq(Label) /\ Len(n) \in 0..MaxLen /\ Len(n) # 0
  BY NameSeq DEF Apex
<1>2. Len(n) \in Nat \ {0} /\ Len(n) <= MaxLen
  BY <1>1, HostsAssumption
<1>3. Front(n) = [i \in 1..(Len(n) - 1) |-> n[i]]
  BY <1>1, <1>2 DEF Front
<1>4. \A i \in 1..(Len(n) - 1) : n[i] \in Label
  BY <1>1, <1>2
<1>5. Front(n) \in [1..(Len(n) - 1) -> Label] /\ Len(n) - 1 \in 0..MaxLen
  BY <1>2, <1>3, <1>4, HostsAssumption
<1> QED BY <1>5 DEF Name

LEMMA AnswerTyped == ASSUME NEW z \in Zones, NEW n \in Name PROVE AnswerIn(z, n) \in SUBSET IP
<1>1. z.real \in [Name -> SUBSET IP] /\ z.wild \in [Name -> SUBSET IP]
  BY DnsAssumption
<1> QED BY <1>1, FrontName DEF AnswerIn

LEMMA AnswerIs == \A n : Answer(n) = AnswerIn(zone, n)
BY DEF Answer, AnswerIn

(***************************************************************************)
(* Rates.                                                                   *)
(***************************************************************************)
LEMMA BalanceNats ==
  /\ QpsStart \in Nat \ {0} /\ QpsMax \in Nat \ {0} /\ QpsDivisor \in Nat \ {0}
  /\ QpsStep \in Nat /\ QpsBad \in Nat
BY BalanceAssumption

LEMMA DivLess ==
  ASSUME NEW a \in Nat, NEW b \in Nat \ {0}
  PROVE  a \div b \in Nat /\ b * (a \div b) <= a /\ a \div b <= a
OBVIOUS

LEMMA NewBalanceTyped == NewBalance \in Balance
BY BalanceNats DEF NewBalance, Balance, AtMostMax

LEMMA AnsweredTyped == ASSUME NEW b \in Balance, NEW ok \in BOOLEAN PROVE Answered(b, ok) \in Balance
<1>1. b.qps \in 1..QpsMax /\ b.bad \in 0..QpsBad /\ b.paused \in BOOLEAN
  BY DEF Balance
<1>2. b.qps \div QpsDivisor \in Nat /\ b.qps \div QpsDivisor <= b.qps
  BY <1>1, BalanceNats, DivLess
<1>3. AtLeast1(b.qps \div QpsDivisor) \in 1..QpsMax
  BY <1>1, <1>2, BalanceNats DEF AtLeast1
<1> DEFINE bad == IF b.bad = QpsBad THEN QpsBad ELSE b.bad + 1
<1>4. bad \in 0..QpsBad
  BY <1>1, BalanceNats
<1>5. (b.paused \/ bad = QpsBad) \in BOOLEAN
  BY Zenon
<1>6. CASE ok
  <2>1. Answered(b, ok) = [b EXCEPT !.bad = 0, !.asked = TRUE]
    BY <1>6 DEF Answered
  <2>2. 0 \in 0..QpsBad
    BY BalanceNats
  <2> QED BY <2>1, <2>2 DEF Balance
<1>7. CASE ~ok
  <2>1. Answered(b, ok) = [b EXCEPT !.qps = AtLeast1(b.qps \div QpsDivisor), !.bad = bad, !.asked = TRUE,
                                    !.paused = (b.paused \/ bad = QpsBad)]
    BY <1>7 DEF Answered
  <2> HIDE DEF bad
  <2> QED BY <1>3, <1>4, <1>5, <2>1 DEF Balance
<1> QED BY <1>6, <1>7

LEMMA TicksTyped == ASSUME NEW b \in Balance, NEW r \in Ticks(b) PROVE r \in Balance
<1>1. Climbed(b) \in Balance
  <2>1. b.qps \in 1..QpsMax /\ AtMostMax(b.qps + QpsStep) \in 1..QpsMax
    BY BalanceNats DEF Balance, AtMostMax
  <2> QED BY <2>1 DEF Climbed, Balance
<1>2. PICK climb \in BOOLEAN :
        r \in LET s == IF climb THEN Climbed(b) ELSE b
              IN  {Answered(s, ok) : ok \in BOOLEAN} \cup IF s.asked THEN {s} ELSE {}
  BY DEF Ticks
<1> DEFINE s == IF climb THEN Climbed(b) ELSE b
<1>3. s \in Balance
  BY <1>1
<1>4. r = s \/ \E ok \in BOOLEAN : r = Answered(s, ok)
  BY <1>2
<1> HIDE DEF s
<1> QED BY <1>3, <1>4, AnsweredTyped

LEMMA RateInForce ==
  ASSUME NEW b \in Balance, NEW throttled \in BOOLEAN
  PROVE  CurrentQps(b, throttled) \in 1..QpsMax
<1>1. b.qps \in 1..QpsMax
  BY DEF Balance
<1>2. b.qps \div QpsDivisor \in Nat /\ b.qps \div QpsDivisor <= b.qps
  BY <1>1, BalanceNats, DivLess
<1> QED BY <1>1, <1>2, BalanceNats DEF CurrentQps, AtLeast1

\* The jobs of a full pool ask for no more than the rate it was cut from.
LEMMA PoolShares ==
  ASSUME NEW parents \in Nat, NEW qps \in Nat \ {0}
  PROVE  LET workers == WorkerCount(ParallelParents, parents, qps)
         IN  /\ workers \in Nat \ {0} /\ JobQps(qps, workers) \in Nat \ {0}
             /\ workers * JobQps(qps, workers) <= qps
<1> DEFINE workers == WorkerCount(ParallelParents, parents, qps)
<1>1. workers \in 1..qps
  BY DnsAssumption DEF WorkerCount, Largest, Smallest
<1> HIDE DEF workers
<1>2. Largest(1, workers) = workers
  BY <1>1 DEF Largest
<1>3. qps \div workers \in Nat /\ workers * (qps \div workers) <= qps
  BY <1>1, DivLess
<1>4. qps \div workers >= 1
  BY <1>1
<1>5. JobQps(qps, workers) = qps \div workers
  <2>1. JobQps(qps, workers) = Largest(1, qps \div workers)
    BY <1>2 DEF JobQps
  <2> DEFINE d == qps \div workers
  <2>2. d \in Nat /\ d >= 1
    BY <1>3, <1>4
  <2> HIDE DEF d
  <2>3. Largest(1, d) = d
    BY <2>2 DEF Largest
  <2> QED BY <2>1, <2>3 DEF d
<1> QED BY <1>1, <1>3, <1>4, <1>5 DEF workers

(***************************************************************************)
(* Files.                                                                   *)
(***************************************************************************)
LEMMA Paths ==
  /\ \A t \in 0..ReconDepth : <<"probe", t>> \in Path
  /\ <<"perm">> \in Path /\ <<"resolve">> \in Path
  /\ \A p \in Name, i \in DOMAIN Chunks : <<"brute", p, i>> \in Path
BY DEF Path

\* Asking for rows ends with a file of that type; a marked file is read as it is,
\* and what did not fail has all the rows.
LEMMA AskedFile ==
  ASSUME files \in [Path -> File], run \in Nat, NEW path \in Path, NEW all \in SUBSET Name,
         NEW o \in Asked(path, all)
  PROVE  /\ o.file \in File /\ o.failed \in BOOLEAN
         /\ files[path].done => o.file = files[path] /\ ~o.failed
         /\ ~files[path].done => /\ o.file.rows \subseteq all
                                 /\ o.file.done => o.file.rows = all
                                 /\ ~o.failed => o.file.rows = all
<1> DEFINE wrote(r, ok) == [file |-> [rows |-> r, done |-> ok, run |-> run], failed |-> ~ok]
<1>1. files[path] \in File
  OBVIOUS
<1>2. CASE files[path].done
  <2>1. o = [file |-> files[path], failed |-> FALSE]
    BY <1>2 DEF Asked
  <2> QED BY <1>1, <1>2, <2>1
<1>3. CASE ~files[path].done
  <2>1. \E r \in SUBSET all, ok \in BOOLEAN : o = wrote(r, ok) /\ (ok => r = all)
    <3>1. CASE stop
      <4>1. o = wrote({}, FALSE)
        BY <1>3, <3>1 DEF Asked
      <4> QED BY <4>1
    <3>2. CASE ~stop
      <4>1. o = wrote(all, TRUE) \/ \E r \in Lossy(all) : o = wrote(r, FALSE)
        BY <1>3, <3>2 DEF Asked
      <4>2. \A r \in Lossy(all) : r \in SUBSET all
        BY DEF Lossy
      <4> QED BY <4>1, <4>2
    <3> QED BY <3>1, <3>2
  <2>2. PICK r \in SUBSET all, ok \in BOOLEAN : o = wrote(r, ok) /\ (ok => r = all)
    BY <2>1
  <2>3. o.file = [rows |-> r, done |-> ok, run |-> run] /\ o.failed = ~ok
    BY <2>2
  <2>4. o.file \in File
    BY <2>3 DEF File
  <2>5. o.file.rows = r /\ o.file.done = ok
    BY <2>3
  <2> QED BY <1>3, <2>2, <2>3, <2>4, <2>5
<1> QED BY <1>2, <1>3

LEMMA KeepsFile ==
  ASSUME files \in [Path -> File], failed \in BOOLEAN, NEW path \in Path, NEW o,
         o.file \in File, o.failed \in BOOLEAN, Keeps(path, o)
  PROVE  files' \in [Path -> File] /\ failed' \in BOOLEAN /\ (failed => failed') /\ (o.failed => failed')
<1>1. files' = [files EXCEPT ![path] = o.file] /\ failed' = (failed \/ o.failed)
  BY DEF Keeps
<1> QED BY <1>1

\* A probe, a permutation or a resolution leaves the files of the brute force alone.
LEMMA OtherFile ==
  ASSUME MarkedWhole, files \in [Path -> File], UNCHANGED zone, NEW o,
         NEW path, Keeps(path, o), path \in {<<"probe", t>> : t \in 0..ReconDepth} \cup {<<"perm">>, <<"resolve">>}
  PROVE  MarkedWhole'
<1>1. ASSUME NEW p \in Name, NEW i \in DOMAIN Chunks PROVE files'[<<"brute", p, i>>] = files[<<"brute", p, i>>]
  <2>1. <<"brute", p, i>> # path /\ <<"brute", p, i>> \in Path
    BY Paths
  <2>2. files' = [files EXCEPT ![path] = o.file]
    BY DEF Keeps
  <2> QED BY <2>1, <2>2
<1> QED BY <1>1 DEF MarkedWhole

LEMMA SameFiles == ASSUME MarkedWhole, UNCHANGED <<zone, files>> PROVE MarkedWhole'
BY DEF MarkedWhole

\* What a probe shows is of the zone, whose rows have the names probed.
LEMMA ProbedIps ==
  ASSUME files \in [Path -> File], run \in Nat, zone \in Zones, NEW path \in Path,
         NEW parents \in SUBSET Name, NEW o \in Asked(path, ProbeRows(parents))
  PROVE  /\ CatchAlls(path, o) \subseteq parents
         /\ CatchAllIps(CatchAlls(path, o)) \subseteq IP
<1>1. ProbeRows(parents) \subseteq parents
  BY DEF ProbeRows
<1>2. ~files[path].done => o.file.rows \subseteq ProbeRows(parents)
  BY <1>1, AskedFile
<1>3. CatchAlls(path, o) \subseteq parents
  BY <1>1, <1>2 DEF CatchAlls
<1>4. \A p \in Name : zone.wild[p] \subseteq IP
  BY DnsAssumption
<1> QED BY <1>3, <1>4 DEF CatchAllIps

(***************************************************************************)
(* Rows.                                                                    *)
(***************************************************************************)
\* A store that keeps the names of another, and its true rows.
Grows(z, store, next) ==
  /\ DOMAIN store \subseteq DOMAIN next
  /\ \A h \in DOMAIN store : store[h].ips = AnswerIn(z, h) => next[h].ips = AnswerIn(z, h)

IsStore(store) == store \in [DOMAIN store -> Row] /\ DOMAIN store \subseteq Name

LEMMA GrowsSelf == \A z, store : Grows(z, store, store)
BY DEF Grows

LEMMA CoversGrow ==
  ASSUME NEW z, NEW s, NEW t, Grows(z, s, t), NEW v, NEW w, v \subseteq w, NEW p, NEW i, Covers(z, p, i, s, v)
  PROVE  Covers(z, p, i, t, w)
<1>1. ASSUME NEW n, Holds(z, n, s, v) PROVE Holds(z, n, t, w)
  BY <1>1 DEF Holds, Grows, WildcardOnly
<1> QED BY <1>1 DEF Covers

LEMMA ParentsGrow ==
  ASSUME NEW z, NEW s, NEW t, Grows(z, s, t), NEW v, NEW w, v \subseteq w, NEW P, CoversParents(z, P, s, v)
  PROVE  CoversParents(z, P, t, w)
BY CoversGrow DEF CoversParents, CoversAll

LEMMA MergedAnswer ==
  ASSUME NEW store, NEW hosts, NEW source, Truthful(zone, store), NEW h \in hosts
  PROVE  Merged(store, hosts, source)[h].ips = AnswerIn(zone, h)
<1>1. Merged(store, hosts, source)[h].ips = Answer(h) \cup IF h \in DOMAIN store THEN store[h].ips ELSE {}
  BY DEF Merged
<1> QED BY <1>1, AnswerIs DEF Truthful

LEMMA MergedRows ==
  ASSUME NEW store, NEW hosts, NEW source, NEW z, z = zone, Truthful(z, store)
  PROVE  LET m == Merged(store, hosts, source)
         IN  /\ DOMAIN m = DOMAIN store \cup hosts
             /\ Grows(z, store, m) /\ Truthful(z, m)
             /\ \A h \in hosts : m[h].ips = AnswerIn(z, h)
<1> DEFINE m == Merged(store, hosts, source)
<1>1. DOMAIN m = DOMAIN store \cup hosts
  BY DEF Merged
<1>2. ASSUME NEW h \in DOMAIN store, h \notin hosts PROVE m[h] = store[h]
  BY <1>2 DEF Merged
<1>3. ASSUME NEW h \in hosts PROVE m[h].ips = AnswerIn(z, h)
  BY MergedAnswer
<1> HIDE DEF m
<1>4. Grows(z, store, m)
  BY <1>1, <1>2, <1>3 DEF Grows
<1>5. Truthful(z, m)
  BY <1>1, <1>2, <1>3 DEF Truthful
<1> QED BY <1>1, <1>3, <1>4, <1>5 DEF m

LEMMA MergedTyped ==
  ASSUME NEW store, IsStore(store), NEW hosts \in SUBSET Name, NEW source \in {"known", "brute", "perm"},
         zone \in Zones
  PROVE  IsStore(Merged(store, hosts, source))
<1> DEFINE m == Merged(store, hosts, source)
<1>1. m = [h \in DOMAIN store \cup hosts |-> m[h]] /\ DOMAIN m = DOMAIN store \cup hosts
  BY DEF Merged
<1>2. ASSUME NEW h \in DOMAIN store, h \notin hosts PROVE m[h] \in Row
  BY <1>2 DEF Merged, IsStore
<1>3. ASSUME NEW h \in hosts PROVE m[h] \in Row
  <2> DEFINE ips == Answer(h) \cup IF h \in DOMAIN store THEN store[h].ips ELSE {}
             was == IF h \in DOMAIN store THEN store[h].source ELSE source
  <2>1. m[h] = [ips |-> ips, source |-> IF was = "known" THEN source ELSE was,
                status |-> IF ips = {} THEN "unresolved" ELSE "resolved"]
    BY DEF Merged
  <2>2. Answer(h) \in SUBSET IP
    BY AnswerIs, AnswerTyped
  <2>3. h \in DOMAIN store => store[h].ips \in SUBSET IP /\ store[h].source \in {"known", "brute", "perm"}
    BY DEF IsStore, Row
  <2>4. ips \in SUBSET IP /\ was \in {"known", "brute", "perm"}
    BY <2>2, <2>3
  <2> HIDE DEF ips, was
  <2> QED BY <2>1, <2>4 DEF Row, Status
<1> HIDE DEF m
<1>4. m \in [DOMAIN m -> Row] /\ DOMAIN m \subseteq Name
  BY <1>1, <1>2, <1>3 DEF IsStore
<1> QED BY <1>4 DEF m, IsStore

LEMMA UnresolvedRows ==
  ASSUME NEW store, NEW hosts, NEW z, Truthful(z, store)
  PROVE  LET u == WithUnresolved(store, hosts)
         IN  DOMAIN u = DOMAIN store \cup hosts /\ Grows(z, store, u) /\ Truthful(z, u)
BY DEF WithUnresolved, Grows, Truthful

LEMMA UnresolvedTyped ==
  ASSUME NEW store, IsStore(store), NEW hosts \in SUBSET Name
  PROVE  IsStore(WithUnresolved(store, hosts))
<1> DEFINE u == WithUnresolved(store, hosts)
<1>1. u = [h \in DOMAIN store \cup hosts |-> u[h]] /\ DOMAIN u = DOMAIN store \cup hosts
  BY DEF WithUnresolved
<1>2. \A h \in DOMAIN store \cup hosts : u[h] \in Row
  BY DEF WithUnresolved, IsStore, Row, Status
<1> HIDE DEF u
<1>3. u \in [DOMAIN u -> Row] /\ DOMAIN u \subseteq Name
  BY <1>1, <1>2 DEF IsStore
<1> QED BY <1>3 DEF u, IsStore

(***************************************************************************)
(* What a step leaves alone.                                                *)
(***************************************************************************)
LEMMA NoRows ==
  /\ DOMAIN <<>> = {} /\ IsStore(<<>>) /\ \A z : Truthful(z, <<>>)
  /\ <<>> \in [DOMAIN <<>> -> Job]
BY DEF IsStore, Truthful

LEMMA EngineFrame == ASSUME EngineTypes, UNCHANGED discoveryVars PROVE EngineTypes'
BY DEF EngineTypes, discoveryVars

LEMMA DocFrame == ASSUME DocTypes, UNCHANGED doc PROVE DocTypes'
BY DEF DocTypes

LEMMA DocStore == ASSUME DocTypes PROVE IsStore(doc.rows)
BY DEF DocTypes, IsStore

LEMMA DnsStore == ASSUME DnsTypes PROVE IsStore(resolved)
BY DEF DnsTypes, IsStore

LEMMA FiniteJobs == ASSUME DnsTypes PROVE IsFiniteSet(Running)
<1>1. Running \subseteq Name
  BY DEF DnsTypes, Running, Narrow
<1> QED BY <1>1, FiniteName, FS_Subset

LEMMA NoneRunning == ASSUME jobs = <<>> PROVE Running = {} /\ Cardinality(Running) = 0
BY NoRows, FS_EmptySet DEF Running

LEMMA NoneRunningNext == ASSUME jobs' = <<>> PROVE Running' = {} /\ Cardinality(Running)' = 0
BY NoRows, FS_EmptySet DEF Running

LEMMA SharedSame == ASSUME Shared, UNCHANGED <<jobs, batch>> PROVE Shared'
BY DEF Shared, Running

LEMMA SharedIdle == ASSUME Shared, jobs' = <<>>, batch' \in {batch, NoBatch} PROVE Shared'
<1>1. Cardinality(Running)' = 0
  BY NoneRunningNext
<1>2. batch' = NoBatch => batch'.live = 1 /\ batch'.qps = 1 /\ batch'.pool = 1
  BY DEF NoBatch
<1>3. /\ batch'.live \in 1..QpsMax /\ batch'.qps \in Nat \ {0} /\ batch'.pool \in Nat \ {0}
      /\ batch'.pool * batch'.qps <= batch'.live
  <2>1. CASE batch' = batch
    BY <2>1 DEF Shared
  <2>2. CASE batch' = NoBatch
    <3>1. batch'.live = 1 /\ batch'.qps = 1 /\ batch'.pool = 1
      BY <2>2, <1>2
    <3>2. 1 \in 1..QpsMax /\ 1 * 1 <= 1 /\ 1 \in Nat \ {0}
      BY BalanceNats
    <3> QED BY <3>1, <3>2
  <2> QED BY <2>1, <2>2
<1>4. Cardinality(Running)' <= batch'.pool
  BY <1>1, <1>3
<1> QED BY <1>3, <1>4 DEF Shared

LEMMA DocCoveredSame == ASSUME DocCovered, UNCHANGED <<zone, doc>> PROVE DocCovered'
BY DEF DocCovered

\* In a place where nothing is being resolved only the document matters.
LEMMA CoveredQuiet ==
  ASSUME Covered, UNCHANGED <<zone, doc>>, pc' \in Quiet
  PROVE  Covered'
<1>1. pc' \notin Dns /\ pc' \notin {"brute", "expanding"}
  BY DEF Quiet, Dns
<1> QED BY <1>1, DocCoveredSame DEF Covered, OldCovered, NamesCovered, JobsCovered

LEMMA NamesGrow ==
  ASSUME NamesCovered, pc \in Dns, UNCHANGED zone,
         partial' = {} => partial = {}, failed => failed',
         partial' = {} /\ ~failed' => Finished' \subseteq Finished,
         Grows(zone, resolved, resolved'), wild \subseteq wild'
  PROVE  NamesCovered'
<1> SUFFICES ASSUME partial' = {}, ~failed' PROVE CoversParents(zone, Finished', resolved', wild')
  BY DEF NamesCovered
<1>1. CoversParents(zone, Finished, resolved, wild)
  BY DEF NamesCovered
<1>2. CoversParents(zone, Finished, resolved', wild')
  BY <1>1, ParentsGrow
<1> QED BY <1>2 DEF CoversParents

\* A step of a branch that has no batch.
LEMMA CoveredWalks ==
  ASSUME Covered, UNCHANGED <<zone, doc>>, pc \in Dns, pc' \in Dns \ {"brute"},
         partial' = {} => partial = {}, failed => failed',
         partial' = {} /\ ~failed' => Finished' \subseteq Finished,
         Grows(zone, resolved, resolved'), wild \subseteq wild'
  PROVE  Covered'
<1>1. pc' \notin {"brute", "expanding"}
  BY DEF Dns
<1> QED BY <1>1, NamesGrow, DocCoveredSame DEF Covered, OldCovered, JobsCovered

\* What the engine does between the modules' own steps.
LEMMA Quietly ==
  ASSUME DInv, UNCHANGED <<zone, files, doc>>, pc' \in Quiet, jobs' = <<>>, EngineTypes',
         batch' \in {batch, NoBatch}, resolved' \in {resolved, <<>>}, wild' \in {wild, {}},
         suspects' \in {suspects, {}}, nested' \in {nested, {}}, level' \in {level, 1},
         lb' \in {lb, NewBalance}, failed' \in {failed, FALSE}, run' \in Nat, known' = known,
         stop' \in BOOLEAN, stage' \in {"idle", "down", "ffuf-3", "merge"} => pc' = "idle"
  PROVE  DInv'
<1>1. DnsTypes'
  <2>1. resolved' \in [DOMAIN resolved' -> Row] /\ DOMAIN resolved' \subseteq Name
    BY NoRows DEF DInv, DnsTypes, IsStore
  <2>2. jobs' \in [DOMAIN jobs' -> Job] /\ DOMAIN jobs' \subseteq Narrow
    BY NoRows
  <2>3. level' \in 1..(ReconDepth + 1)
    BY HostsAssumption DEF DInv, DnsTypes
  <2>4. lb' \in Balance
    BY NewBalanceTyped DEF DInv, DnsTypes
  <2> QED BY <2>1, <2>2, <2>3, <2>4 DEF DInv, DnsTypes
<1>2. DocTypes'
  BY DocFrame DEF DInv
<1>3. Placed'
  <2>1. pc' \notin {"brute", "expanding", "apex", "perm", "permute", "resolve", "write"}
    BY DEF Quiet
  <2> QED BY <2>1, NoRows DEF Placed
<1>4. Shared'
  BY SharedIdle DEF DInv
<1>5. Honest'
  <2>1. MarkedWhole'
    BY SameFiles DEF DInv, Honest
  <2>2. Truthful(zone', resolved') /\ Truthful(zone', doc'.rows)
    BY NoRows DEF DInv, Honest
  <2> QED BY <2>1, <2>2 DEF Honest
<1>6. Covered'
  BY CoveredQuiet DEF DInv
<1> QED BY <1>1, <1>2, <1>3, <1>4, <1>5, <1>6 DEF DInv

LEMMA Unmoved == ASSUME DInv, UNCHANGED dnsVars, UNCHANGED stage, EngineTypes' PROVE DInv'
<1> USE DEF dnsVars
<1>1. DnsTypes'
  BY DEF DInv, DnsTypes
<1>2. Placed'
  BY DEF DInv, Placed
<1>3. Honest'
  BY DEF DInv, Honest, MarkedWhole
<1>4. Covered'
  BY DEF DInv, Covered, DocCovered, OldCovered, NamesCovered, JobsCovered, Finished
<1> QED BY <1>1, <1>2, <1>3, <1>4, DocFrame, SharedSame DEF DInv

(***************************************************************************)
(* The engine: where it goes, and the hosts of its documents.               *)
(***************************************************************************)
LEMMA FirstLeft ==
  ASSUME NEW left \in SUBSET DOMAIN Order, left # {}
  PROVE  (CHOOSE i \in left : \A k \in left : i <= k) \in left
<1>1. DOMAIN Order = {1, 2, 3, 4, 5}
  BY DEF Order
<1>2. \E i \in left : \A k \in left : i <= k
  BY <1>1
<1> QED BY <1>2

LEMMA AtStage ==
  ASSUME NEW m, At(m)
  PROVE  stage' = m /\ pc' \in {"idle", "dns"} /\ (m # "dns-resolve" => pc' = "idle")
BY DEF At

LEMMA OrderStages == ASSUME NEW i \in DOMAIN Order PROVE Order[i] \in Stages
BY DEF Stages

LEMMA GoesWhere ==
  ASSUME NEW m, Goes(m)
  PROVE  /\ stage' \in Stages /\ pc' \in {"idle", "dns"}
         /\ stage' # "dns-resolve" => pc' = "idle"
<1>1. CASE stop
  BY <1>1 DEF Goes, Stages
<1>2. CASE ~stop
  <2> DEFINE left == {i \in DOMAIN Order : Order[i] \notin done /\ \E k \in DOMAIN Order : Order[k] = m /\ k < i}
  <2>1. IF left = {} THEN At("idle") ELSE At(Order[CHOOSE i \in left : \A k \in left : i <= k])
    BY <1>2 DEF Goes
  <2>2. left \in SUBSET DOMAIN Order
    OBVIOUS
  <2> HIDE DEF left
  <2>3. CASE left = {}
    BY <2>1, <2>3, AtStage DEF Stages
  <2>4. CASE left # {}
    BY <2>1, <2>2, <2>4, FirstLeft, AtStage, OrderStages
  <2> QED BY <2>3, <2>4
<1> QED BY <1>1, <1>2

LEMMA HostsInSet == \A S, N : HostsIn(S) \subseteq N <=> \A r \in S : r.host \in N
BY DEF HostsIn

LEMMA FlushedHosts ==
  ASSUME NEW ips, NEW att, NEW sus, NEW w
  PROVE  HostsIn(Flushed(ips, att, sus, w).assets) \subseteq DOMAIN ips
<1> DEFINE left == DOMAIN ips \ {h \in DOMAIN ips : Quarantined(ips[h], w)}
<1>1. Flushed(ips, att, sus, w).assets =
        {[host |-> h, ips |-> ips[h], attribution |-> att[h], suspect |-> sus[h]] : h \in left}
  BY DEF Flushed
<1>2. ASSUME NEW r \in Flushed(ips, att, sus, w).assets PROVE r.host \in DOMAIN ips
  <2>1. PICK h \in left : r = [host |-> h, ips |-> ips[h], attribution |-> att[h], suspect |-> sus[h]]
    BY <1>1
  <2> QED BY <2>1
<1> QED BY <1>2, HostsInSet

LEMMA MergedHosts ==
  ASSUME NEW P, NEW A, NEW N, \A d \in P \cup A : HostsIn(d.rows) \subseteq N
  PROVE  HostsIn(MergeBranches(P, A).assets) \subseteq N
<1> DEFINE one == UNION {d.rows : d \in P}
           other == UNION {d.rows : d \in A}
           all == one \cup other
           ips == [h \in HostsIn(all) |-> IpsOf(all, h)]
           att == [h \in HostsIn(all) |-> Attribution(h, one, other)]
           sus == [h \in HostsIn(all) |-> SuspectIn(all, h)]
<1>1. MergeBranches(P, A) = Flushed(ips, att, sus, CatchAll(P \cup A))
  BY DEF MergeBranches
<1>2. DOMAIN ips = HostsIn(all)
  OBVIOUS
<1>3. HostsIn(all) \subseteq N
  <2>1. \A d \in P \cup A : \A r \in d.rows : r.host \in N
    BY HostsInSet
  <2>2. ASSUME NEW r \in all PROVE r.host \in N
    <3>1. \E d \in P \cup A : r \in d.rows
      OBVIOUS
    <3> QED BY <2>1, <3>1
  <2> QED BY <2>2, HostsInSet
<1> HIDE DEF all, ips, att, sus
<1> QED BY <1>1, <1>2, <1>3, FlushedHosts

LEMMA AppendedHosts ==
  ASSUME NEW was, NEW d, NEW N, HostsIn(was.assets) \subseteq N, HostsIn(d.rows) \subseteq N
  PROVE  HostsIn(AppendActive(was, d).assets) \subseteq N
<1> DEFINE all == {[host |-> a.host, ips |-> a.ips, suspect |-> a.suspect] : a \in was.assets} \cup d.rows
           ips == [h \in HostsIn(all) |-> IpsOf(all, h)]
<1>1. \E att, sus, w : AppendActive(was, d) = Flushed(ips, att, sus, w)
  BY DEF AppendActive
<1>2. DOMAIN ips = HostsIn(all)
  OBVIOUS
<1>3. HostsIn(all) \subseteq N
  <2>1. \A a \in was.assets : a.host \in N
    BY HostsInSet
  <2>2. \A r \in d.rows : r.host \in N
    BY HostsInSet
  <2>3. \A r \in all : r.host \in N
    BY <2>1, <2>2
  <2> QED BY <2>3, HostsInSet
<1> HIDE DEF all, ips
<1> QED BY <1>1, <1>2, <1>3, FlushedHosts

LEMMA FoundHost == \A h, ips, suspect : Found(h, ips, suspect).host = h
BY DEF Found

LEMMA LossyPart == \A S : \A T \in Lossy(S) : T \subseteq S
BY DEF Lossy

LEMMA ServedNames == \A S : Served(S) \subseteq Name
BY DEF Served, InScope

LEMMA BaseNames == ASSUME DocTypes PROVE BaseHosts \subseteq Name
BY ApexName DEF DocTypes, BaseHosts, DnsHosts

LEMMA StartKeeps == ASSUME DInv, StartRun PROVE DInv'
<1>1. pc = "idle" /\ jobs = <<>>
  BY DEF StartRun, DInv, Placed
<1>2. passive' \subseteq Name
  BY DnsAssumption DEF StartRun
<1>3. EngineTypes'
  <2>1. "dns-resolve" \in Stages
    BY OrderStages DEF Order, Stages
  <2> QED BY <1>2, <2>1 DEF StartRun, DInv, EngineTypes
<1> QED BY <1>1, <1>3, Quietly DEF StartRun, DInv, DnsTypes, Quiet

LEMMA StopKeeps == ASSUME DInv, RequestStop PROVE DInv'
<1>1. DnsTypes' /\ EngineTypes'
  BY DEF RequestStop, DInv, DnsTypes, EngineTypes
<1>2. Placed' /\ Honest' /\ Covered'
  BY DEF RequestStop, DInv, Placed, Honest, MarkedWhole, Covered, DocCovered, OldCovered, NamesCovered,
         JobsCovered, Finished
<1> QED BY <1>1, <1>2, DocFrame, SharedSame DEF RequestStop, DInv

LEMMA LocalsQuiet ==
  ASSUME DInv, LocalsEnd, UNCHANGED <<zone, files, run, known, doc, stop>>, EngineTypes',
         pc' \in {"idle", "dns"}, stage' # "dns-resolve" => pc' = "idle"
  PROVE  DInv'
<1>1. run' \in Nat /\ stop' \in BOOLEAN
  BY DEF DInv, DnsTypes
<1>2. pc' \in Quiet
  BY DEF Quiet
<1>3. stage' \in {"idle", "down", "ffuf-3", "merge"} => pc' = "idle"
  OBVIOUS
<1> QED BY <1>1, <1>2, <1>3, Quietly DEF LocalsEnd

LEMMA DieKeeps == ASSUME DInv, Die PROVE DInv'
<1>1. EngineTypes'
  BY DEF Die, DInv, EngineTypes, Stages
<1> QED BY <1>1, LocalsQuiet DEF Die

LEMMA OverKeepsTypes == ASSUME NEW m, Over(m) PROVE Goes(m)
BY DEF Over

LEMMA DnsOverKeeps == ASSUME DInv, DnsOver PROVE DInv'
<1>1. Goes("dns-resolve") /\ docs' \subseteq docs \cup {"dns-resolve"}
  BY OverKeepsTypes DEF DnsOver
<1>2. EngineTypes'
  BY <1>1, GoesWhere DEF DnsOver, DInv, EngineTypes, Branch
<1> QED BY <1>1, <1>2, GoesWhere, LocalsQuiet DEF DnsOver

LEMMA FfufOverKeeps == ASSUME DInv, FfufOver PROVE DInv'
<1>1. Goes("ffuf") /\ docs' \subseteq docs \cup {"dns-resolve", "ffuf"}
  BY OverKeepsTypes DEF FfufOver
<1>2. EngineTypes'
  BY <1>1, GoesWhere DEF FfufOver, DInv, EngineTypes, Branch
<1> QED BY <1>1, <1>2, GoesWhere, LocalsQuiet DEF FfufOver

LEMMA DnsDocHosts == ASSUME DocTypes PROVE HostsIn(DnsDoc.rows) \subseteq Name
<1>1. \A h \in DOMAIN doc.rows : Found(h, doc.rows[h].ips, FALSE).host \in Name
  BY DEF DocTypes, Found
<1>2. \A r \in DnsDoc.rows : r.host \in Name
  BY <1>1 DEF DnsDoc
<1> QED BY <1>2, HostsInSet

LEMMA Ffuf4OverKeeps == ASSUME DInv, Ffuf4Over PROVE DInv'
<1>1. Goes("ffuf-4")
  BY OverKeepsTypes DEF Ffuf4Over
<1>2. HostsIn(list'.assets) \subseteq Name
  <2>1. CASE UNCHANGED list
    BY <2>1 DEF DInv, EngineTypes
  <2>2. CASE list' = AppendActive(list, DnsDoc)
    BY <2>2, DnsDocHosts, AppendedHosts DEF DInv, EngineTypes
  <2> QED BY <2>1, <2>2 DEF Ffuf4Over
<1>3. EngineTypes'
  BY <1>1, <1>2, GoesWhere DEF Ffuf4Over, DInv, EngineTypes
<1> QED BY <1>1, <1>3, GoesWhere, LocalsQuiet DEF Ffuf4Over

\* A step of the engine that leaves the modules' own variables alone.
LEMMA EngineQuiet ==
  ASSUME DInv, UNCHANGED <<zone, files, run, known, resolved, wild, suspects, level, jobs, batch, nested,
                           partial, lb, doc, failed, sources>>,
         stop' \in BOOLEAN, EngineTypes', jobs = <<>>, pc' \in Quiet,
         stage' \in {"idle", "down", "ffuf-3", "merge"} => pc' = "idle"
  PROVE  DInv'
<1>1. run' \in Nat
  BY DEF DInv, DnsTypes
<1> QED BY <1>1, Quietly

LEMMA QuietPlaces == {"idle", "dns", "vhosts", "expand"} \subseteq Quiet
BY DEF Quiet

LEMMA ResumeKeeps == ASSUME DInv, Resume PROVE DInv'
<1>1. pc = "idle" /\ jobs = <<>>
  BY DEF Resume, DInv, Placed
<1>2. /\ stage' \in Stages /\ pc' \in {"idle", "dns"}
      /\ stage' # "dns-resolve" => pc' = "idle"
  <2> DEFINE left == {i \in DOMAIN Order : Order[i] \notin done}
  <2>1. IF left = {} THEN At("idle") ELSE At(Order[CHOOSE i \in left : \A k \in left : i <= k])
    BY DEF Resume
  <2>2. left \in SUBSET DOMAIN Order
    OBVIOUS
  <2> HIDE DEF left
  <2>3. CASE left = {}
    BY <2>1, <2>3, AtStage DEF Stages
  <2>4. CASE left # {}
    BY <2>1, <2>2, <2>4, FirstLeft, AtStage, OrderStages
  <2> QED BY <2>3, <2>4
<1>3. passive' \subseteq Name /\ docs' \subseteq Branch
  BY DnsAssumption DEF Resume, DInv, EngineTypes
<1>4. EngineTypes'
  BY <1>2, <1>3 DEF Resume, DInv, EngineTypes
<1> QED BY <1>1, <1>2, <1>4, QuietPlaces, EngineQuiet DEF Resume

LEMMA FfufStartKeeps == ASSUME DInv, FfufStart PROVE DInv'
<1>1. jobs = <<>>
  BY DEF FfufStart, DInv, Placed
<1>2. EngineTypes'
  BY HostsInSet DEF FfufStart, DInv, EngineTypes
<1> QED BY <1>1, <1>2, QuietPlaces, EngineQuiet DEF FfufStart, DInv, DnsTypes

LEMMA FfufJobKeeps == ASSUME DInv, NEW base \in Name, FfufJob(base) PROVE DInv'
<1>1. HostsIn(hits') \subseteq Name
  <2>1. PICK names \in Lossy(Served({base})), dead \in BOOLEAN :
          hits' = hits \cup {Found(h, {}, dead) : h \in names}
    BY DEF FfufJob
  <2>2. names \subseteq Name
    BY LossyPart, ServedNames
  <2>3. \A h \in names : Found(h, {}, dead).host \in Name
    BY <2>2, FoundHost
  <2>4. \A r \in hits : r.host \in Name
    BY HostsInSet DEF DInv, EngineTypes
  <2>5. \A r \in hits' : r.host \in Name
    BY <2>1, <2>3, <2>4
  <2> QED BY <2>5, HostsInSet
<1>2. EngineTypes'
  BY <1>1 DEF FfufJob, DInv, EngineTypes
<1> QED BY <1>2, Unmoved DEF FfufJob, dnsVars

LEMMA FfufEndsKeeps == ASSUME DInv, FfufEnds PROVE DInv'
<1>1. jobs = <<>>
  BY DEF FfufEnds, DInv, Placed
<1>2. ffuf'.hosts \subseteq Name /\ HostsIn(ffuf'.vhosts) \subseteq Name
  BY BaseNames DEF FfufEnds, DInv, EngineTypes
<1>3. EngineTypes'
  BY <1>2, HostsInSet DEF FfufEnds, DInv, EngineTypes
<1> QED BY <1>1, <1>3, QuietPlaces, EngineQuiet DEF FfufEnds, DInv, DnsTypes

LEMMA Ffuf3Keeps == ASSUME DInv, Ffuf3 PROVE DInv'
<1>1. pc = "idle" /\ jobs = <<>> /\ Goes("ffuf-3")
  BY OverKeepsTypes DEF Ffuf3, DInv, Placed
<1>2. HostsIn(ffuf3') \subseteq Name
  <2>1. CASE AliveBases = {}
    BY <2>1, HostsInSet DEF Ffuf3
  <2>2. CASE AliveBases # {}
    <3>1. PICK names \in Lossy(Served(First(DeadNames, MaxRequests))) : ffuf3' = {Found(h, {}, TRUE) : h \in names}
      BY <2>2 DEF Ffuf3
    <3>2. \A h \in names : Found(h, {}, TRUE).host \in Name
      BY LossyPart, ServedNames, FoundHost
    <3>3. \A r \in ffuf3' : r.host \in Name
      BY <3>1, <3>2
    <3> QED BY <3>3, HostsInSet
  <2> QED BY <2>1, <2>2
<1>3. EngineTypes'
  BY <1>1, <1>2, GoesWhere DEF Ffuf3, DInv, EngineTypes, Branch
<1> QED BY <1>1, <1>3, GoesWhere, QuietPlaces, EngineQuiet DEF Ffuf3, DInv, DnsTypes

LEMMA ActiveHosts ==
  ASSUME DocTypes, EngineTypes
  PROVE  \A d \in PassiveDocs \cup ActiveDocs : HostsIn(d.rows) \subseteq Name
<1>1. \A h \in passive \cup ffuf.hosts : Found(h, {}, FALSE).host \in Name
  BY FoundHost DEF EngineTypes
<1>2. \A r \in DnsDoc.rows \cup ffuf3 \cup ffuf.vhosts : r.host \in Name
  BY DnsDocHosts, HostsInSet DEF EngineTypes
<1>3. ASSUME NEW d \in PassiveDocs PROVE \A r \in d.rows : r.host \in Name
  <2> DEFINE hosts == {Found(h, {}, FALSE) : h \in passive}
  <2>1. d = [rows |-> hosts, wild |-> {}]
    BY DEF PassiveDocs
  <2>2. \A r \in hosts : r.host \in Name
    BY <1>1
  <2> HIDE DEF hosts
  <2> QED BY <2>1, <2>2
<1>4. ASSUME NEW d \in ActiveDocs PROVE \A r \in d.rows : r.host \in Name
  <2> DEFINE hosts == {Found(h, {}, FALSE) : h \in ffuf.hosts} \cup ffuf.vhosts
  <2>1. d = DnsDoc \/ d = [rows |-> hosts, wild |-> {}] \/ d = [rows |-> ffuf3, wild |-> {}]
    BY DEF ActiveDocs
  <2>2. \A r \in hosts : r.host \in Name
    BY <1>1, <1>2
  <2> HIDE DEF hosts
  <2> QED BY <1>2, <2>1, <2>2
<1> QED BY <1>3, <1>4, HostsInSet

LEMMA MergeKeeps == ASSUME DInv, MergeStage PROVE DInv'
<1>1. pc = "idle" /\ jobs = <<>> /\ Goes("merge")
  BY OverKeepsTypes DEF MergeStage, DInv, Placed
<1>2. HostsIn(list'.assets) \subseteq Name
  <2>1. CASE stop
    BY <2>1 DEF MergeStage, DInv, EngineTypes
  <2>2. CASE ~stop
    <3>1. list' = MergeBranches(PassiveDocs, ActiveDocs)
      BY <2>2 DEF MergeStage
    <3> QED BY <3>1, ActiveHosts, MergedHosts DEF DInv
  <2> QED BY <2>1, <2>2
<1>3. EngineTypes'
  BY <1>1, <1>2, GoesWhere DEF MergeStage, DInv, EngineTypes
<1> QED BY <1>1, <1>3, GoesWhere, QuietPlaces, EngineQuiet DEF MergeStage, DInv, DnsTypes

LEMMA Ffuf4Keeps == ASSUME DInv, Ffuf4 PROVE DInv'
<1>1. pc = "idle" /\ jobs = <<>>
  BY DEF Ffuf4, DInv, Placed
<1>2. HostsIn(list'.assets) \subseteq Name
  <2>1. CASE Listening = {}
    BY <2>1 DEF Ffuf4, DInv, EngineTypes
  <2>2. CASE Listening # {}
    <3> DEFINE S == {x \in Listening \X zone.vhosts : x[2] \in Served(VhostBases(HostsOf(x[1])))}
    <3>1. PICK answers \in Lossy(S) : list' = AppendActive(list, Ffuf4Doc(answers))
      BY <2>2 DEF Ffuf4
    <3>2. \A x \in answers : x[2] \in Name
      BY LossyPart, ServedNames
    <3>3. \A x \in answers : Found(x[2], {x[1]}, x[2] \notin HostsOf(x[1])).host \in Name
      BY <3>2, FoundHost
    <3>4. \A r \in Ffuf4Doc(answers).rows : r.host \in Name
      BY <3>3 DEF Ffuf4Doc
    <3>5. HostsIn(Ffuf4Doc(answers).rows) \subseteq Name
      BY <3>4, HostsInSet
    <3> QED BY <3>1, <3>5, AppendedHosts DEF DInv, EngineTypes
  <2> QED BY <2>1, <2>2
<1>3. EngineTypes'
  BY <1>2 DEF Ffuf4, DInv, EngineTypes
<1> QED BY <1>1, <1>3, QuietPlaces, EngineQuiet DEF Ffuf4, DInv, DnsTypes

(***************************************************************************)
(* The DNS module's steps, outside a batch.                                 *)
(***************************************************************************)
InDns == stage \in {"dns-resolve", "ffuf", "ffuf-4"} /\ UNCHANGED discoveryVars

LEMMA StageStays == ASSUME InDns PROVE stage' \notin {"idle", "down", "ffuf-3", "merge"}
BY DEF InDns, discoveryVars

LEMMA DnsPlaces ==
  /\ \A x \in Dns : x \in Dns \cup Quiet \cup {"expanding"}
  /\ Dns = {"apex", "level", "brute", "perm", "permute", "resolve", "write"}
BY DEF Dns

LEMMA FileOther ==
  ASSUME DInv, UNCHANGED zone, NEW path \in {<<"probe", t>> : t \in 0..ReconDepth} \cup {<<"perm">>, <<"resolve">>},
         NEW names \in SUBSET Name, NEW o \in Asked(path, names), Keeps(path, o)
  PROVE  /\ files' \in [Path -> File] /\ failed' \in BOOLEAN /\ (failed => failed')
         /\ MarkedWhole'
<1>1. path \in Path
  BY Paths
<1>2. o.file \in File /\ o.failed \in BOOLEAN
  BY <1>1, AskedFile DEF DInv, DnsTypes
<1>3. files' \in [Path -> File] /\ failed' \in BOOLEAN /\ (failed => failed')
  BY <1>1, <1>2, KeepsFile DEF DInv, DnsTypes
<1>4. MarkedWhole'
  BY OtherFile DEF DInv, DnsTypes, Honest
<1> QED BY <1>3, <1>4

LEMMA BeginKeeps == ASSUME DInv, InDns, NEW names \in SUBSET Name, Begin(names) PROVE DInv'
<1>1. jobs = <<>> /\ jobs' = <<>> /\ pc' = "apex"
  BY DEF Begin, DInv, Placed
<1>2. DnsTypes'
  <2>1. lb' \in Balance
    BY NewBalanceTyped, TicksTyped DEF Begin
  <2>2. resolved' \in [DOMAIN resolved' -> Row] /\ DOMAIN resolved' \subseteq Name
    BY NoRows DEF Begin, IsStore
  <2>3. level' \in 1..(ReconDepth + 1)
    BY HostsAssumption DEF Begin
  <2> QED BY <1>1, <2>1, <2>2, <2>3, DnsPlaces DEF Begin, DInv, DnsTypes
<1>3. Placed'
  BY <1>1, StageStays, NoRows DEF Begin, Placed
<1>4. Honest'
  BY SameFiles, NoRows DEF Begin, DInv, Honest
<1>5. Covered'
  <2>1. Finished' = {}
    BY DEF Begin, Finished
  <2>2. NamesCovered'
    BY <2>1 DEF NamesCovered, CoversParents
  <2> QED BY <1>1, <2>2, DocCoveredSame DEF Begin, DInv, Covered, OldCovered, JobsCovered
<1> QED BY <1>1, <1>2, <1>3, <1>4, <1>5, EngineFrame, DocFrame, SharedSame DEF DInv, Begin, InDns

LEMMA ProbeApexKeeps == ASSUME DInv, InDns, ProbeApex PROVE DInv'
<1>1. jobs = <<>> /\ jobs' = <<>> /\ level = 1 /\ nested = {} /\ pc' = "level"
  BY DEF ProbeApex, DInv, Placed
<1>2. PICK b \in Ticks(lb) :
        /\ lb' = b
        /\ IF b.paused
           THEN /\ partial' = partial \cup {PausedPartial}
                /\ UNCHANGED <<files, failed, sources, wild>>
           ELSE /\ \E o \in Asked(<<"probe", 1>>, ProbeRows({Apex})) :
                     /\ Keeps(<<"probe", 1>>, o)
                     /\ wild' = CatchAllIps(CatchAlls(<<"probe", 1>>, o))
                /\ UNCHANGED partial
  BY DEF ProbeApex
<1>3. /\ files' \in [Path -> File] /\ failed' \in BOOLEAN /\ wild' \subseteq IP /\ MarkedWhole'
  <2>1. CASE b.paused
    BY <1>2, <2>1, SameFiles DEF ProbeApex, DInv, DnsTypes, Honest
  <2>2. CASE ~b.paused
    <3> DEFINE path == <<"probe", 1>>
    <3>1. PICK o \in Asked(path, ProbeRows({Apex})) : Keeps(path, o) /\ wild' = CatchAllIps(CatchAlls(path, o))
      BY <1>2, <2>2
    <3>2. path \in {<<"probe", t>> : t \in 0..ReconDepth} /\ path \in Path
      BY Paths, HostsAssumption
    <3>3. {Apex} \in SUBSET Name /\ ProbeRows({Apex}) \in SUBSET Name
      BY ApexName DEF ProbeRows
    <3> HIDE DEF path
    <3>4. wild' \subseteq IP
      BY <3>1, <3>2, <3>3, ProbedIps DEF DInv, DnsTypes
    <3> QED BY <3>1, <3>2, <3>3, <3>4, FileOther DEF ProbeApex
  <2> QED BY <2>1, <2>2
<1>4. DnsTypes'
  <2>1. lb' \in Balance
    BY <1>2, TicksTyped DEF DInv, DnsTypes
  <2> QED BY <1>1, <1>3, <2>1, DnsPlaces DEF ProbeApex, DInv, DnsTypes
<1>5. Placed'
  BY <1>1, StageStays, NoRows DEF Placed
<1>6. Honest'
  BY <1>3 DEF ProbeApex, DInv, Honest
<1>7. Covered'
  <2>1. Finished' = {}
    BY <1>1 DEF ProbeApex, Finished
  <2>2. NamesCovered'
    BY <2>1 DEF NamesCovered, CoversParents
  <2> QED BY <1>1, <2>2, DocCoveredSame DEF ProbeApex, DInv, Covered, OldCovered, JobsCovered
<1> QED BY <1>1, <1>4, <1>5, <1>6, <1>7, EngineFrame, DocFrame, SharedSame DEF DInv, ProbeApex, InDns

\* A batch queues a job per parent, none of which is at work yet.
LEMMA BatchBegins ==
  ASSUME DInv, lb' \in Balance, NEW parents \in SUBSET Narrow, Batch(parents)
  PROVE  /\ pc' = "brute" /\ DOMAIN jobs' = parents /\ jobs' \in [DOMAIN jobs' -> Job]
         /\ \A p \in parents : jobs'[p].chunk = 1 /\ jobs'[p].state = "waiting"
         /\ Shared'
<1>1. jobs' = [p \in parents |-> [chunk |-> 1, state |-> "waiting"]] /\ pc' = "brute"
  BY DEF Batch
<1>2. \A p \in parents : jobs'[p].chunk = 1 /\ jobs'[p].state = "waiting" /\ jobs'[p] \in Job
  BY <1>1 DEF Job, JobState
<1>3. DOMAIN jobs' = parents /\ jobs' \in [DOMAIN jobs' -> Job]
  BY <1>1, <1>2
<1>4. PICK throttled \in BOOLEAN :
        LET qps == CurrentQps(lb', throttled)
            p == WorkerCount(ParallelParents, Cardinality(parents), qps)
        IN  batch' = [live |-> qps, qps |-> JobQps(qps, p), pool |-> p]
  BY DEF Batch
<1> DEFINE qps == CurrentQps(lb', throttled)
           p == WorkerCount(ParallelParents, Cardinality(parents), qps)
<1>5. qps \in 1..QpsMax
  BY RateInForce
<1>6. Cardinality(parents) \in Nat
  BY FiniteName, FS_Subset, FS_CardinalityType DEF Narrow
<1>7. p \in Nat \ {0} /\ JobQps(qps, p) \in Nat \ {0} /\ p * JobQps(qps, p) <= qps
  <2> DEFINE n == Cardinality(parents)
  <2>1. qps \in Nat \ {0} /\ n \in Nat
    BY <1>5, <1>6, BalanceNats
  <2> HIDE DEF qps, n
  <2> QED BY <2>1, PoolShares DEF n
<1>8. batch' = [live |-> qps, qps |-> JobQps(qps, p), pool |-> p]
  BY <1>4
<1> HIDE DEF qps, p
<1>9. Running' = {}
  BY <1>2, <1>3 DEF Running
<1>10. Cardinality(Running)' = 0
  BY <1>9, FS_EmptySet
<1>11. /\ batch'.live \in 1..QpsMax /\ batch'.qps \in Nat \ {0} /\ batch'.pool \in Nat \ {0}
       /\ batch'.pool * batch'.qps <= batch'.live
  BY <1>5, <1>7, <1>8
<1>12. Shared'
  BY <1>10, <1>11 DEF Shared
<1> QED BY <1>1, <1>2, <1>3, <1>12

LEMMA ChunkSets ==
  /\ DOMAIN Chunks = 1..Len(Chunks) /\ Len(Chunks) \in Nat
  /\ \A i \in DOMAIN Chunks : Chunks[i] \subseteq Label
BY DnsAssumption

\* Nothing is behind a batch that begins.
LEMMA JobsBegin ==
  ASSUME \A p \in DOMAIN jobs' : jobs'[p].chunk = 1
  PROVE  JobsCovered'
BY ChunkSets DEF JobsCovered

LEMMA RecursionNarrow ==
  ASSUME DInv, level <= ReconDepth
  PROVE  RecursionParents(resolved, level, wild) \in SUBSET Narrow
<1>1. CASE level = 1
  BY <1>1, ApexName DEF RecursionParents
<1>2. CASE level # 1
  <2>1. ASSUME NEW h \in RecursionParents(resolved, level, wild) PROVE h \in DOMAIN resolved /\ Len(h) = level - 1
    BY <1>2 DEF RecursionParents, First
  <2>2. level \in Nat /\ ReconDepth \in Nat
    BY HostsAssumption DEF DInv, DnsTypes
  <2>3. ASSUME NEW h \in RecursionParents(resolved, level, wild) PROVE h \in Name /\ Len(h) < ReconDepth
    BY <2>1, <2>2 DEF DInv, DnsTypes
  <2> QED BY <2>3 DEF Narrow
<1> QED BY <1>1, <1>2

LEMMA NextLevelKeeps == ASSUME DInv, InDns, NextLevel PROVE DInv'
<1> DEFINE parents == RecursionParents(resolved, level, wild)
           path == <<"probe", level>>
<1>1. /\ pc = "level" /\ jobs = <<>> /\ level \in 1..(ReconDepth + 1)
      /\ UNCHANGED <<zone, run, known, resolved, suspects, level, doc, stop>>
  BY DEF NextLevel, DInv, Placed, DnsTypes
<1>2. /\ \/ /\ pc' = "perm" /\ UNCHANGED <<files, failed, wild, nested, jobs, batch>>
            /\ partial' = partial \/ PausedPartial \in partial'
            /\ partial' = {} => partial = {} /\ level >= 2
            /\ lb' \in Balance
         \/ /\ level = 1 /\ Batch({Apex}) /\ lb' \in Balance
            /\ UNCHANGED <<files, failed, wild, partial, nested>>
         \/ /\ level \in 2..ReconDepth /\ lb' \in Balance
            /\ \E o \in Asked(path, ProbeRows(parents)) :
                 LET caught == CatchAlls(path, o)
                     kept == KeptParents(parents, caught)
                 IN  /\ Keeps(path, o)
                     /\ wild' = wild \cup CatchAllIps(caught)
                     /\ nested' = nested \cup kept
                     /\ partial' = {} => partial = {}
                     /\ IF kept = {} THEN pc' = "perm" /\ UNCHANGED <<jobs, batch>>
                        ELSE Batch(kept)
  <2>1. lb \in Balance
    BY DEF DInv, DnsTypes
  <2>2. CASE level > ReconDepth \/ PausedPartial \in partial \/ parents = {}
    <3>1. pc' = "perm" /\ UNCHANGED <<files, failed, wild, lb, partial, nested, jobs, batch>>
      BY <2>2 DEF NextLevel
    <3>2. parents = {} => level # 1
      BY DEF RecursionParents
    <3>3. partial = {} => level >= 2
      BY <1>1, <2>2, <3>2, HostsAssumption
    <3> QED BY <2>1, <3>1, <3>3
  <2>3. CASE ~(level > ReconDepth \/ PausedPartial \in partial \/ parents = {}) /\ level = 1
    <3>1. lb' = lb /\ Batch(parents) /\ UNCHANGED <<files, failed, wild, partial, nested>>
      BY <2>3 DEF NextLevel
    <3>2. parents = {Apex}
      BY <2>3 DEF RecursionParents
    <3> QED BY <2>1, <2>3, <3>1, <3>2
  <2>4. CASE ~(level > ReconDepth \/ PausedPartial \in partial \/ parents = {}) /\ level # 1
    <3>1. level \in 2..ReconDepth
      BY <1>1, <2>4, HostsAssumption
    <3>2. PICK b \in Ticks(lb) :
            /\ lb' = b
            /\ IF b.paused
               THEN /\ partial' = partial \cup {PausedPartial}
                    /\ pc' = "perm"
                    /\ UNCHANGED <<files, failed, sources, wild, nested, jobs, batch>>
               ELSE \E o \in Asked(path, ProbeRows(parents)) :
                    LET caught == CatchAlls(path, o)
                        kept == KeptParents(parents, caught)
                    IN  /\ Keeps(path, o)
                        /\ wild' = wild \cup CatchAllIps(caught)
                        /\ nested' = nested \cup kept
                        /\ partial' = partial \cup IF Cardinality(kept) >= MaxHosts
                                                   THEN {"max_hosts_per_level"} ELSE {}
                        /\ IF kept = {} THEN pc' = "perm" /\ UNCHANGED <<jobs, batch>>
                           ELSE Batch(kept)
      BY <2>4 DEF NextLevel
    <3>3. lb' \in Balance
      BY <2>1, <3>2, TicksTyped
    <3> HIDE DEF parents, path
    <3>4. CASE b.paused
      BY <3>2, <3>3, <3>4
    <3>5. CASE ~b.paused
      BY <3>1, <3>2, <3>3, <3>5
    <3> QED BY <3>4, <3>5
  <2> QED BY <2>2, <2>3, <2>4
<1> HIDE DEF parents, path
<1>3. /\ EngineTypes' /\ DocTypes' /\ Truthful(zone', resolved') /\ Truthful(zone', doc'.rows)
      /\ Grows(zone, resolved, resolved')
  BY <1>1, EngineFrame, DocFrame, GrowsSelf DEF DInv, InDns, Honest
<1>4. CASE /\ pc' = "perm" /\ UNCHANGED <<files, failed, wild, nested, jobs, batch>>
           /\ partial' = {} => partial = {} /\ level >= 2
           /\ lb' \in Balance
  <2>1. DnsTypes'
    BY <1>1, <1>4, DnsPlaces DEF DInv, DnsTypes
  <2>2. Placed'
    BY <1>1, <1>4, StageStays, NoRows DEF Placed
  <2>3. Honest'
    BY <1>1, <1>3, <1>4, SameFiles DEF DInv, Honest
  <2>4. Covered'
    <3>1. Finished' = Finished
      BY <1>1, <1>4 DEF Finished
    <3> QED BY <1>1, <1>3, <1>4, <3>1, CoveredWalks, DnsPlaces DEF DInv
  <2> QED BY <1>3, <1>4, <2>1, <2>2, <2>3, <2>4, SharedSame DEF DInv
<1>5. CASE /\ level = 1 /\ Batch({Apex}) /\ lb' \in Balance
           /\ UNCHANGED <<files, failed, wild, partial, nested>>
  <2>0. {Apex} \in SUBSET Narrow
    BY ApexName
  <2>1. /\ pc' = "brute" /\ DOMAIN jobs' = {Apex} /\ jobs' \in [DOMAIN jobs' -> Job] /\ Shared'
        /\ \A p \in {Apex} : jobs'[p].chunk = 1 /\ jobs'[p].state = "waiting"
    BY <1>5, <2>0, BatchBegins
  <2>2. DnsTypes'
    BY <1>1, <1>5, <2>0, <2>1, DnsPlaces DEF DInv, DnsTypes
  <2>3. Placed'
    BY <1>1, <1>5, <2>1, StageStays, HostsAssumption DEF Placed
  <2>4. Honest'
    BY <1>1, <1>3, <1>5, SameFiles DEF DInv, Honest
  <2>5. Covered'
    <3>1. Finished' \subseteq Finished
      BY <1>1, <1>5, <2>1, NoRows DEF Finished
    <3>2. NamesCovered'
      BY <1>1, <1>3, <1>5, <3>1, NamesGrow, DnsPlaces DEF DInv, Covered
    <3>3. JobsCovered'
      BY <2>1, JobsBegin
    <3> QED BY <1>1, <2>1, <3>2, <3>3, DocCoveredSame DEF DInv, Covered, OldCovered
  <2> QED BY <1>3, <2>1, <2>2, <2>3, <2>4, <2>5 DEF DInv
<1>6. CASE /\ level \in 2..ReconDepth /\ lb' \in Balance
           /\ \E o \in Asked(path, ProbeRows(parents)) :
                LET caught == CatchAlls(path, o)
                    kept == KeptParents(parents, caught)
                IN  /\ Keeps(path, o)
                    /\ wild' = wild \cup CatchAllIps(caught)
                    /\ nested' = nested \cup kept
                    /\ partial' = {} => partial = {}
                    /\ IF kept = {} THEN pc' = "perm" /\ UNCHANGED <<jobs, batch>>
                       ELSE Batch(kept)
  <2>0. PICK o \in Asked(path, ProbeRows(parents)) :
          LET caught == CatchAlls(path, o)
              kept == KeptParents(parents, caught)
          IN  /\ Keeps(path, o)
              /\ wild' = wild \cup CatchAllIps(caught)
              /\ nested' = nested \cup kept
              /\ partial' = {} => partial = {}
              /\ IF kept = {} THEN pc' = "perm" /\ UNCHANGED <<jobs, batch>>
                 ELSE Batch(kept)
    BY <1>6
  <2> DEFINE caught == CatchAlls(path, o)
             kept == KeptParents(parents, caught)
  <2>1. parents \in SUBSET Narrow
    BY <1>6, RecursionNarrow, HostsAssumption DEF parents
  <2>2. /\ kept \in SUBSET Narrow /\ kept \in SUBSET Name /\ parents \in SUBSET Name
        /\ ProbeRows(parents) \in SUBSET Name
    BY <2>1 DEF KeptParents, Narrow, ProbeRows
  <2>3. path \in {<<"probe", t>> : t \in 0..ReconDepth} /\ path \in Path
    BY <1>6, Paths, HostsAssumption DEF path
  <2>4. CatchAllIps(caught) \subseteq IP
    BY <2>2, <2>3, ProbedIps DEF DInv, DnsTypes
  <2>5. files' \in [Path -> File] /\ failed' \in BOOLEAN /\ (failed => failed') /\ MarkedWhole'
    BY <1>1, <2>0, <2>2, <2>3, FileOther
  <2>6. wild' \subseteq IP /\ wild \subseteq wild' /\ nested' \subseteq Name
    BY <2>0, <2>2, <2>4 DEF DInv, DnsTypes
  <2>7. Honest'
    BY <1>3, <2>5 DEF Honest
  <2>8. level >= 2 /\ level' >= 2 /\ level' # 1 /\ level' = level
    BY <1>1, <1>6
  <2> HIDE DEF caught, kept
  <2>9. /\ nested' = nested \cup kept /\ (partial' = {} => partial = {})
        /\ IF kept = {} THEN pc' = "perm" /\ UNCHANGED <<jobs, batch>> ELSE Batch(kept)
    BY <2>0 DEF kept, caught
  <2>10. CASE kept = {}
    <3>1. DnsTypes'
      BY <1>1, <1>6, <2>5, <2>6, <2>9, <2>10, DnsPlaces DEF DInv, DnsTypes
    <3>2. Placed'
      BY <1>1, <2>8, <2>9, <2>10, StageStays, NoRows DEF Placed
    <3>3. Covered'
      <4>1. Finished' = Finished
        BY <1>1, <2>9, <2>10 DEF Finished
      <4> QED BY <1>1, <1>3, <2>5, <2>6, <2>9, <2>10, <4>1, CoveredWalks, DnsPlaces DEF DInv
    <3> QED BY <1>3, <2>7, <2>9, <2>10, <3>1, <3>2, <3>3, SharedSame DEF DInv
  <2>11. CASE kept # {}
    <3>1. /\ pc' = "brute" /\ DOMAIN jobs' = kept /\ jobs' \in [DOMAIN jobs' -> Job] /\ Shared'
          /\ \A p \in kept : jobs'[p].chunk = 1 /\ jobs'[p].state = "waiting"
      BY <1>6, <2>2, <2>9, <2>11, BatchBegins
    <3>2. DnsTypes'
      BY <1>1, <1>6, <2>2, <2>5, <2>6, <3>1, DnsPlaces DEF DInv, DnsTypes
    <3>3. Placed'
      BY <1>6, <2>8, <3>1, StageStays DEF Placed
    <3>4. Covered'
      <4>1. Finished' \subseteq Finished
        BY <1>1, <2>9, <3>1, NoRows DEF Finished
      <4>2. NamesCovered'
        BY <1>1, <1>3, <2>5, <2>6, <2>9, <4>1, NamesGrow, DnsPlaces DEF DInv, Covered
      <4>3. JobsCovered'
        BY <3>1, JobsBegin
      <4> QED BY <1>1, <3>1, <4>2, <4>3, DocCoveredSame DEF DInv, Covered, OldCovered
    <3> QED BY <1>3, <2>7, <3>1, <3>2, <3>3, <3>4 DEF DInv
  <2> QED BY <2>10, <2>11
<1> QED BY <1>2, <1>4, <1>5, <1>6

(***************************************************************************)
(* The DNS module's steps in a batch.                                       *)
(***************************************************************************)
InBatch ==
  /\ InDns /\ pc \in {"brute", "expanding"}
  /\ UNCHANGED <<zone, run, pc, known, wild, suspects, level, batch, nested, partial, doc, stop>>

LEMMA BatchPlaces == {"brute", "expanding"} \subseteq Dns \cup Quiet \cup {"expanding"} /\ "brute" \in Dns
BY DEF Dns

\* A job that changes in a batch, its chunk not going back, keeps what is covered.
LEMMA JobsKept ==
  ASSUME DInv, InBatch, NEW p \in DOMAIN jobs, NEW j \in Job, jobs' = [jobs EXCEPT ![p] = j],
         failed => failed', Grows(zone, resolved, resolved'),
         j.state = "ended" => j.chunk > Len(Chunks),
         ~failed' => \A i \in DOMAIN Chunks :
                       jobs[p].chunk <= i /\ i < j.chunk => Covers(zone, p, i, resolved', wild)
  PROVE  /\ jobs' \in [DOMAIN jobs' -> Job] /\ DOMAIN jobs' = DOMAIN jobs
         /\ Placed' /\ Covered'
<1>1. /\ DOMAIN jobs' = DOMAIN jobs /\ jobs \in [DOMAIN jobs -> Job] /\ jobs'[p] = j
      /\ \A q \in DOMAIN jobs : q # p => jobs'[q] = jobs[q]
  BY DEF DInv, DnsTypes
<1>2. jobs' \in [DOMAIN jobs' -> Job]
  BY <1>1
<1>3. Placed'
  BY <1>1, StageStays DEF InBatch, DInv, Placed
<1>4. NamesCovered'
  <2>1. Finished' = Finished
    BY <1>1 DEF InBatch, Finished
  <2>2. CASE pc \in Dns
    BY <2>1, <2>2, NamesGrow DEF InBatch, DInv, Covered
  <2>3. CASE pc \notin Dns
    BY <2>3 DEF InBatch, NamesCovered
  <2> QED BY <2>2, <2>3
<1>5. OldCovered'
  BY ParentsGrow DEF InBatch, DInv, Covered, OldCovered
<1>6. JobsCovered'
  <2> SUFFICES ASSUME ~failed', NEW q \in DOMAIN jobs', NEW i \in DOMAIN Chunks, i < jobs'[q].chunk
               PROVE  Covers(zone', q, i, resolved', wild')
    BY DEF JobsCovered
  <2>1. CASE i < jobs[q].chunk
    <3>1. Covers(zone, q, i, resolved, wild)
      BY <1>1, <2>1 DEF InBatch, DInv, Covered, JobsCovered
    <3> QED BY <3>1, CoversGrow DEF InBatch
  <2>2. CASE ~(i < jobs[q].chunk)
    <3>1. q = p /\ i < j.chunk
      BY <1>1, <2>2
    <3>2. jobs[p].chunk \in Nat /\ i \in Nat
      BY <1>1, ChunkSets DEF Job
    <3> QED BY <2>2, <3>1, <3>2 DEF InBatch
  <2> QED BY <2>1, <2>2
<1> QED BY <1>1, <1>2, <1>3, <1>4, <1>5, <1>6, DocCoveredSame DEF InBatch, DInv, Covered

LEMMA TakeKeeps == ASSUME DInv, InDns, NEW p \in DOMAIN jobs, Take(p) PROVE DInv'
<1> DEFINE j == [jobs[p] EXCEPT !.state = "running"]
<1>1. /\ InBatch /\ jobs[p].state = "waiting" /\ Cardinality(Running) < batch.pool
      /\ jobs' = [jobs EXCEPT ![p] = j] /\ UNCHANGED <<files, resolved, lb, failed>>
  BY DEF Take, InBatch
<1>2. jobs[p] \in Job /\ DOMAIN jobs \subseteq Narrow /\ jobs \in [DOMAIN jobs -> Job]
  BY DEF DInv, DnsTypes
<1>3. j \in Job /\ j.state = "running" /\ j.chunk = jobs[p].chunk /\ jobs[p].chunk \in Nat
  BY <1>2 DEF Job, JobState
<1> HIDE DEF j
<1>4. Grows(zone, resolved, resolved')
  BY <1>1, GrowsSelf
<1>5. jobs' \in [DOMAIN jobs' -> Job] /\ DOMAIN jobs' = DOMAIN jobs /\ Placed' /\ Covered'
  <2>1. \A i \in DOMAIN Chunks : ~(jobs[p].chunk <= i /\ i < j.chunk)
    BY <1>3, ChunkSets
  <2> QED BY <1>1, <1>3, <1>4, <2>1, JobsKept
<1>6. DnsTypes'
  BY <1>1, <1>2, <1>5 DEF InBatch, DInv, DnsTypes
<1>7. Honest'
  BY <1>1, SameFiles DEF InBatch, DInv, Honest
<1>8. Shared'
  <2>1. Running' \subseteq Running \cup {p}
    BY <1>1, <1>2, <1>5 DEF Running
  <2>2. IsFiniteSet(Running) /\ Cardinality(Running) \in Nat
    BY FiniteJobs, FS_CardinalityType DEF DInv
  <2>3. IsFiniteSet(Running \cup {p}) /\ Cardinality(Running \cup {p}) <= Cardinality(Running) + 1
    <3>1. /\ IsFiniteSet(Running \cup {p})
          /\ Cardinality(Running \cup {p}) = IF p \in Running THEN Cardinality(Running) ELSE Cardinality(Running) + 1
      BY <2>2, FS_AddElement
    <3> QED BY <2>2, <3>1
  <2>4. /\ Cardinality(Running') <= Cardinality(Running \cup {p})
        /\ IsFiniteSet(Running') /\ Cardinality(Running') \in Nat /\ Cardinality(Running \cup {p}) \in Nat
    BY <2>1, <2>3, FS_Subset, FS_CardinalityType
  <2>5. Cardinality(Running') <= batch.pool
    BY <1>1, <2>2, <2>3, <2>4 DEF DInv, Shared
  <2> QED BY <1>1, <2>5 DEF InBatch, DInv, Shared
<1> QED BY <1>1, <1>5, <1>6, <1>7, <1>8, EngineFrame, DocFrame DEF InBatch, InDns, DInv

\* No more jobs are at work than before.
LEMMA FewerRunning ==
  ASSUME DInv, Running' \subseteq Running, UNCHANGED batch
  PROVE  Shared'
<1>1. IsFiniteSet(Running) /\ Cardinality(Running) \in Nat
  BY FiniteJobs, FS_CardinalityType DEF DInv
<1>2. Cardinality(Running') <= Cardinality(Running) /\ Cardinality(Running') \in Nat
  BY <1>1, FS_Subset, FS_CardinalityType
<1>3. Cardinality(Running') <= batch.pool
  BY <1>1, <1>2 DEF DInv, Shared
<1> QED BY <1>3 DEF DInv, Shared

LEMMA JobEndsKeeps ==
  ASSUME DInv, InBatch, NEW p \in DOMAIN jobs, NEW how \in {"ended", "paused"}, JobEnds(p, how),
         jobs[p].state = "running", how = "ended" => jobs[p].chunk > Len(Chunks), lb' \in Balance
  PROVE  DInv'
<1> DEFINE j == [jobs[p] EXCEPT !.state = how]
<1>1. jobs' = [jobs EXCEPT ![p] = j] /\ UNCHANGED <<files, resolved, failed>>
  BY DEF JobEnds
<1>2. jobs[p] \in Job /\ DOMAIN jobs \subseteq Narrow /\ jobs \in [DOMAIN jobs -> Job]
  BY DEF DInv, DnsTypes
<1>3. j \in Job /\ j.state = how /\ j.chunk = jobs[p].chunk /\ jobs[p].chunk \in Nat
  BY <1>2 DEF Job, JobState
<1> HIDE DEF j
<1>4. Grows(zone, resolved, resolved')
  BY <1>1, GrowsSelf
<1>5. jobs' \in [DOMAIN jobs' -> Job] /\ DOMAIN jobs' = DOMAIN jobs /\ Placed' /\ Covered'
  <2>1. \A i \in DOMAIN Chunks : ~(jobs[p].chunk <= i /\ i < j.chunk)
    BY <1>3, ChunkSets
  <2> QED BY <1>1, <1>3, <1>4, <2>1, JobsKept
<1>6. DnsTypes'
  BY <1>1, <1>2, <1>5 DEF InBatch, DInv, DnsTypes
<1>7. Honest'
  BY <1>1, SameFiles DEF InBatch, DInv, Honest
<1>8. Shared'
  <2>1. Running' \subseteq Running
    BY <1>1, <1>2, <1>3, <1>5 DEF Running
  <2> QED BY <2>1, FewerRunning DEF InBatch
<1> QED BY <1>1, <1>5, <1>6, <1>7, <1>8, EngineFrame, DocFrame DEF InBatch, InDns, DInv

\* A chunk that was answered whole leaves each of its words with a real address.
LEMMA ChunkCovered ==
  ASSUME DInv, NEW p, NEW i \in DOMAIN Chunks, NEW answers,
         answers = {n \in Asks(p, i) : AnswerIn(zone, n) # {}}
  PROVE  Covers(zone, p, i, Merged(resolved, Kept(answers, "brute"), "brute"), wild)
<1> DEFINE kept == Kept(answers, "brute")
           m == Merged(resolved, kept, "brute")
<1>1. kept \subseteq DOMAIN m /\ \A h \in kept : m[h].ips = AnswerIn(zone, h)
  <2>1. Truthful(zone, resolved)
    BY DEF DInv, Honest
  <2> HIDE DEF kept
  <2>2. DOMAIN m = DOMAIN resolved \cup kept
    BY <2>1, MergedRows
  <2>3. ASSUME NEW h \in kept PROVE m[h].ips = AnswerIn(zone, h)
    BY <2>1, MergedAnswer
  <2> QED BY <2>2, <2>3
<1>2. ASSUME NEW l \in Chunks[i], Child(p, l) \in InScope, AnswerIn(zone, Child(p, l)) # {},
             ~WildcardOnly(AnswerIn(zone, Child(p, l)), wild)
      PROVE  Child(p, l) \in kept
  <2>1. Child(p, l) \in answers
    BY <1>2 DEF Asks
  <2> QED BY <1>2, <2>1, AnswerIs DEF Kept, Keep
<1> HIDE DEF kept, m
<1>3. Covers(zone, p, i, m, wild)
  BY <1>1, <1>2 DEF Covers, Holds
<1> QED BY <1>3 DEF m, kept

LEMMA ChunkAsks ==
  ASSUME DInv, InBatch, NEW p \in DOMAIN jobs, jobs[p].state = "running",
         jobs[p].chunk \in DOMAIN Chunks, lb' \in Balance,
         NEW o \in Asked(<<"brute", p, jobs[p].chunk>>, Answering({Child(p, l) : l \in Chunks[jobs[p].chunk]})),
         Keeps(<<"brute", p, jobs[p].chunk>>, o),
         resolved' = Merged(resolved, Kept(o.file.rows, "brute"), "brute"),
         jobs' = [jobs EXCEPT ![p].chunk = jobs[p].chunk + 1]
  PROVE  DInv'
<1> DEFINE i == jobs[p].chunk
           path == <<"brute", p, i>>
           answers == Answering({Child(p, l) : l \in Chunks[i]})
           j == [jobs[p] EXCEPT !.chunk = i + 1]
           kept == Kept(o.file.rows, "brute")
<1>1. p \in Narrow /\ p \in Name /\ path \in Path /\ jobs[p] \in Job /\ jobs \in [DOMAIN jobs -> Job]
  BY Paths DEF DInv, DnsTypes, Narrow
<1>2. answers = {n \in Asks(p, i) : AnswerIn(zone, n) # {}}
  BY AnswerIs DEF Answering, Asks
<1>3. answers \in SUBSET Name
  BY <1>1, <1>2, ChildName, ChunkSets DEF Asks
<1>4. /\ o.file \in File /\ o.failed \in BOOLEAN
      /\ files[path].done => o.file = files[path] /\ ~o.failed
      /\ ~files[path].done => /\ o.file.done => o.file.rows = answers
                              /\ ~o.failed => o.file.rows = answers
  <2> HIDE DEF path, answers
  <2> QED BY <1>1, <1>3, AskedFile DEF DInv, DnsTypes, path, answers, i
<1>5. files' \in [Path -> File] /\ failed' \in BOOLEAN /\ (failed => failed') /\ (o.failed => failed')
  BY <1>1, <1>4, KeepsFile DEF DInv, DnsTypes
<1>6. files[path].done => files[path].rows = answers
  BY <1>1, <1>2 DEF DInv, Honest, MarkedWhole
<1>7. ~o.failed => o.file.rows = answers
  BY <1>4, <1>6
<1>8. MarkedWhole'
  <2> SUFFICES ASSUME NEW q \in Name, NEW k \in DOMAIN Chunks, files'[<<"brute", q, k>>].done
               PROVE  files'[<<"brute", q, k>>].rows = {n \in Asks(q, k) : AnswerIn(zone, n) # {}}
    BY DEF InBatch, MarkedWhole
  <2>1. files' = [files EXCEPT ![path] = o.file] /\ <<"brute", q, k>> \in Path
    BY Paths DEF Keeps
  <2>2. CASE q = p /\ k = i
    <3>1. files'[path] = o.file
      BY <1>1, <2>1 DEF DInv, DnsTypes
    <3> QED BY <1>2, <1>4, <1>6, <2>2, <3>1
  <2>3. CASE ~(q = p /\ k = i)
    <3>1. <<"brute", q, k>> # path
      BY <2>3
    <3>2. files'[<<"brute", q, k>>] = files[<<"brute", q, k>>]
      BY <2>1, <3>1 DEF DInv, DnsTypes
    <3> QED BY <3>2 DEF DInv, Honest, MarkedWhole
  <2> QED BY <2>2, <2>3
<1>9. Truthful(zone, resolved) /\ IsStore(resolved) /\ kept \in SUBSET Name /\ zone \in Zones
  BY DnsStore DEF DInv, DnsTypes, Honest, Kept, InScope
<1>10. Grows(zone, resolved, resolved') /\ Truthful(zone, resolved') /\ IsStore(resolved')
  <2> HIDE DEF kept
  <2> QED BY <1>9, MergedRows, MergedTyped DEF kept
<1>11. jobs' = [jobs EXCEPT ![p] = j]
  BY <1>1
<1>12. j \in Job /\ j.state = "running" /\ j.chunk = i + 1 /\ i \in Nat
  BY <1>1, ChunkSets DEF Job
<1>13. ~failed' => Covers(zone, p, i, resolved', wild)
  <2> SUFFICES ASSUME ~failed' PROVE Covers(zone, p, i, resolved', wild)
    OBVIOUS
  <2>1. o.file.rows = answers
    BY <1>4, <1>5, <1>7
  <2> QED BY <1>2, <2>1, ChunkCovered
<1>14. \A k \in DOMAIN Chunks : i <= k /\ k < j.chunk => k = i
  BY <1>12, ChunkSets
<1> HIDE DEF j
<1>15. jobs' \in [DOMAIN jobs' -> Job] /\ DOMAIN jobs' = DOMAIN jobs /\ Placed' /\ Covered'
  BY <1>5, <1>10, <1>11, <1>12, <1>13, <1>14, JobsKept
<1>16. DnsTypes'
  BY <1>5, <1>10, <1>15 DEF InBatch, DInv, DnsTypes, IsStore
<1>17. Honest'
  BY <1>8, <1>10 DEF InBatch, DInv, Honest
<1>18. Shared'
  <2>1. Running' \subseteq Running
    BY <1>1, <1>11, <1>12, <1>15 DEF Running
  <2> QED BY <2>1, FewerRunning DEF InBatch
<1> QED BY <1>15, <1>16, <1>17, <1>18, EngineFrame, DocFrame DEF InBatch, InDns, DInv

LEMMA ChunkKeeps == ASSUME DInv, InDns, NEW p \in DOMAIN jobs, Chunk(p) PROVE DInv'
<1> DEFINE i == jobs[p].chunk
<1>1. InBatch /\ jobs[p].state = "running"
  BY DEF Chunk, InBatch
<1>2. i \in Nat \ {0} /\ lb \in Balance
  BY DEF DInv, DnsTypes, Job
<1>3. CASE i > Len(Chunks)
  <2>1. JobEnds(p, "ended") /\ lb' = lb
    BY <1>3 DEF Chunk
  <2> QED BY <1>1, <1>2, <1>3, <2>1, JobEndsKeeps
<1>4. CASE ~(i > Len(Chunks)) /\ stop
  <2>1. JobEnds(p, "paused") /\ lb' = lb
    BY <1>4 DEF Chunk, HaltedAs
  <2> QED BY <1>1, <1>2, <2>1, JobEndsKeeps
<1>5. CASE ~(i > Len(Chunks)) /\ ~stop
  <2>1. PICK b \in Ticks(lb) :
          /\ lb' = b
          /\ IF b.paused THEN JobEnds(p, HaltedAs)
             ELSE \E o \in Asked(<<"brute", p, i>>, Answering({Child(p, l) : l \in Chunks[i]})) :
                  /\ Keeps(<<"brute", p, i>>, o)
                  /\ resolved' = Merged(resolved, Kept(o.file.rows, "brute"), "brute")
                  /\ jobs' = [jobs EXCEPT ![p].chunk = i + 1]
    BY <1>5 DEF Chunk
  <2>2. lb' \in Balance /\ i \in DOMAIN Chunks
    BY <1>2, <1>5, <2>1, TicksTyped, ChunkSets
  <2>3. CASE b.paused
    BY <1>1, <2>1, <2>2, <2>3, JobEndsKeeps DEF HaltedAs
  <2>4. CASE ~b.paused
    BY <1>1, <2>1, <2>2, <2>4, ChunkAsks
  <2> QED BY <2>3, <2>4
<1> QED BY <1>3, <1>4, <1>5

\* A batch that is over and none of whose jobs was paused has asked every word.
LEMMA BatchAsked ==
  ASSUME DInv, BatchOver, ~BatchPaused, pc \in {"brute", "expanding"}, ~failed
  PROVE  CoversParents(zone, DOMAIN jobs, resolved, wild)
<1> SUFFICES ASSUME NEW p \in DOMAIN jobs, NEW i \in DOMAIN Chunks PROVE Covers(zone, p, i, resolved, wild)
  BY DEF CoversParents, CoversAll
<1>1. jobs[p].state = "ended"
  BY DEF BatchOver
<1>2. jobs[p].chunk > Len(Chunks) /\ jobs[p].chunk \in Nat
  BY <1>1 DEF DInv, Placed, DnsTypes, Job
<1>3. i < jobs[p].chunk
  BY <1>2, ChunkSets
<1> QED BY <1>3 DEF DInv, Covered, JobsCovered

LEMMA BruteEndsKeeps == ASSUME DInv, InDns, BruteEnds PROVE DInv'
<1>1. /\ pc = "brute" /\ BatchOver /\ jobs' = <<>> /\ level \in 1..ReconDepth /\ ReconDepth \in Nat
      /\ UNCHANGED <<zone, files, run, known, resolved, wild, suspects, batch, nested, lb, doc, stop, failed>>
  BY HostsAssumption DEF BruteEnds, DInv, Placed, DnsTypes
<1>2. \/ pc' = "perm" /\ partial' # {} /\ level' = level
      \/ pc' = "level" /\ partial' = partial /\ level' = level + 1 /\ ~BatchPaused
  BY DEF BruteEnds
<1>3. DnsTypes'
  <2>1. level' \in 1..(ReconDepth + 1)
    BY <1>1, <1>2
  <2>2. jobs' \in [DOMAIN jobs' -> Job] /\ DOMAIN jobs' \subseteq Narrow
    BY <1>1, NoRows
  <2> QED BY <1>1, <1>2, <2>1, <2>2, DnsPlaces DEF DInv, DnsTypes
<1>4. Placed'
  BY <1>1, <1>2, StageStays, NoRows DEF Placed
<1>5. Shared'
  BY <1>1, SharedIdle DEF DInv
<1>6. Honest'
  BY <1>1, SameFiles DEF DInv, Honest
<1>7. NamesCovered'
  <2> SUFFICES ASSUME partial' = {}, ~failed' PROVE CoversParents(zone, Finished', resolved, wild)
    BY <1>1 DEF NamesCovered
  <2>1. partial = {} /\ ~failed /\ level' = level + 1 /\ ~BatchPaused
    BY <1>1, <1>2
  <2>2. CoversParents(zone, DOMAIN jobs, resolved, wild)
    BY <1>1, <2>1, BatchAsked
  <2>3. CoversParents(zone, Finished, resolved, wild)
    BY <1>1, <2>1, DnsPlaces DEF DInv, Covered, NamesCovered
  <2>4. Finished' \subseteq Finished \cup DOMAIN jobs
    <3>1. level = 1 => Apex \in DOMAIN jobs
      BY <1>1 DEF DInv, Placed
    <3>2. level # 1 => level >= 2
      BY <1>1
    <3> QED BY <1>1, <3>1, <3>2 DEF Finished
  <2> QED BY <2>2, <2>3, <2>4 DEF CoversParents
<1>8. Covered'
  BY <1>1, <1>2, <1>7, DocCoveredSame DEF DInv, Covered, OldCovered, JobsCovered
<1> QED BY <1>1, <1>3, <1>4, <1>5, <1>6, <1>8, EngineFrame, DocFrame DEF InDns, DInv

(***************************************************************************)
(* Permutations, the last resolution, the document.                         *)
(***************************************************************************)
LEMMA WalkKeeps ==
  ASSUME DInv, InDns, pc \in {"perm", "permute", "resolve"}, pc' \in {"permute", "resolve", "write"},
         UNCHANGED <<zone, run, known, wild, level, jobs, batch, nested, doc, stop>>,
         lb' \in Balance, files' \in [Path -> File], failed' \in BOOLEAN, failed => failed', MarkedWhole',
         partial' = {} => partial = {}, suspects' \subseteq Name,
         IsStore(resolved'), Truthful(zone, resolved'), Grows(zone, resolved, resolved')
  PROVE  DInv'
<1>1. jobs = <<>>
  BY DEF DInv, Placed
<1>2. DnsTypes'
  BY DnsPlaces DEF DInv, DnsTypes, IsStore
<1>3. Placed'
  BY StageStays DEF DInv, Placed
<1>4. Honest'
  BY DEF DInv, Honest
<1>5. Covered'
  <2>1. Finished' = Finished
    BY DEF Finished
  <2>2. pc \in Dns /\ pc' \in Dns \ {"brute"}
    BY DnsPlaces
  <2> QED BY <2>1, <2>2, CoveredWalks DEF DInv
<1> QED BY <1>2, <1>3, <1>4, <1>5, EngineFrame, DocFrame, SharedSame DEF InDns, DInv

LEMMA PermuteKeeps == ASSUME DInv, InDns, NEW flagged, Permute(flagged) PROVE DInv'
<1>1. /\ pc = "perm" /\ jobs = <<>>
      /\ UNCHANGED <<zone, files, run, known, resolved, wild, suspects, level, jobs, batch, nested, doc, stop, failed>>
  BY DEF Permute, DInv, Placed
<1>2. lb' \in Balance /\ (partial' = partial \/ partial' = partial \cup {PausedPartial})
      /\ pc' \in {"resolve", "raised", "permute"}
  BY TicksTyped DEF Permute, DInv, DnsTypes
<1>3. CASE pc' = "raised"
  <2>1. DnsTypes'
    BY <1>1, <1>2, <1>3 DEF DInv, DnsTypes, Quiet
  <2>2. Placed'
    BY <1>1, <1>3, StageStays, NoRows DEF Placed
  <2>3. Honest'
    BY <1>1, SameFiles DEF DInv, Honest
  <2>4. Covered'
    BY <1>1, <1>3, CoveredQuiet DEF Quiet, DInv
  <2> QED BY <1>1, <2>1, <2>2, <2>3, <2>4, EngineFrame, DocFrame, SharedSame DEF InDns, DInv
<1>4. CASE pc' # "raised"
  <2>1. IsStore(resolved') /\ Truthful(zone, resolved') /\ Grows(zone, resolved, resolved')
    BY <1>1, DnsStore, GrowsSelf DEF DInv, Honest
  <2>2. files' \in [Path -> File] /\ failed' \in BOOLEAN /\ suspects' \subseteq Name /\ MarkedWhole'
    BY <1>1, SameFiles DEF DInv, DnsTypes, Honest
  <2> QED BY <1>1, <1>2, <1>4, <2>1, <2>2, WalkKeeps
<1> QED BY <1>3, <1>4

LEMMA PermutedKeeps == ASSUME DInv, InDns, NEW flagged, Permuted(flagged) PROVE DInv'
<1> DEFINE names == Answering(CappedPerms(flagged))
<1>1. /\ pc = "permute" /\ pc' = "resolve"
      /\ UNCHANGED <<zone, run, known, wild, suspects, level, jobs, batch, nested, doc, stop>>
  BY DEF Permuted
<1>2. names \in SUBSET Name
  BY DEF Answering, CappedPerms, First, InScope
<1>3. /\ lb' \in Balance /\ (partial' = partial \/ partial' = partial \cup {PausedPartial})
      /\ \/ UNCHANGED <<files, failed, resolved>>
         \/ \E o \in Asked(<<"perm">>, names) :
              /\ Keeps(<<"perm">>, o)
              /\ resolved' = Merged(resolved, Kept(o.file.rows, "perm"), "perm")
  <2>1. CASE CappedPerms(flagged) = {}
    BY <2>1 DEF Permuted, DInv, DnsTypes
  <2>2. CASE CappedPerms(flagged) # {}
    <3>1. PICK b \in Ticks(lb) :
            /\ lb' = b
            /\ IF b.paused
               THEN /\ partial' = partial \cup {PausedPartial}
                    /\ UNCHANGED <<files, failed, sources, resolved>>
               ELSE \E o \in Asked(<<"perm">>, names) :
                    /\ Keeps(<<"perm">>, o)
                    /\ resolved' = Merged(resolved, Kept(o.file.rows, "perm"), "perm")
                    /\ UNCHANGED partial
      BY <2>2 DEF Permuted
    <3>2. lb' \in Balance
      BY <3>1, TicksTyped DEF DInv, DnsTypes
    <3> HIDE DEF names
    <3>3. CASE b.paused
      BY <3>1, <3>2, <3>3
    <3>4. CASE ~b.paused
      BY <3>1, <3>2, <3>4
    <3> QED BY <3>3, <3>4
  <2> QED BY <2>1, <2>2
<1> HIDE DEF names
<1>4. suspects' \subseteq Name
  BY <1>1 DEF DInv, DnsTypes
<1>5. CASE UNCHANGED <<files, failed, resolved>>
  <2>1. IsStore(resolved') /\ Truthful(zone, resolved') /\ Grows(zone, resolved, resolved')
    BY <1>5, DnsStore, GrowsSelf DEF DInv, Honest
  <2>2. files' \in [Path -> File] /\ failed' \in BOOLEAN /\ MarkedWhole'
    BY <1>1, <1>5, SameFiles DEF DInv, DnsTypes, Honest
  <2> QED BY <1>1, <1>3, <1>4, <1>5, <2>1, <2>2, WalkKeeps
<1>6. ASSUME NEW o \in Asked(<<"perm">>, names), Keeps(<<"perm">>, o),
             resolved' = Merged(resolved, Kept(o.file.rows, "perm"), "perm")
      PROVE  DInv'
  <2> DEFINE kept == Kept(o.file.rows, "perm")
  <2>1. /\ files' \in [Path -> File] /\ failed' \in BOOLEAN /\ (failed => failed') /\ MarkedWhole'
    BY <1>1, <1>2, <1>6, FileOther
  <2>2. Truthful(zone, resolved) /\ IsStore(resolved) /\ kept \in SUBSET Name /\ zone \in Zones
    BY DnsStore DEF DInv, DnsTypes, Honest, Kept, InScope
  <2>3. Grows(zone, resolved, resolved') /\ Truthful(zone, resolved') /\ IsStore(resolved')
    <3> HIDE DEF kept
    <3> QED BY <1>6, <2>2, MergedRows, MergedTyped DEF kept
  <2> QED BY <1>1, <1>3, <1>4, <2>1, <2>3, WalkKeeps
<1> QED BY <1>3, <1>5, <1>6

LEMMA GrowsOn ==
  ASSUME NEW z, NEW r, NEW s, NEW t, Grows(z, r, s), Grows(z, s, t)
  PROVE  Grows(z, r, t)
BY DEF Grows

\* What resolving everything known once more makes of the rows.
LEMMA MergedKnownRows ==
  ASSUME NEW store, IsStore(store), Truthful(zone, store), NEW hosts \in SUBSET Name, zone \in Zones
  PROVE  LET m == MergedKnown(store, hosts)
         IN  IsStore(m) /\ Truthful(zone, m) /\ Grows(zone, store, m)
<1> DEFINE a == hosts \ DOMAIN store
           b == hosts \cap DOMAIN store
           m == Merged(store, a, "known")
           n == Merged(m, b, "known")
<1>1. a \in SUBSET Name /\ b \in SUBSET Name
  OBVIOUS
<1> HIDE DEF a, b
<1>2. IsStore(m) /\ Truthful(zone, m) /\ Grows(zone, store, m)
  BY <1>1, MergedRows, MergedTyped
<1> HIDE DEF m
<1>3. IsStore(n) /\ Truthful(zone, n) /\ Grows(zone, m, n)
  BY <1>1, <1>2, MergedRows, MergedTyped
<1>4. MergedKnown(store, hosts) = n
  BY DEF MergedKnown, n, m, a, b
<1> HIDE DEF n
<1>5. Grows(zone, store, n)
  BY <1>2, <1>3, GrowsOn
<1> QED BY <1>3, <1>4, <1>5

LEMMA ResolveKeeps == ASSUME DInv, InDns, ResolveAll PROVE DInv'
<1> DEFINE hosts == known \cup DOMAIN resolved \cup {Apex}
           path == <<"resolve">>
<1>1. /\ pc = "resolve" /\ pc' = "write"
      /\ UNCHANGED <<zone, run, known, wild, level, jobs, batch, nested, doc, stop>>
  BY DEF ResolveAll
<1>2. PICK b \in Ticks(lb) :
        /\ lb' = b
        /\ IF b.paused
           THEN /\ partial' = partial \cup {PausedPartial}
                /\ resolved' = WithUnresolved(resolved, hosts)
                /\ UNCHANGED <<files, failed, sources, suspects>>
           ELSE \E o \in Asked(path, Answering(hosts)) :
                /\ Keeps(path, o)
                /\ resolved' = WithUnresolved(MergedKnown(resolved, o.file.rows \cap hosts), hosts)
                /\ suspects' = {h \in hosts : resolved'[h].ips \cap wild # {}}
                /\ UNCHANGED partial
  BY DEF ResolveAll
<1>3. hosts \in SUBSET Name /\ Answering(hosts) \in SUBSET Name
  BY ApexName DEF DInv, DnsTypes, Answering
<1>4. lb' \in Balance
  BY <1>2, TicksTyped DEF DInv, DnsTypes
<1>5. IsStore(resolved) /\ Truthful(zone, resolved) /\ zone \in Zones
  BY DnsStore DEF DInv, Honest, DnsTypes
<1> HIDE DEF hosts, path
<1>6. CASE b.paused
  <2>1. IsStore(resolved') /\ Truthful(zone, resolved') /\ Grows(zone, resolved, resolved')
    <3>1. resolved' = WithUnresolved(resolved, hosts)
      BY <1>2, <1>6
    <3>2. IsStore(resolved')
      BY <1>3, <1>5, <3>1, UnresolvedTyped
    <3>3. Grows(zone, resolved, resolved') /\ Truthful(zone, resolved')
      BY <1>5, <3>1, UnresolvedRows
    <3> QED BY <3>2, <3>3
  <2>2. files' \in [Path -> File] /\ failed' \in BOOLEAN /\ suspects' \subseteq Name /\ MarkedWhole'
        /\ (failed => failed')
    BY <1>1, <1>2, <1>6, SameFiles DEF DInv, DnsTypes, Honest
  <2>3. partial' = {} => partial = {}
    BY <1>2, <1>6
  <2> QED BY <1>1, <1>4, <2>1, <2>2, <2>3, WalkKeeps
<1>7. CASE ~b.paused
  <2>1. PICK o \in Asked(path, Answering(hosts)) :
          /\ Keeps(path, o)
          /\ resolved' = WithUnresolved(MergedKnown(resolved, o.file.rows \cap hosts), hosts)
          /\ suspects' = {h \in hosts : resolved'[h].ips \cap wild # {}}
          /\ UNCHANGED partial
    BY <1>2, <1>7
  <2>2. files' \in [Path -> File] /\ failed' \in BOOLEAN /\ (failed => failed') /\ MarkedWhole'
    BY <1>1, <1>3, <2>1, FileOther DEF path
  <2> DEFINE m == MergedKnown(resolved, o.file.rows \cap hosts)
  <2>3. IsStore(m) /\ Truthful(zone, m) /\ Grows(zone, resolved, m)
    <3>1. o.file.rows \cap hosts \in SUBSET Name
      BY <1>3
    <3> QED BY <1>5, <3>1, MergedKnownRows
  <2> HIDE DEF m
  <2>4. IsStore(resolved') /\ Truthful(zone, resolved') /\ Grows(zone, m, resolved')
    BY <1>3, <2>1, <2>3, UnresolvedRows, UnresolvedTyped DEF m
  <2>5. Grows(zone, resolved, resolved')
    BY <2>3, <2>4, GrowsOn
  <2>6. suspects' \subseteq Name
    BY <1>3, <2>1
  <2> QED BY <1>1, <1>4, <2>1, <2>2, <2>4, <2>5, <2>6, WalkKeeps
<1> QED BY <1>6, <1>7

LEMMA WriteKeeps == ASSUME DInv, InDns, WriteDoc PROVE DInv'
<1> DEFINE kept == {h \in DOMAIN resolved :
                      Keep(h, resolved[h].ips, wild, resolved[h].source, known \cup {Apex})}
<1>1. /\ pc = "write" /\ pc' = "written" /\ jobs = <<>>
      /\ UNCHANGED <<zone, files, run, known, resolved, wild, suspects, level, jobs, batch, nested,
                     partial, lb, stop, failed>>
  BY DEF WriteDoc, DInv, Placed
<1>2. doc' = [rows |-> Restrict(resolved, kept), wild |-> wild,
              suspects |-> suspects \cup (DOMAIN resolved \ kept), nested |-> nested,
              caught |-> wild, whole |-> partial = {} /\ ~failed, run |-> run]
  BY DEF WriteDoc
<1>3. /\ DOMAIN Restrict(resolved, kept) = kept /\ kept \subseteq DOMAIN resolved
      /\ \A h \in kept : Restrict(resolved, kept)[h] = resolved[h]
      /\ Restrict(resolved, kept) = [h \in kept |-> resolved[h]]
  BY DEF Restrict
<1>4. DnsTypes'
  BY <1>1 DEF DInv, DnsTypes, Quiet
<1>5. DocTypes'
  <2>1. Restrict(resolved, kept) \in [kept -> Row] /\ kept \subseteq Name
    BY <1>3 DEF DInv, DnsTypes
  <2>2. (partial = {} /\ ~failed) \in BOOLEAN
    BY Zenon
  <2> HIDE DEF kept
  <2>3. doc'.rows \in [DOMAIN doc'.rows -> Row] /\ DOMAIN doc'.rows \subseteq Name
    BY <1>2, <1>3, <2>1
  <2> QED BY <1>2, <2>2, <2>3 DEF DInv, DnsTypes, DocTypes
<1>6. Placed'
  BY <1>1, StageStays, NoRows DEF Placed
<1>7. Honest'
  <2> HIDE DEF kept
  <2>1. Truthful(zone, doc'.rows)
    BY <1>2, <1>3 DEF DInv, Honest, Truthful
  <2> QED BY <1>1, <2>1, SameFiles DEF DInv, Honest
<1>8. Covered'
  <2>1. DocCovered'
    <3> SUFFICES ASSUME partial = {}, ~failed
                 PROVE  CoversParents(zone, nested \cup {Apex}, Restrict(resolved, kept), wild)
      BY <1>1, <1>2 DEF DocCovered
    <3>1. level >= 2
      BY <1>1 DEF DInv, Placed
    <3>2. Finished = nested \cup {Apex}
      BY <1>1, <3>1, NoRows DEF Finished
    <3>3. CoversParents(zone, nested \cup {Apex}, resolved, wild)
      BY <1>1, <3>2, DnsPlaces DEF DInv, Covered, NamesCovered
    <3>4. ASSUME NEW n, Holds(zone, n, resolved, wild) PROVE Holds(zone, n, Restrict(resolved, kept), wild)
      <4> SUFFICES ASSUME n \in DOMAIN resolved, resolved[n].ips = AnswerIn(zone, n), AnswerIn(zone, n) # {},
                          ~WildcardOnly(AnswerIn(zone, n), wild)
                   PROVE  n \in kept
        BY <1>3, <3>4 DEF Holds
      <4> QED BY DEF Keep
    <3> HIDE DEF kept
    <3> QED BY <3>3, <3>4 DEF CoversParents, CoversAll, Covers
  <2> QED BY <1>1, <2>1 DEF Covered, OldCovered, NamesCovered, JobsCovered, Dns
<1> QED BY <1>1, <1>4, <1>5, <1>6, <1>7, <1>8, EngineFrame, SharedSame DEF InDns, DInv

(***************************************************************************)
(* The second DNS pass.                                                     *)
(***************************************************************************)
LEMMA DrivenNarrow ==
  ASSUME DInv
  PROVE  VhostDrivenParents(doc.rows, FfufNames, doc.nested, doc.suspects) \in SUBSET Narrow
<1> DEFINE parents == VhostDrivenParents(doc.rows, FfufNames, doc.nested, doc.suspects)
<1>1. ASSUME NEW h \in parents PROVE h \in FfufNames \cup DOMAIN doc.rows /\ Len(h) \in 1..(ReconDepth - 1)
  BY DEF VhostDrivenParents, First
<1>2. FfufNames \subseteq Name /\ DOMAIN doc.rows \subseteq Name
  BY DEF DInv, EngineTypes, DocTypes, FfufNames
<1>3. ASSUME NEW h \in parents PROVE h \in Narrow
  <2>1. h \in Name /\ Len(h) < ReconDepth
    BY <1>1, <1>2, HostsAssumption
  <2> QED BY <2>1 DEF Narrow
<1> QED BY <1>3

LEMMA ExpandKeeps == ASSUME DInv, InDns, Expand(FfufNames) PROVE DInv'
<1> DEFINE parents == VhostDrivenParents(doc.rows, FfufNames, doc.nested, doc.suspects)
           path == <<"probe", 0>>
           brute(kept) == /\ jobs' = [p \in kept |-> [chunk |-> 1, state |-> "waiting"]]
                          /\ batch' = [live |-> QpsMax, qps |-> QpsMax, pool |-> 1]
                          /\ pc' = "expanding"
<1>1. /\ pc = "expand" /\ jobs = <<>> /\ resolved' = doc.rows /\ nested' = doc.nested /\ partial' = {}
      /\ UNCHANGED <<zone, run, known, level, doc, stop>>
  BY DEF Expand, DInv, Placed
<1>2. parents \in SUBSET Narrow /\ parents \in SUBSET Name
  BY DrivenNarrow DEF Narrow
<1>3. \/ pc' = "unexpanded" /\ UNCHANGED <<files, failed, wild, suspects, lb, jobs, batch>>
      \/ \E b \in Ticks(NewBalance) :
           /\ lb' = b
           /\ IF b.paused
              THEN brute(parents) /\ wild' = doc.wild /\ suspects' = doc.suspects
                   /\ UNCHANGED <<files, failed, sources>>
              ELSE \E o \in Asked(path, ProbeRows(parents)) :
                   LET caught == CatchAlls(path, o)
                   IN  /\ Keeps(path, o)
                       /\ wild' = doc.wild \cup CatchAllIps(caught)
                       /\ suspects' = doc.suspects \cup caught
                       /\ IF parents \subseteq caught
                          THEN pc' = "unexpanded" /\ UNCHANGED <<jobs, batch>>
                          ELSE brute(parents \ caught)
  <2>1. CASE ReconDepth <= 1 \/ doc.run = 0 \/ parents = {}
    BY <2>1 DEF Expand
  <2>2. CASE ~(ReconDepth <= 1 \/ doc.run = 0 \/ parents = {})
    BY <2>2 DEF Expand
  <2> QED BY <2>1, <2>2
<1> HIDE DEF parents, path
<1>4. /\ IsStore(resolved') /\ Truthful(zone', resolved') /\ Truthful(zone', doc'.rows)
      /\ nested' \subseteq Name /\ doc.wild \subseteq IP /\ doc.suspects \subseteq Name
      /\ doc.caught \subseteq doc.wild
  BY <1>1, DocStore DEF DInv, Honest, DocTypes
<1>5. path \in {<<"probe", t>> : t \in 0..ReconDepth} /\ path \in Path
  BY Paths, HostsAssumption DEF path
<1>6. ProbeRows(parents) \in SUBSET Name
  BY <1>2 DEF ProbeRows
<1>7. /\ \/ pc' = "unexpanded" /\ UNCHANGED <<jobs, batch>>
         \/ \E kept \in SUBSET parents : brute(kept) /\ doc.wild \subseteq wild'
      /\ lb' \in Balance /\ files' \in [Path -> File] /\ failed' \in BOOLEAN /\ MarkedWhole'
      /\ wild' \subseteq IP /\ suspects' \subseteq Name
  <2>1. CASE pc' = "unexpanded" /\ UNCHANGED <<files, failed, wild, suspects, lb, jobs, batch>>
    BY <1>1, <2>1, SameFiles DEF DInv, DnsTypes, Honest
  <2>2. ASSUME NEW b \in Ticks(NewBalance), lb' = b, b.paused,
               brute(parents), wild' = doc.wild, suspects' = doc.suspects, UNCHANGED <<files, failed>>
        PROVE  /\ \E kept \in SUBSET parents : brute(kept) /\ doc.wild \subseteq wild'
               /\ lb' \in Balance /\ files' \in [Path -> File] /\ failed' \in BOOLEAN /\ MarkedWhole'
               /\ wild' \subseteq IP /\ suspects' \subseteq Name
    <3>1. lb' \in Balance
      BY <2>2, NewBalanceTyped, TicksTyped
    <3>2. files' \in [Path -> File] /\ failed' \in BOOLEAN /\ MarkedWhole'
      BY <1>1, <2>2, SameFiles DEF DInv, DnsTypes, Honest
    <3>3. \E kept \in SUBSET parents : brute(kept) /\ doc.wild \subseteq wild'
      BY <2>2
    <3> QED BY <1>4, <2>2, <3>1, <3>2, <3>3
  <2>3. ASSUME NEW b \in Ticks(NewBalance), lb' = b,
               NEW o \in Asked(path, ProbeRows(parents)),
               LET caught == CatchAlls(path, o)
               IN  /\ Keeps(path, o)
                   /\ wild' = doc.wild \cup CatchAllIps(caught)
                   /\ suspects' = doc.suspects \cup caught
                   /\ IF parents \subseteq caught
                      THEN pc' = "unexpanded" /\ UNCHANGED <<jobs, batch>>
                      ELSE brute(parents \ caught)
        PROVE  /\ \/ pc' = "unexpanded" /\ UNCHANGED <<jobs, batch>>
                  \/ \E kept \in SUBSET parents : brute(kept) /\ doc.wild \subseteq wild'
               /\ lb' \in Balance /\ files' \in [Path -> File] /\ failed' \in BOOLEAN /\ MarkedWhole'
               /\ wild' \subseteq IP /\ suspects' \subseteq Name
    <3> DEFINE caught == CatchAlls(path, o)
    <3>1. lb' \in Balance
      BY <2>3, NewBalanceTyped, TicksTyped
    <3>2. files' \in [Path -> File] /\ failed' \in BOOLEAN /\ MarkedWhole'
      BY <1>1, <1>5, <1>6, <2>3, FileOther
    <3>3. caught \subseteq parents /\ CatchAllIps(caught) \subseteq IP
      BY <1>2, <1>5, ProbedIps DEF DInv, DnsTypes
    <3>4. /\ wild' = doc.wild \cup CatchAllIps(caught) /\ suspects' = doc.suspects \cup caught
          /\ IF parents \subseteq caught
             THEN pc' = "unexpanded" /\ UNCHANGED <<jobs, batch>>
             ELSE brute(parents \ caught)
      BY <2>3
    <3> HIDE DEF caught
    <3>5. wild' \subseteq IP /\ doc.wild \subseteq wild' /\ suspects' \subseteq Name
      BY <1>2, <1>4, <3>3, <3>4
    <3>6. CASE parents \subseteq caught
      BY <3>1, <3>2, <3>4, <3>5, <3>6
    <3>7. CASE ~(parents \subseteq caught)
      <4>1. brute(parents \ caught) /\ parents \ caught \in SUBSET parents
        BY <3>4, <3>7
      <4> QED BY <3>1, <3>2, <3>5, <4>1
    <3> QED BY <3>6, <3>7
  <2> HIDE DEF brute
  <2> QED BY <1>3, <2>1, <2>2, <2>3
<1>8. Honest'
  BY <1>4, <1>7 DEF Honest
<1>9. CASE pc' = "unexpanded" /\ UNCHANGED <<jobs, batch>>
  <2>1. DnsTypes'
    BY <1>1, <1>4, <1>7, <1>9 DEF DInv, DnsTypes, Quiet, IsStore
  <2>2. Placed'
    BY <1>1, <1>9, StageStays, NoRows DEF Placed
  <2>3. Covered'
    BY <1>1, <1>9, CoveredQuiet DEF Quiet, DInv
  <2> QED BY <1>1, <1>8, <1>9, <2>1, <2>2, <2>3, EngineFrame, DocFrame, SharedSame DEF InDns, DInv
<1>10. ASSUME NEW kept \in SUBSET parents, brute(kept), doc.wild \subseteq wild' PROVE DInv'
  <2>1. /\ DOMAIN jobs' = kept /\ pc' = "expanding"
        /\ \A p \in kept : jobs'[p].chunk = 1 /\ jobs'[p].state = "waiting" /\ jobs'[p] \in Job
        /\ batch' = [live |-> QpsMax, qps |-> QpsMax, pool |-> 1]
        /\ jobs' \in [kept -> Job]
    BY <1>10 DEF Job, JobState
  <2>2. DnsTypes'
    BY <1>1, <1>2, <1>4, <1>7, <2>1 DEF DInv, DnsTypes, IsStore
  <2>3. Placed'
    BY <1>1, <1>4, <1>10, <2>1, StageStays DEF Placed
  <2>4. Shared'
    <3>1. Running' = {}
      BY <2>1 DEF Running
    <3>2. Cardinality(Running)' = 0
      BY <3>1, FS_EmptySet
    <3>3. batch'.live = QpsMax /\ batch'.qps = QpsMax /\ batch'.pool = 1
      BY <2>1
    <3>4. QpsMax \in 1..QpsMax /\ 1 * QpsMax <= QpsMax /\ QpsMax \in Nat \ {0}
      BY BalanceNats
    <3> QED BY <3>2, <3>3, <3>4 DEF Shared
  <2>5. Covered'
    <3>1. OldCovered'
      <4> SUFFICES ASSUME doc.whole PROVE CoversParents(zone, doc.nested \cup {Apex}, doc.rows, wild')
        BY <1>1 DEF OldCovered
      <4>1. CoversParents(zone, doc.nested \cup {Apex}, doc.rows, doc.wild)
        BY DEF DInv, Covered, DocCovered
      <4> QED BY <1>10, <4>1, GrowsSelf, ParentsGrow
    <3>2. JobsCovered'
      BY <2>1, JobsBegin
    <3> QED BY <1>1, <2>1, <3>1, <3>2, DocCoveredSame DEF DInv, Covered, NamesCovered, Dns
  <2> QED BY <1>1, <1>8, <2>2, <2>3, <2>4, <2>5, EngineFrame, DocFrame DEF InDns, DInv
<1> HIDE DEF brute
<1> QED BY <1>7, <1>9, <1>10

LEMMA ExpandedKeeps == ASSUME DInv, InDns, Expanded PROVE DInv'
<1> DEFINE taken == {p \in DOMAIN jobs : jobs[p].state # "waiting"}
           whole == doc.whole /\ ~failed /\ ~BatchPaused
<1>1. /\ pc = "expanding" /\ pc' = "expanded" /\ BatchOver /\ jobs' = <<>>
      /\ UNCHANGED <<zone, files, run, known, resolved, wild, suspects, level, batch, nested, lb, stop, failed>>
  BY DEF Expanded
<1>2. doc' = [doc EXCEPT !.rows = resolved, !.wild = wild, !.suspects = suspects,
                         !.nested = nested \cup taken, !.whole = whole]
  BY DEF Expanded
<1>3. doc' = [rows |-> resolved, wild |-> wild, suspects |-> suspects, nested |-> nested \cup taken,
              caught |-> doc.caught, whole |-> whole, run |-> doc.run]
  BY <1>2 DEF DInv, DocTypes
<1>4. DnsTypes'
  <2>1. jobs' \in [DOMAIN jobs' -> Job] /\ DOMAIN jobs' \subseteq Narrow
    BY <1>1, NoRows
  <2> QED BY <1>1, <2>1 DEF DInv, DnsTypes, Quiet
<1>5. DocTypes'
  <2>1. whole \in BOOLEAN
    BY Zenon
  <2>2. nested \cup taken \subseteq Name
    BY DEF DInv, DnsTypes, Narrow
  <2>3. doc.caught \subseteq wild
    BY <1>1 DEF DInv, Placed
  <2> HIDE DEF whole, taken
  <2> QED BY <1>3, <2>1, <2>2, <2>3 DEF DInv, DnsTypes, DocTypes
<1>6. Placed'
  BY <1>1, StageStays, NoRows DEF Placed
<1>7. Shared'
  BY <1>1, SharedIdle DEF DInv
<1>8. Honest'
  <2>1. doc'.rows = resolved
    BY <1>3
  <2> QED BY <1>1, <2>1, SameFiles DEF DInv, Honest
<1>9. Covered'
  <2>1. DocCovered'
    <3> SUFFICES ASSUME whole PROVE CoversParents(zone, (nested \cup taken) \cup {Apex}, resolved, wild)
      BY <1>1, <1>3 DEF DocCovered
    <3>1. CoversParents(zone, doc.nested \cup {Apex}, resolved, wild)
      BY <1>1 DEF DInv, Covered, OldCovered
    <3>2. CoversParents(zone, DOMAIN jobs, resolved, wild)
      BY <1>1, BatchAsked
    <3>3. nested = doc.nested
      BY <1>1 DEF DInv, Placed
    <3> QED BY <3>1, <3>2, <3>3 DEF CoversParents
  <2> QED BY <1>1, <2>1 DEF Covered, OldCovered, NamesCovered, JobsCovered, Dns
<1> QED BY <1>1, <1>4, <1>5, <1>6, <1>7, <1>8, <1>9, EngineFrame DEF InDns, DInv

(***************************************************************************)
(* The inductive invariant, and what it gives.                              *)
(***************************************************************************)
LEMMA InitHolds == Init => DInv
<1> SUFFICES ASSUME Init PROVE DInv
  OBVIOUS
<1> USE DEF Init
<1>1. DnsTypes
  <2>1. NoFile \in File
    BY DEF NoFile, File
  <2>2. files \in [Path -> File]
    BY <2>1
  <2>3. resolved \in [DOMAIN resolved -> Row] /\ DOMAIN resolved \subseteq Name
    BY NoRows DEF IsStore
  <2>4. jobs \in [DOMAIN jobs -> Job] /\ DOMAIN jobs \subseteq Narrow
    BY NoRows
  <2>5. level \in 1..(ReconDepth + 1) /\ pc \in Quiet
    BY HostsAssumption DEF Quiet
  <2> QED BY <2>2, <2>3, <2>4, <2>5, NewBalanceTyped DEF DnsTypes
<1>2. DocTypes
  BY NoRows DEF NoDoc, DocTypes, IsStore
<1>3. EngineTypes
  BY DEF EngineTypes, Stages, NoFfuf, NoAssets, HostsIn
<1>4. Placed
  BY NoRows DEF Placed
<1>5. Shared
  BY NoneRunning, BalanceNats DEF Shared, NoBatch
<1>6. Honest
  <2>1. MarkedWhole
    <3>1. \A p \in Name, i \in DOMAIN Chunks : <<"brute", p, i>> \in Path
      BY DEF Path
    <3>2. \A p \in Name, i \in DOMAIN Chunks : ~files[<<"brute", p, i>>].done
      BY <3>1 DEF NoFile
    <3> QED BY <3>2 DEF MarkedWhole
  <2> QED BY <2>1, NoRows DEF Honest, NoDoc
<1>7. Covered
  BY DEF Covered, DocCovered, OldCovered, NamesCovered, JobsCovered, NoDoc, Dns
<1> QED BY <1>1, <1>2, <1>3, <1>4, <1>5, <1>6, <1>7 DEF DInv

LEMMA DnsBeginKeeps == ASSUME DInv, DnsBegin PROVE DInv'
<1>1. AssetHosts = HostsIn(list.assets)
  BY DEF AssetHosts, HostsIn
<1>2. passive \cup FfufNames \cup AssetHosts \subseteq Name
  BY <1>1 DEF FfufNames, DInv, EngineTypes
<1>3. InDns /\ Begin(passive \cup FfufNames \cup AssetHosts)
  BY DEF DnsBegin, InDns
<1> QED BY <1>2, <1>3, BeginKeeps

LEMMA DnsStepKeeps == ASSUME DInv, DnsStep PROVE DInv'
<1>1. InDns
  BY DEF DnsStep, InDns
<1>2. CASE \E p \in DOMAIN jobs : Take(p) \/ Chunk(p)
  BY <1>1, <1>2, TakeKeeps, ChunkKeeps
<1> QED BY <1>1, <1>2, ProbeApexKeeps, NextLevelKeeps, BruteEndsKeeps, PermuteKeeps, PermutedKeeps,
           ResolveKeeps, WriteKeeps DEF DnsStep

LEMMA ExpandStepKeeps == ASSUME DInv, ExpandStep PROVE DInv'
<1>1. InDns
  BY DEF ExpandStep, InDns
<1>2. CASE \E p \in DOMAIN jobs : Take(p) \/ Chunk(p)
  BY <1>1, <1>2, TakeKeeps, ChunkKeeps
<1> QED BY <1>1, <1>2, ExpandKeeps, ExpandedKeeps DEF ExpandStep

LEMMA StutterKeeps == ASSUME DInv, UNCHANGED vars PROVE DInv'
<1>1. UNCHANGED dnsVars /\ UNCHANGED discoveryVars
  BY DEF vars
<1>2. EngineTypes'
  BY <1>1, EngineFrame DEF DInv
<1> QED BY <1>1, <1>2, Unmoved DEF discoveryVars

LEMMA NextKeeps == ASSUME DInv, [Next]_vars PROVE DInv'
<1>1. CASE StartRun \/ RequestStop \/ Die \/ Resume
  BY <1>1, StartKeeps, StopKeeps, DieKeeps, ResumeKeeps
<1>2. CASE DnsBegin \/ DnsStep \/ DnsOver
  BY <1>2, DnsBeginKeeps, DnsStepKeeps, DnsOverKeeps
<1>3. CASE FfufStart \/ (\E base \in Name : FfufJob(base)) \/ FfufEnds \/ ExpandStep \/ FfufOver
  BY <1>3, FfufStartKeeps, FfufJobKeeps, FfufEndsKeeps, ExpandStepKeeps, FfufOverKeeps
<1>4. CASE Ffuf3 \/ MergeStage \/ Ffuf4 \/ Ffuf4Over
  BY <1>4, Ffuf3Keeps, MergeKeeps, Ffuf4Keeps, Ffuf4OverKeeps
<1> QED BY <1>1, <1>2, <1>3, <1>4, StutterKeeps DEF Next

\* Where the branch is, what its files and documents hold and which parents it
\* has covered: the inductive invariant, for any names, zones, words, depths,
\* rates and any number of runs, stops and deaths.
THEOREM DiscoveryInvariant == Spec => []DInv
BY InitHolds, NextKeeps, PTL DEF Spec

\* Every file, row, rate and document keeps its type.
THEOREM DiscoveryTypeCorrect == Spec => []TypeOK
<1>1. DInv => TypeOK
  BY DEF DInv, DnsTypes, DocTypes, EngineTypes, TypeOK
<1> QED BY <1>1, DiscoveryInvariant, PTL

\* A document that says nothing of being partial, of a module whose tools did not
\* fail, holds every word that answers under every parent it names, whatever files
\* of earlier attempts it was read from.
THEOREM ParentsAreCovered == Spec => []ParentsCovered
<1>1. DInv => ParentsCovered
  <2> SUFFICES ASSUME DInv, doc.whole, NEW p \in doc.nested \cup {Apex}, NEW l \in Words,
                      Child(p, l) \in InScope, Answer(Child(p, l)) # {},
                      ~WildcardOnly(Answer(Child(p, l)), doc.wild)
               PROVE  Child(p, l) \in DOMAIN doc.rows /\ doc.rows[Child(p, l)].ips = Answer(Child(p, l))
    BY DEF ParentsCovered
  <2>1. PICK i \in DOMAIN Chunks : l \in Chunks[i]
    BY DEF Words
  <2>2. Covers(zone, p, i, doc.rows, doc.wild)
    BY DEF DInv, Covered, DocCovered, CoversParents, CoversAll
  <2> QED BY <2>1, <2>2, AnswerIs DEF Covers, Holds
<1> QED BY <1>1, DiscoveryInvariant, PTL

\* The jobs of a batch together never ask for more than the rate that was in force
\* when it began, for any pool and any rate the canary or the breaker left.
THEOREM RateIsShared == Spec => []RateShared
<1>1. DInv => RateShared
  <2> SUFFICES ASSUME DInv PROVE RateShared
    OBVIOUS
  <2>1. Cardinality(Running) \in Nat
    BY FiniteJobs, FS_CardinalityType DEF DInv
  <2>2. /\ batch.live \in 1..QpsMax /\ batch.qps \in Nat \ {0} /\ batch.pool \in Nat \ {0}
        /\ batch.pool * batch.qps <= batch.live /\ Cardinality(Running) <= batch.pool
    BY DEF DInv, Shared
  <2>3. \A a, b, c \in Nat : a <= b => a * c <= b * c
    OBVIOUS
  <2>4. Cardinality(Running) * batch.qps <= batch.pool * batch.qps
    BY <2>1, <2>2, <2>3
  <2>5. \A a, b, c \in Int : a <= b /\ b <= c => a <= c
    OBVIOUS
  <2>6. /\ Cardinality(Running) * batch.qps \in Int /\ batch.pool * batch.qps \in Int
        /\ batch.live \in Int /\ batch.live <= QpsMax
    BY <2>1, <2>2, BalanceNats
  <2>7. Cardinality(Running) * batch.qps <= batch.live
    BY <2>2, <2>4, <2>5, <2>6
  <2> QED BY <2>6, <2>7 DEF RateShared
<1> QED BY <1>1, DiscoveryInvariant, PTL

\* No name a list sets aside for w answers with addresses of w alone.
LEMMA FlushedAside ==
  ASSUME NEW ips, NEW att, NEW sus, NEW w, NEW a \in Flushed(ips, att, sus, w).assets, NEW c \in SUBSET w
  PROVE  ~WildcardOnly(a.ips, c)
<1> DEFINE left == DOMAIN ips \ {h \in DOMAIN ips : Quarantined(ips[h], w)}
<1>1. Flushed(ips, att, sus, w).assets =
        {[host |-> h, ips |-> ips[h], attribution |-> att[h], suspect |-> sus[h]] : h \in left}
  BY DEF Flushed
<1>2. PICK h \in left : a = [host |-> h, ips |-> ips[h], attribution |-> att[h], suspect |-> sus[h]]
  BY <1>1
<1>3. a.ips = ips[h] /\ ~Quarantined(ips[h], w)
  BY <1>2
<1> QED BY <1>3 DEF Quarantined, WildcardOnly

\* No asset of the list MERGE writes answers with the catch-all addresses DNS found
\* alone, whichever document of either branch brings the name.
THEOREM CatchAllsAside == Spec => CatchAllSetAside
<1>1. ASSUME DInv, MergeStage, ~stop, "dns-resolve" \in docs', NEW a \in list'.assets
      PROVE  ~WildcardOnly(a.ips, doc.caught)
  <2> DEFINE w == CatchAll(PassiveDocs \cup ActiveDocs)
  <2>1. list' = MergeBranches(PassiveDocs, ActiveDocs) /\ docs' = docs
    BY <1>1 DEF MergeStage
  <2>2. \E ips, att, sus : MergeBranches(PassiveDocs, ActiveDocs) = Flushed(ips, att, sus, w)
    BY DEF MergeBranches
  <2>3. DnsDoc \in ActiveDocs
    BY <1>1, <2>1 DEF ActiveDocs
  <2>4. DnsDoc.wild = doc.wild
    BY DEF DnsDoc
  <2>5. doc.caught \subseteq w
    BY <1>1, <2>3, <2>4 DEF CatchAll, DInv, DocTypes
  <2> HIDE DEF w
  <2> QED BY <1>1, <2>1, <2>2, <2>5, FlushedAside
<1>2. DInv /\ [Next]_vars =>
        [MergeStage /\ ~stop /\ "dns-resolve" \in docs' =>
           \A a \in list'.assets : ~WildcardOnly(a.ips, doc.caught)]_vars
  BY <1>1
<1> QED BY <1>2, DiscoveryInvariant, PTL DEF Spec, CatchAllSetAside
=============================================================================
