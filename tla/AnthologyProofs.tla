--------------------------- MODULE AnthologyProofs ---------------------------
(***************************************************************************)
(* Proofs about Anthology, for any number of workers, documents, runs, saves, *)
(* loads, retries, answers in flight and faults, and with page and faults     *)
(* together, which the run has one at a time.                                 *)
(***************************************************************************)
EXTENDS Anthology, TLAPS

-----------------------------------------------------------------------------
(* Types. *)

\* Ids are given out in order; a worker in the middle of a run has one.
Bindings ==
  /\ doc = NoDoc \/ (doc.id \in 1..made /\ doc.status \in Statuses)
  /\ page.id <= made
  /\ \A w \in Workers :
       /\ workers[w].doc <= made
       /\ workers[w].at \in {"running", "read", "saved", "failing"} =>
            workers[w].run \in 1..Len(runs)

TInv == TypeOK /\ Bindings

LEMMA OneAtMost == ASSUME NEW n \in Nat, n >= 1, n <= 1 PROVE n = 1
OBVIOUS

\* One less, of the same type.
LEMMA RemoveAtTyped ==
  ASSUME NEW T, NEW s \in Seq(T), NEW n \in 1..Len(s)
  PROVE  RemoveAt(s, n) \in Seq(T) /\ Len(RemoveAt(s, n)) = Len(s) - 1
<1> DEFINE a == SubSeq(s, 1, n - 1)
           b == SubSeq(s, n + 1, Len(s))
<1>1. a \in Seq(T) /\ Len(a) = n - 1
  OBVIOUS
<1>2. b \in Seq(T) /\ Len(b) = Len(s) - n
  OBVIOUS
<1>3. RemoveAt(s, n) = a \o b
  BY DEF RemoveAt
<1>4. Len(s) \in Nat
  OBVIOUS
<1> HIDE DEF a, b
<1>5. a \o b \in Seq(T) /\ Len(a \o b) = Len(a) + Len(b)
  BY <1>1, <1>2
<1> QED BY <1>1, <1>2, <1>3, <1>4, <1>5

LEMMA TInvInit == Init => TInv
<1> SUFFICES ASSUME Init PROVE TInv
  OBVIOUS
<1>1. /\ 0 \in Ids /\ 0 \in Versions /\ 0 \in 0..MaxRuns
      /\ MaxSaves \in Nat /\ MaxFlight \in Nat /\ MaxRuns \in Nat
      /\ 0 \in 0..MaxLoads /\ 0 \in 0..MaxRetries /\ 0 \in 0..MaxFaults
  BY BoundsAssumption DEF Ids, Versions
<1>2. doc \in Docs /\ doc = NoDoc
  BY <1>1 DEF Init, NoDoc, NoResult, Docs
<1>3. page \in Pages /\ page.id = 0
  BY <1>1 DEF Init, NoPage, Statuses, Pages
<1>4. \A w \in Workers : workers[w] = With(0, "idle")
  BY DEF Init, Idle
<1>5. With(0, "idle") \in WorkerStates
  BY <1>1 DEF With, WorkerStates, Places
<1>6. workers \in [Workers -> WorkerStates]
  BY <1>5 DEF Init, Idle
<1>7. /\ runs \in Seq(Runs) /\ Len(runs) = 0
      /\ answers \in Seq(Answers) /\ Len(answers) = 0
  BY DEF Init
<1>8. Bindings
  BY <1>2, <1>3, <1>4 DEF Init, Bindings, With
<1>9. version \in Versions
  BY <1>1 DEF Init, Versions
<1>10. Len(runs) <= MaxRuns /\ Len(answers) <= MaxFlight
  BY <1>1, <1>7
<1>11. /\ made \in Ids /\ task \in BOOLEAN /\ marking \in BOOLEAN /\ resetting \subseteq Ids
       /\ asked \subseteq {"poll", "retry", "reset", "read", "mark"}
       /\ loads \in 0..MaxLoads /\ retries \in 0..MaxRetries /\ faults \in 0..MaxFaults
  BY <1>1 DEF Init
<1> QED BY <1>2, <1>3, <1>6, <1>7, <1>8, <1>9, <1>10, <1>11 DEF TInv, TypeOK

\* What an update of the document leaves.
LEMMA DocTyped ==
  ASSUME TInv
  PROVE  /\ \A st \in Statuses : [doc EXCEPT !.status = st] \in Docs
         /\ [doc EXCEPT !.stale = TRUE] \in Docs
         /\ [doc EXCEPT !.status = "pending", !.result = NoResult, !.run = 0] \in Docs
         /\ \A r \in 0..MaxRuns, v \in Versions :
              [doc EXCEPT !.status = "done", !.stale = FALSE, !.run = r,
                          !.result = [from |-> v, against |-> version]] \in Docs
         /\ NoDoc \in Docs /\ (made < MaxDocs => Fresh(made + 1) \in Docs)
<1>0. MaxDocs \in Nat /\ MaxRuns \in Nat /\ MaxSaves \in Nat
  BY BoundsAssumption
<1>1. 0 \in Ids /\ 0 \in Versions /\ 0 \in 0..MaxRuns
  BY <1>0 DEF Ids, Versions
<1>4. made < MaxDocs => made + 1 \in Ids
  <2>1. made \in 0..MaxDocs
    BY DEF TInv, TypeOK, Ids
  <2> QED BY <1>0, <2>1 DEF Ids
<1> USE DEF TInv, TypeOK, Docs
<1>2. NoResult \in [from: Versions, against: Versions]
  BY <1>1 DEF NoResult
<1>3. [doc EXCEPT !.status = "pending", !.result = NoResult, !.run = 0] \in Docs
  BY <1>1, <1>2 DEF Statuses
<1>5. made < MaxDocs => Fresh(made + 1) \in Docs
  BY <1>1, <1>2, <1>4 DEF Fresh, Statuses
<1>6. NoDoc \in Docs
  BY <1>1, <1>2 DEF NoDoc
<1>7. ASSUME NEW r \in 0..MaxRuns, NEW v \in Versions
      PROVE  [doc EXCEPT !.status = "done", !.stale = FALSE, !.run = r,
                         !.result = [from |-> v, against |-> version]] \in Docs
  BY <1>7 DEF Statuses
<1> QED BY <1>3, <1>5, <1>6, <1>7

\* The page notes that requests overlap.
LEMMA CrowdedTyped ==
  ASSUME TInv,
         page' = [page EXCEPT !.crowded = @ \/ asked # {} \/ answers # <<>>]
  PROVE  /\ page' \in Pages /\ page'.id = page.id
         /\ page'.shown = page.shown /\ page'.polling = page.polling
         /\ page'.crowded <=> page.crowded \/ asked # {} \/ answers # <<>>
<1> DEFINE b == page.crowded \/ asked # {} \/ answers # <<>>
<1>1. b \in BOOLEAN
  OBVIOUS
<1>2. page' = [page EXCEPT !.crowded = b]
  OBVIOUS
<1>3. page \in Pages
  BY DEF TInv, TypeOK
<1>5. page'.crowded = b
  BY <1>2, <1>3 DEF Pages
<1> HIDE DEF b
<1>4. /\ page' \in Pages /\ page'.id = page.id
      /\ page'.shown = page.shown /\ page'.polling = page.polling
  BY <1>1, <1>2, <1>3 DEF Pages
<1> QED BY <1>4, <1>5 DEF b

\* Nor does a retry change whose document it is.
LEMMA ResetTyped ==
  ASSUME TInv, NEW id, Reset(id)
  PROVE  doc' \in Docs /\ (doc' = NoDoc \/ (doc'.id \in 1..made /\ doc'.status \in Statuses))
<1>1. doc' = doc \/ (doc.id # 0 /\ ResetForRetry)
  BY DEF Reset, Exists
<1>2. CASE doc' = doc
  BY <1>2 DEF TInv, TypeOK, Bindings
<1>3. CASE doc.id # 0 /\ ResetForRetry
  <2>1. doc' \in Docs
    BY <1>3, DocTyped DEF ResetForRetry
  <2>2. doc'.id = doc.id /\ doc'.status = "pending"
    BY <1>3 DEF ResetForRetry, TInv, TypeOK, Docs
  <2>3. doc.id \in 1..made
    BY <1>3 DEF TInv, Bindings, NoDoc
  <2> QED BY <2>1, <2>2, <2>3 DEF Statuses
<1> QED BY <1>1, <1>2, <1>3

\* A worker that has nothing to do.
LEMMA RestTyped ==
  ASSUME TInv, NEW w \in Workers, NEW st \in {"idle", "counted"},
         workers' = [workers EXCEPT ![w] = With(0, st)]
  PROVE  /\ workers' \in [Workers -> WorkerStates]
         /\ \A v \in Workers :
              /\ workers'[v].doc <= made
              /\ workers'[v].at \in {"running", "read", "saved", "failing"} =>
                   workers'[v].run \in 1..Len(runs)
<1>1. 0 \in Ids /\ 0 \in Versions /\ 0 \in 0..MaxRuns /\ made \in Nat
  BY BoundsAssumption DEF Ids, Versions, TInv, TypeOK
<1>2. With(0, st) \in WorkerStates
  BY <1>1 DEF With, WorkerStates, Places
<1>3. With(0, st).doc = 0 /\ With(0, st).at = st
  BY DEF With
<1> QED BY <1>1, <1>2, <1>3 DEF TInv, TypeOK, Bindings

\* An answer goes to the end of those in flight.
LEMMA AnswerTyped ==
  ASSUME TInv, NEW request, NEW kind \in {"poll", "retry", "read"},
         NEW st \in Statuses \cup {"error"}, Answer(request, kind, st)
  PROVE  answers' \in Seq(Answers) /\ Len(answers') <= MaxFlight /\ Len(answers') = Len(answers) + 1
<1> DEFINE a == [kind |-> kind, status |-> st]
<1>1. a \in Answers
  BY DEF Answers
<1>2. answers' = Append(answers, a) /\ Len(answers) < MaxFlight
  BY DEF Answer
<1> HIDE DEF a
<1> QED BY <1>1, <1>2, BoundsAssumption DEF TInv, TypeOK

\* So is one that is left, and it keeps its document and its status.
LEMMA LeaveTyped ==
  ASSUME TInv, NEW r \in 1..Len(runs), runs' = [runs EXCEPT ![r].left = TRUE]
  PROVE  /\ runs' \in Seq(Runs) /\ Len(runs') = Len(runs)
         /\ \A n \in 1..Len(runs) :
              /\ runs'[n].doc = runs[n].doc /\ runs'[n].status = runs[n].status
              /\ runs'[n].left = (n = r \/ runs[n].left)
<1>1. runs \in Seq(Runs) /\ runs[r] \in Runs
  BY DEF TInv, TypeOK
<1>2. [runs[r] EXCEPT !.left = TRUE] \in Runs
  BY <1>1 DEF Runs
<1>3. runs' = [runs EXCEPT ![r] = [runs[r] EXCEPT !.left = TRUE]]
  OBVIOUS
<1>4. runs' \in Seq(Runs) /\ Len(runs') = Len(runs)
  BY <1>1, <1>2, <1>3
<1>5. \A n \in 1..Len(runs) : runs'[n] = IF n = r THEN [runs[r] EXCEPT !.left = TRUE] ELSE runs[n]
  BY <1>1, <1>3
<1>6. ASSUME NEW n \in 1..Len(runs) PROVE runs[n].left \in BOOLEAN
  <2>1. runs[n] \in Runs
    BY <1>1
  <2> QED BY <2>1 DEF Runs
<1>8. /\ [runs[r] EXCEPT !.left = TRUE].doc = runs[r].doc
      /\ [runs[r] EXCEPT !.left = TRUE].status = runs[r].status
      /\ [runs[r] EXCEPT !.left = TRUE].left = TRUE
  BY <1>1 DEF Runs
<1>7. ASSUME NEW n \in 1..Len(runs)
      PROVE  /\ runs'[n].doc = runs[n].doc /\ runs'[n].status = runs[n].status
             /\ runs'[n].left = (n = r \/ runs[n].left)
  <2>1. CASE n = r
    <3>1. runs'[n] = [runs[r] EXCEPT !.left = TRUE]
      BY <1>5, <2>1
    <3>2. runs'[n].left = TRUE
      BY <1>8, <3>1
    <3>3. (n = r \/ runs[n].left) = TRUE
      BY <2>1
    <3>4. runs'[n].doc = runs[n].doc /\ runs'[n].status = runs[n].status
      BY <1>8, <2>1, <3>1
    <3> QED BY <3>2, <3>3, <3>4
  <2>2. CASE n # r
    BY <1>5, <1>6, <2>2
  <2> QED BY <2>1, <2>2
<1> QED BY <1>4, <1>7

\* A run that ends is one of those there are.
LEMMA FinishTyped ==
  ASSUME TInv, NEW w \in Workers, workers[w].at \in {"saved", "failing"},
         NEW st \in {"done", "failed"}, FinishRun(workers[w].run, st)
  PROVE  /\ runs' \in Seq(Runs) /\ Len(runs') = Len(runs)
         /\ \A n \in 1..Len(runs) :
              /\ runs'[n].doc = runs[n].doc /\ runs'[n].left = runs[n].left
              /\ runs'[n].status = "processing" =>
                   runs[n].status = "processing" /\ n # workers[w].run
<1> DEFINE r == workers[w].run
<1>1. r \in 1..Len(runs) /\ runs \in Seq(Runs)
  BY DEF TInv, TypeOK, Bindings
<1> HIDE DEF r
<1>2. CASE runs[r].status = "deleted"
  BY <1>1, <1>2 DEF FinishRun, r
<1>3. CASE runs[r].status # "deleted"
  <2>1. runs' = [runs EXCEPT ![r].status = st]
    BY <1>3 DEF FinishRun, r
  <2>2. runs[r] \in Runs
    BY <1>1
  <2>3. [runs[r] EXCEPT !.status = st] \in Runs
    BY <2>2 DEF Runs
  <2>4. runs' = [runs EXCEPT ![r] = [runs[r] EXCEPT !.status = st]]
    BY <2>1
  <2>5. runs' \in Seq(Runs) /\ Len(runs') = Len(runs)
    BY <1>1, <2>3, <2>4
  <2>6. \A n \in 1..Len(runs) : runs'[n] = IF n = r THEN [runs[r] EXCEPT !.status = st] ELSE runs[n]
    BY <1>1, <2>4
  <2> QED BY <2>2, <2>5, <2>6 DEF r, Runs
<1> QED BY <1>2, <1>3

LEMMA TInvStep == TInv /\ [Next]_vars => TInv'
<1> SUFFICES ASSUME TInv, [Next]_vars PROVE TInv'
  OBVIOUS
<1> USE DEF TInv, TypeOK, Bindings
<1>0. /\ made \in Nat /\ doc.id \in Nat /\ page.id \in Nat /\ Len(runs) \in Nat
      /\ MaxDocs \in Nat /\ MaxRuns \in Nat /\ MaxSaves \in Nat /\ MaxFlight \in Nat
      /\ MaxLoads \in Nat /\ MaxRetries \in Nat /\ MaxFaults \in Nat
  BY BoundsAssumption DEF Ids, Docs, Pages
<1>1. CASE Create
  <2>1. made' \in Ids /\ made' >= made
    BY <1>0, <1>1 DEF Create, Ids
  <2>2. doc' \in Docs
    BY <1>1, DocTyped DEF Create
  <2>3. doc' = doc \/ (doc'.id = made' /\ doc'.id # 0 /\ doc'.status \in Statuses)
    BY <1>0, <1>1 DEF Create, Fresh, Statuses
  <2>4. \A w \in Workers : workers[w].doc \in Nat
    BY <1>0 DEF WorkerStates, Ids
  <2>5. page'.id <= made' /\ \A w \in Workers : workers[w].doc <= made'
    BY <1>0, <1>1, <2>1, <2>4 DEF Create, pageVars, Ids
  <2>6. doc' = NoDoc \/ (doc'.id \in 1..made' /\ doc'.status \in Statuses)
    BY <1>0, <2>1, <2>3 DEF Ids
  <2> QED BY <1>1, <2>1, <2>2, <2>5, <2>6 DEF Create, sourceVars, pageVars, budget
<1>2. CASE Open
  <2>1. page' \in Pages /\ page'.id = doc.id /\ doc.id <= made
    BY <1>0, <1>2 DEF Open, Docs, Pages
  <2>2. answers' \in Seq(Answers) /\ Len(answers') = 0
    BY <1>2 DEF Open
  <2>3. resetting' \subseteq Ids
    BY <1>2 DEF Open, Pages
  <2>4. loads' \in 0..MaxLoads /\ asked' = {}
    BY <1>0, <1>2 DEF Open
  <2> QED BY <1>0, <1>2, <2>1, <2>2, <2>3, <2>4 DEF Open, serverVars, sourceVars
<1>3. CASE Delete
  <2>1. runs' \in Seq(Runs) /\ Len(runs') = Len(runs)
    <3>1. DOMAIN runs = 1..Len(runs) /\ \A n \in 1..Len(runs) : runs[n] \in Runs
      OBVIOUS
    <3>2. \A n \in 1..Len(runs) : [runs[n] EXCEPT !.status = "deleted"] \in Runs
      BY <3>1 DEF Runs
    <3>3. runs' = [n \in 1..Len(runs) |->
                     IF runs[n].doc = doc.id THEN [runs[n] EXCEPT !.status = "deleted"]
                     ELSE runs[n]]
      BY <1>3, <3>1 DEF Delete
    <3>4. runs' \in [1..Len(runs) -> Runs]
      BY <3>1, <3>2, <3>3
    <3> QED BY <1>0, <3>4
  <2>2. doc' \in Docs /\ doc' = NoDoc
    BY <1>3, DocTyped DEF Delete
  <2> QED BY <1>0, <1>3, <2>1, <2>2 DEF Delete, sourceVars, pageVars, budget
<1>4. CASE RetryInTab
  <2>1. doc.id \in Ids
    BY DEF Docs
  <2>2. resetting' \subseteq Ids
    BY <1>4, <2>1 DEF RetryInTab
  <2>3. retries' \in 0..MaxRetries
    BY <1>0, <1>4 DEF RetryInTab
  <2> QED BY <1>4, <2>2, <2>3 DEF RetryInTab, serverVars, sourceVars, pageVars
<1>5. ASSUME NEW id \in 1..MaxDocs, ResetInTab(id) PROVE TInv'
  <2>1. doc' \in Docs /\ (doc' = NoDoc \/ (doc'.id \in 1..made /\ doc'.status \in Statuses))
    BY <1>5, ResetTyped DEF ResetInTab
  <2>2. page' \in Pages /\ page'.id = page.id
    BY <1>5, CrowdedTyped DEF ResetInTab
  <2>3. task' \in BOOLEAN /\ made' = made /\ runs' = runs
    BY <1>5 DEF ResetInTab, Reset
  <2> QED BY <1>0, <1>5, <2>1, <2>2, <2>3 DEF ResetInTab, sourceVars, budget
<1>6. CASE SaveGrouping
  BY <1>0, <1>6 DEF SaveGrouping, Versions, serverVars, pageVars, budget
<1>7. CASE MarkStale
  <2>1. doc' = doc \/ (doc # NoDoc /\ doc' = [doc EXCEPT !.stale = TRUE])
    BY <1>7 DEF MarkStale, NoDoc
  <2>2. doc' \in Docs
    BY <2>1, DocTyped
  <2>3. doc' = NoDoc \/ (doc'.id \in 1..made /\ doc'.status \in Statuses)
    BY <2>1 DEF Docs
  <2> QED BY <1>0, <1>7, <2>2, <2>3 DEF MarkStale, pageVars, budget
<1>8. CASE Refresh
  BY <1>0, <1>8, CrowdedTyped DEF Refresh, Ask, serverVars, sourceVars
<1>9. CASE ClickRetry
  <2>1. Ask("retry") /\ retries' \in 0..MaxRetries
    BY <1>0, <1>9 DEF ClickRetry
  <2> QED BY <1>0, <2>1, CrowdedTyped DEF Ask, serverVars, sourceVars
<1>10. CASE ClickRead
  BY <1>0, <1>10, CrowdedTyped DEF ClickRead, Ask, serverVars, sourceVars
<1>11. CASE ServePoll
  <2>1. Detail \in Statuses \cup {"error"}
    BY DEF Detail, Exists, NoDoc
  <2>2. [kind |-> "poll", status |-> Detail] \in Answers
    BY <2>1 DEF Answers
  <2> QED BY <1>0, <1>11, <2>2 DEF ServePoll, Answer, serverVars, sourceVars, budget
<1>12. CASE ServeRetry
  <2>1. answers' = answers \/ Answer("retry", "retry", "error")
    BY <1>12 DEF ServeRetry
  <2>2. answers' \in Seq(Answers) /\ Len(answers') <= MaxFlight
    BY <2>1, AnswerTyped
  <2>3. asked' \subseteq {"poll", "retry", "reset", "read", "mark"}
    BY <1>12 DEF ServeRetry, Answer
  <2> QED BY <1>0, <1>12, <2>2, <2>3 DEF ServeRetry, serverVars, sourceVars, budget
<1>13. CASE ServeReset
  <2>1. doc' \in Docs /\ (doc' = NoDoc \/ (doc'.id \in 1..made /\ doc'.status \in Statuses))
    BY <1>13, ResetTyped DEF ServeReset
  <2>2. task' \in BOOLEAN /\ made' = made /\ runs' = runs
    BY <1>13 DEF ServeReset, Reset
  <2>3. PICK st \in {"pending", "error"} : Answer("reset", "retry", st)
    BY <1>13 DEF ServeReset
  <2>4. [kind |-> "retry", status |-> st] \in Answers
    BY DEF Answers, Statuses
  <2>5. answers' \in Seq(Answers) /\ Len(answers') <= MaxFlight /\ asked' \subseteq asked
    BY <1>0, <2>3, <2>4 DEF Answer
  <2> QED BY <1>0, <1>13, <2>1, <2>2, <2>5 DEF ServeReset, sourceVars, budget
<1>14. CASE ServeRead
  <2>1. answers' = answers \/ Answer("read", "read", "error")
    BY <1>14 DEF ServeRead
  <2>2. answers' \in Seq(Answers) /\ Len(answers') <= MaxFlight
    BY <2>1, AnswerTyped
  <2>3. asked' \subseteq {"poll", "retry", "reset", "read", "mark"}
    BY <1>14 DEF ServeRead, Answer
  <2> QED BY <1>0, <1>14, <2>2, <2>3 DEF ServeRead, serverVars, sourceVars, budget
<1>15. CASE ServeMark
  <2>1. Detail \in Statuses \cup {"error"}
    BY DEF Detail, Exists, NoDoc
  <2>2. [kind |-> "read", status |-> Detail] \in Answers
    BY <2>1 DEF Answers
  <2> QED BY <1>0, <1>15, <2>2 DEF ServeMark, Answer, serverVars, sourceVars, budget
<1>16. ASSUME NEW n \in 1..MaxFlight, Receive(n) PROVE TInv'
  <2>1. n \in 1..Len(answers) /\ answers[n] \in Answers
    BY <1>16 DEF Receive
  <2>2. answers' \in Seq(Answers) /\ Len(answers') <= MaxFlight
    BY <1>0, <1>16, <2>1, RemoveAtTyped DEF Receive
  <2>3. ASSUME answers[n].status # "error"
        PROVE  page' \in Pages /\ page'.id = page.id
    <3>1. answers[n].status \in Statuses /\ answers[n].kind \in {"poll", "retry", "read"}
      BY <2>1, <2>3 DEF Answers
    <3>2. Polls(answers[n].kind, answers[n].status) \in BOOLEAN
      BY <3>1 DEF Polls, Pages
    <3>3. page' = [page EXCEPT !.shown = answers[n].status,
                               !.polling = Polls(answers[n].kind, answers[n].status)]
      BY <1>16, <2>3 DEF Receive, Render
    <3> QED BY <3>1, <3>2, <3>3 DEF Pages
  <2>4. answers[n].status = "error" => page' = page
    BY <1>16 DEF Receive, Render
  <2> QED BY <1>0, <1>16, <2>2, <2>3, <2>4 DEF Receive, serverVars, sourceVars, budget
<1>17. ASSUME NEW w \in Workers, Claim(w) PROVE TInv'
  <2>1. doc # NoDoc
    BY <1>17 DEF Claim, NoDoc
  <2>2. doc' \in Docs /\ doc'.id = doc.id /\ doc'.status \in Statuses
    BY <1>17, DocTyped DEF Claim, UpdateStatus, Docs, Statuses
  <2>3. workers' = [workers EXCEPT ![w] = With(doc.id, "claimed")]
    BY <1>17 DEF Claim
  <2>4. With(doc.id, "claimed") \in WorkerStates
    BY <1>0 DEF With, WorkerStates, Places, Ids, Versions, Docs
  <2> QED BY <1>0, <1>17, <2>1, <2>2, <2>3, <2>4
           DEF Claim, With, WorkerLeavesAlone, sourceVars, pageVars
<1>18. ASSUME NEW w \in Workers, FindNothing(w) PROVE TInv'
  BY <1>0, <1>18 DEF FindNothing, At, Go, WorkerStates, Places, WorkerLeavesAlone, sourceVars,
     pageVars
<1>19. ASSUME NEW w \in Workers, ModelFails(w) PROVE TInv'
  BY <1>0, <1>19 DEF ModelFails, At, Go, WorkerStates, Places, WorkerLeavesAlone, sourceVars,
     pageVars
<1>20. ASSUME NEW w \in Workers, Research(w) PROVE TInv'
  BY <1>0, <1>20 DEF Research, At, Go, WorkerStates, Places, WorkerLeavesAlone, sourceVars,
     pageVars
<1>21. ASSUME NEW w \in Workers, Missing(w) PROVE TInv'
  <2>1. workers' = [workers EXCEPT ![w] = With(0, "idle")]
    BY <1>21 DEF Missing, Idle
  <2> QED BY <1>0, <1>21, <2>1, RestTyped DEF Missing, WorkerLeavesAlone, sourceVars, pageVars
<1>22. ASSUME NEW w \in Workers, DeleteTask(w) PROVE TInv'
  <2>1. workers' = [workers EXCEPT ![w] = With(0, "idle")]
    BY <1>22 DEF DeleteTask, Idle
  <2> QED BY <1>0, <1>22, <2>1, RestTyped DEF DeleteTask, WorkerLeavesAlone, sourceVars, pageVars
<1>23. ASSUME NEW w \in Workers, Crash(w) PROVE TInv'
  <2>1. workers' = [workers EXCEPT ![w] = With(0, "idle")]
    BY <1>23 DEF Crash, Idle
  <2>2. faults' \in 0..MaxFaults
    BY <1>0, <1>23 DEF Crash
  <2> QED BY <1>0, <1>23, <2>1, <2>2, RestTyped DEF Crash, WorkerLeavesAlone, sourceVars, pageVars
<1>24. ASSUME NEW w \in Workers, CountPending(w) PROVE TInv'
  <2>1. PICK st \in {"idle", "counted"} : workers' = [workers EXCEPT ![w] = With(0, st)]
    BY <1>24 DEF CountPending, Idle
  <2> QED BY <1>0, <1>24, <2>1, RestTyped
           DEF CountPending, WorkerLeavesAlone, sourceVars, pageVars
<1>25. ASSUME NEW w \in Workers, RunNotCreated(w) PROVE TInv'
  <2>1. workers' = [workers EXCEPT ![w] = With(0, "idle")]
    BY <1>25 DEF RunNotCreated, Idle
  <2>2. doc' = doc \/ (doc # NoDoc /\ doc' = [doc EXCEPT !.status = "failed"])
    BY <1>25 DEF RunNotCreated, UpdateStatus, Exists, NoDoc
  <2>3. "failed" \in Statuses
    BY DEF Statuses
  <2>4. doc' \in Docs
    BY <2>2, <2>3, DocTyped
  <2>5. doc' = NoDoc \/ (doc'.id \in 1..made /\ doc'.status \in Statuses)
    BY <2>2, <2>3 DEF Docs
  <2>6. faults' \in 0..MaxFaults
    BY <1>0, <1>25 DEF RunNotCreated
  <2> QED BY <1>0, <1>25, <2>1, <2>4, <2>5, <2>6, RestTyped
           DEF RunNotCreated, WorkerLeavesAlone, sourceVars, pageVars
<1>26. ASSUME NEW w \in Workers, DocFailed(w) PROVE TInv'
  <2>1. workers' = [workers EXCEPT ![w] = With(0, "idle")]
    BY <1>26 DEF DocFailed, Idle
  <2>2. doc' = doc \/ (doc # NoDoc /\ doc' = [doc EXCEPT !.status = "failed"])
    BY <1>26 DEF DocFailed, UpdateStatus, Exists, NoDoc
  <2>3. "failed" \in Statuses
    BY DEF Statuses
  <2>4. doc' \in Docs
    BY <2>2, <2>3, DocTyped
  <2>5. doc' = NoDoc \/ (doc'.id \in 1..made /\ doc'.status \in Statuses)
    BY <2>2, <2>3 DEF Docs
  <2>6. faults' \in 0..MaxFaults
    BY <1>0, <1>26 DEF DocFailed
  <2> QED BY <1>0, <1>26, <2>1, <2>4, <2>5, <2>6, RestTyped
           DEF DocFailed, WorkerLeavesAlone, sourceVars, pageVars
<1>27. ASSUME NEW w \in Workers, StartRun(w) PROVE TInv'
  <2>1. workers[w].doc \in Ids
    BY DEF WorkerStates
  <2>2. [doc |-> workers[w].doc, status |-> "processing", left |-> FALSE] \in Runs
    BY <2>1 DEF Runs
  <2>3. runs' \in Seq(Runs) /\ Len(runs') = Len(runs) + 1 /\ Len(runs') <= MaxRuns
    BY <1>0, <1>27, <2>2 DEF StartRun
  <2>4. /\ workers' \in [Workers -> WorkerStates]
        /\ \A v \in Workers : /\ workers'[v].doc = workers[v].doc
                              /\ v # w => workers'[v] = workers[v]
        /\ workers'[w].run = Len(runs')
    <3>1. Len(runs) + 1 \in 0..MaxRuns /\ Len(runs) + 1 = Len(runs')
      BY <1>0, <2>3
    <3>2. workers' = [workers EXCEPT ![w] = [workers[w] EXCEPT !.at = "running", !.run = Len(runs')]]
      BY <1>27, <3>1 DEF StartRun, WorkerStates
    <3>3. [workers[w] EXCEPT !.at = "running", !.run = Len(runs')] \in WorkerStates
      BY <3>1 DEF WorkerStates, Places
    <3> QED BY <3>2, <3>3 DEF WorkerStates
  <2>5. \A v \in Workers :
          workers'[v].at \in {"running", "read", "saved", "failing"} =>
            workers'[v].run \in 1..Len(runs')
    BY <1>0, <2>3, <2>4
  <2> QED BY <1>27, <2>3, <2>4, <2>5 DEF StartRun, WorkerLeavesAlone, sourceVars, pageVars
<1>28. ASSUME NEW w \in Workers, SaveResult(w) PROVE TInv'
  <2>1. \/ doc' = doc
        \/ doc # NoDoc /\ UpdateResult(workers[w].run, workers[w].from)
    BY <1>28 DEF SaveResult, Exists, NoDoc
  <2>2. workers[w].run \in 0..MaxRuns /\ workers[w].from \in Versions
    BY DEF WorkerStates
  <2>3. doc' \in Docs
    <3>1. CASE doc' = doc
      BY <3>1
    <3>2. CASE UpdateResult(workers[w].run, workers[w].from)
      BY <3>2, <2>2, DocTyped DEF UpdateResult
    <3> QED BY <2>1, <3>1, <3>2
  <2>4. doc' = NoDoc \/ (doc'.id \in 1..made /\ doc'.status \in Statuses)
    BY <2>1 DEF UpdateResult, Docs, Statuses
  <2>5. PICK st \in {"saved", "failing"} : workers' = [workers EXCEPT ![w].at = st]
    BY <1>28 DEF SaveResult, Go
  <2>6. /\ workers' \in [Workers -> WorkerStates]
        /\ \A v \in Workers : /\ workers'[v].doc = workers[v].doc
                              /\ workers'[v].run = workers[v].run
                              /\ v # w => workers'[v].at = workers[v].at
    BY <2>5 DEF WorkerStates, Places
  <2>7. workers[w].at = "read"
    BY <1>28 DEF SaveResult, At
  <2> QED BY <1>28, <2>3, <2>4, <2>6, <2>7 DEF SaveResult, WorkerLeavesAlone, sourceVars, pageVars
<1>29. ASSUME NEW w \in Workers, RunDone(w) PROVE TInv'
  <2>1. runs' \in Seq(Runs) /\ Len(runs') = Len(runs)
    BY <1>29, FinishTyped DEF RunDone, At
  <2>2. workers' \in [Workers -> WorkerStates]
    BY <1>29 DEF RunDone, Go, WorkerStates, Places
  <2>3. \A v \in Workers : /\ workers'[v].doc = workers[v].doc
                           /\ workers'[v].run = workers[v].run
                           /\ v # w => workers'[v].at = workers[v].at
    BY <1>29 DEF RunDone, Go, WorkerStates
  <2>4. workers'[w].at = "built"
    BY <1>29 DEF RunDone, Go, WorkerStates
  <2>5. Len(runs') <= MaxRuns
    BY <2>1
  <2>6. ASSUME NEW v \in Workers, workers'[v].at \in {"running", "read", "saved", "failing"}
        PROVE  workers'[v].run \in 1..Len(runs')
    BY <2>1, <2>3, <2>4, <2>6
  <2>7. Bindings'
    BY <1>29, <2>3, <2>6 DEF RunDone, WorkerLeavesAlone, pageVars
  <2> QED BY <1>29, <2>1, <2>2, <2>5, <2>7 DEF RunDone, WorkerLeavesAlone, sourceVars, pageVars
<1>30. ASSUME NEW w \in Workers, RunFailed(w) PROVE TInv'
  <2>1. runs' \in Seq(Runs) /\ Len(runs') = Len(runs)
    BY <1>30, FinishTyped DEF RunFailed, At
  <2>2. workers' \in [Workers -> WorkerStates]
    BY <1>30 DEF RunFailed, Go, WorkerStates, Places
  <2>3. \A v \in Workers : /\ workers'[v].doc = workers[v].doc
                           /\ workers'[v].run = workers[v].run
                           /\ v # w => workers'[v].at = workers[v].at
    BY <1>30 DEF RunFailed, Go, WorkerStates
  <2>4. workers'[w].at = "runFailed"
    BY <1>30 DEF RunFailed, Go, WorkerStates
  <2>5. Len(runs') <= MaxRuns
    BY <2>1
  <2>6. ASSUME NEW v \in Workers, workers'[v].at \in {"running", "read", "saved", "failing"}
        PROVE  workers'[v].run \in 1..Len(runs')
    BY <2>1, <2>3, <2>4, <2>6
  <2>7. Bindings'
    BY <1>30, <2>3, <2>6 DEF RunFailed, WorkerLeavesAlone, pageVars
  <2> QED BY <1>30, <2>1, <2>2, <2>5, <2>7 DEF RunFailed, WorkerLeavesAlone, sourceVars, pageVars
<1>32. ASSUME NEW w \in Workers, EscapesRun(w) PROVE TInv'
  <2>1. workers' = [workers EXCEPT ![w] = With(0, "idle")]
    BY <1>32 DEF EscapesRun, Idle
  <2>2. doc' = doc \/ (doc # NoDoc /\ doc' = [doc EXCEPT !.status = "failed"])
    BY <1>32 DEF EscapesRun, UpdateStatus, Exists, NoDoc
  <2>3. "failed" \in Statuses
    BY DEF Statuses
  <2>4. doc' \in Docs
    BY <2>2, <2>3, DocTyped
  <2>5. doc' = NoDoc \/ (doc'.id \in 1..made /\ doc'.status \in Statuses)
    BY <2>2, <2>3 DEF Docs
  <2>6. runs' \in Seq(Runs) /\ Len(runs') = Len(runs)
    BY <1>32, LeaveTyped DEF EscapesRun
  <2>7. Len(runs') <= MaxRuns
    BY <2>6
  <2>8. Bindings'
    BY <1>32, <2>1, <2>5, <2>6, RestTyped DEF EscapesRun, WorkerLeavesAlone, pageVars
  <2> QED BY <1>32, <2>1, <2>4, <2>6, <2>7, <2>8, RestTyped
           DEF EscapesRun, WorkerLeavesAlone, sourceVars, pageVars
<1>31. CASE UNCHANGED vars
  BY <1>31 DEF vars, serverVars, sourceVars, pageVars, budget
<1> QED
  BY <1>1, <1>2, <1>3, <1>4, <1>5, <1>6, <1>7, <1>8, <1>9, <1>10, <1>11, <1>12, <1>13, <1>14,
     <1>15, <1>16, <1>17, <1>18, <1>19, <1>20, <1>21, <1>22, <1>23, <1>24, <1>25, <1>26, <1>27,
     <1>28, <1>29, <1>30, <1>31, <1>32
  DEF Next, Work, Serve

\* The document, the runs, every worker's and the page's copies have their types.
THEOREM TypeCorrect == Spec => []TypeOK
<1>1. TInv => TypeOK
  BY DEF TInv
<1> QED BY <1>1, TInvInit, TInvStep, PTL DEF Spec

-----------------------------------------------------------------------------
(* What is in progress is in a worker's hands. *)

\* A worker that has yet to take the document out of processing; one that has yet to
\* take its run out of it.
Builds(w, id) == /\ workers[w].doc = id
                 /\ workers[w].at \in {"claimed", "running", "read", "failing", "runFailed"}
InRun(w, n) == /\ workers[w].doc = runs[n].doc /\ workers[w].run = n
               /\ workers[w].at \in {"running", "read", "saved", "failing"}

DocHeld == doc.status = "processing" => \E w \in Workers : Builds(w, doc.id)
RunsHeld == \A n \in 1..Len(runs) :
              runs[n].status = "processing" /\ ~ runs[n].left => \E w \in Workers : InRun(w, n)

HInv == faults = 0 => DocHeld /\ RunsHeld

LEMMA HInvInit == Init => HInv
<1>1. Init => doc.status = "none" /\ Len(runs) = 0
  BY DEF Init, NoDoc
<1> QED BY <1>1 DEF HInv, DocHeld, RunsHeld

\* Steps that take nothing out of a worker's hands.
LEMMA HInvOthers ==
  ASSUME HInv, UNCHANGED workers, faults' = 0 => faults = 0,
         doc'.status = "processing" => doc.status = "processing" /\ doc'.id = doc.id,
         Len(runs') = Len(runs),
         \A n \in 1..Len(runs) :
           /\ runs'[n].doc = runs[n].doc /\ runs'[n].left = runs[n].left
           /\ runs'[n].status = "processing" => runs[n].status = "processing"
  PROVE  HInv'
<1> SUFFICES ASSUME faults' = 0 PROVE DocHeld' /\ RunsHeld'
  BY DEF HInv
<1>1. DocHeld /\ RunsHeld
  BY DEF HInv
<1>2. DocHeld'
  BY <1>1 DEF DocHeld, Builds
<1>3. RunsHeld'
  BY <1>1 DEF RunsHeld, InRun
<1> QED BY <1>2, <1>3

\* A step of one worker: what is in progress is then in its hands, or was in another's.
LEMMA HInvWorker ==
  ASSUME HInv, faults' = 0 => faults = 0, NEW w \in Workers,
         \A v \in Workers : v # w => workers'[v] = workers[v],
         faults' = 0 /\ doc'.status = "processing" =>
           \/ Builds(w, doc.id)'
           \/ (doc.status = "processing" /\ doc'.id = doc.id /\ ~ Builds(w, doc.id)),
         \A n \in 1..Len(runs') : runs'[n].status = "processing" /\ ~ runs'[n].left =>
           \/ InRun(w, n)'
           \/ /\ n \in 1..Len(runs) /\ runs[n].status = "processing" /\ ~ runs[n].left
              /\ runs'[n].doc = runs[n].doc /\ ~ InRun(w, n)
  PROVE  HInv'
<1> SUFFICES ASSUME faults' = 0 PROVE DocHeld' /\ RunsHeld'
  BY DEF HInv
<1>1. DocHeld /\ RunsHeld
  BY DEF HInv
<1>2. DocHeld'
  BY <1>1 DEF DocHeld, Builds
<1>3. RunsHeld'
  BY <1>1 DEF RunsHeld, InRun
<1> QED BY <1>2, <1>3

LEMMA HInvStep == TInv /\ HInv /\ [Next]_vars => HInv'
<1> SUFFICES ASSUME TInv, HInv, [Next]_vars PROVE HInv'
  OBVIOUS
<1>0. /\ faults \in Nat /\ Len(runs) \in Nat /\ DOMAIN runs = 1..Len(runs)
      /\ workers \in [Workers -> WorkerStates] /\ doc \in Docs
  <2>1. MaxFaults \in Nat
    BY BoundsAssumption
  <2> QED BY <2>1 DEF TInv, TypeOK
<1>1. CASE Create
  BY <1>0, <1>1, HInvOthers DEF Create, Fresh, budget
<1>2. CASE Open
  BY <1>0, <1>2, HInvOthers DEF Open, serverVars
<1>3. CASE Delete
  <2>1. doc'.status = "none"
    BY <1>3 DEF Delete, NoDoc
  <2>2. \A n \in 1..Len(runs) : runs[n] \in Runs
    BY DEF TInv, TypeOK
  <2>3. /\ Len(runs') = Len(runs)
        /\ \A n \in 1..Len(runs) :
             /\ runs'[n].doc = runs[n].doc /\ runs'[n].left = runs[n].left
             /\ runs'[n].status = "processing" => runs[n].status = "processing"
    BY <1>0, <1>3, <2>2 DEF Delete, Runs
  <2> QED BY <1>3, <2>1, <2>3, HInvOthers DEF Delete, budget
<1>4. CASE RetryInTab \/ SaveGrouping
  BY <1>0, <1>4, HInvOthers DEF RetryInTab, SaveGrouping, serverVars, budget
<1>5. ASSUME NEW id, Reset(id), UNCHANGED <<workers, faults>> PROVE HInv'
  <2>1. doc' = doc \/ doc'.status = "pending"
    BY <1>0, <1>5 DEF Reset, ResetForRetry, Docs
  <2> QED BY <1>0, <1>5, <2>1, HInvOthers DEF Reset
<1>6. ASSUME NEW id \in 1..MaxDocs, ResetInTab(id) PROVE HInv'
  BY <1>5, <1>6 DEF ResetInTab, budget
<1>7. CASE MarkStale
  <2>1. doc'.status = doc.status /\ doc'.id = doc.id
    BY <1>0, <1>7 DEF MarkStale, Docs
  <2> QED BY <1>0, <1>7, <2>1, HInvOthers DEF MarkStale, budget
<1>8. CASE Refresh \/ ClickRetry \/ ClickRead
  BY <1>0, <1>8, HInvOthers DEF Refresh, ClickRetry, ClickRead, Ask, serverVars
<1>9. CASE ServePoll \/ ServeRetry \/ ServeRead \/ ServeMark
  BY <1>0, <1>9, HInvOthers DEF ServePoll, ServeRetry, ServeRead, ServeMark, serverVars, budget
<1>10. CASE ServeReset
  BY <1>5, <1>10 DEF ServeReset, budget
<1>11. ASSUME NEW n \in 1..MaxFlight, Receive(n) PROVE HInv'
  BY <1>0, <1>11, HInvOthers DEF Receive, serverVars, budget
<1>12. ASSUME NEW w \in Workers, Claim(w) PROVE HInv'
  <2>1. workers' = [workers EXCEPT ![w] = With(doc.id, "claimed")] /\ workers[w].at = "idle"
    BY <1>12 DEF Claim, At
  <2>2. doc' = doc \/ doc'.id = doc.id
    BY <1>0, <1>12 DEF Claim, UpdateStatus, Docs
  <2>3. Builds(w, doc.id)'
    BY <1>0, <2>1, <2>2 DEF Builds, With
  <2>4. \A n \in 1..Len(runs) : ~ InRun(w, n)
    BY <2>1 DEF InRun
  <2>8. faults' = 0 /\ doc'.status = "processing" =>
          \/ Builds(w, doc.id)'
          \/ (doc.status = "processing" /\ doc'.id = doc.id /\ ~ Builds(w, doc.id))
    BY <2>3
  <2>9. \A n \in 1..Len(runs') : runs'[n].status = "processing" /\ ~ runs'[n].left =>
          \/ InRun(w, n)'
          \/ /\ n \in 1..Len(runs) /\ runs[n].status = "processing" /\ ~ runs[n].left
             /\ runs'[n].doc = runs[n].doc /\ ~ InRun(w, n)
    BY <1>12, <2>4 DEF Claim
  <2>7. \A v \in Workers : v # w => workers'[v] = workers[v]
    BY <1>0, <2>1
  <2>10. faults' = 0 => faults = 0
    BY <1>12 DEF Claim
  <2> QED BY <2>7, <2>8, <2>9, <2>10, HInvWorker
<1>13. ASSUME NEW w \in Workers, FindNothing(w) PROVE HInv'
  <2>1. workers[w].at \in {"idle", "built", "counted"}
    BY <1>13 DEF FindNothing, At
  <2>2. \A v \in Workers : v # w => workers'[v] = workers[v]
    BY <1>0, <1>13 DEF FindNothing, Go
  <2> QED BY <1>0, <1>13, <2>1, <2>2, HInvWorker DEF FindNothing, Builds, InRun
<1>14. ASSUME NEW w \in Workers, CountPending(w) PROVE HInv'
  <2>1. workers[w].at \in {"idle", "built", "counted"}
    BY <1>14 DEF CountPending, At
  <2>2. \A v \in Workers : v # w => workers'[v] = workers[v]
    BY <1>0, <1>14 DEF CountPending, Go
  <2> QED BY <1>0, <1>14, <2>1, <2>2, HInvWorker DEF CountPending, Builds, InRun
<1>15. ASSUME NEW w \in Workers, DeleteTask(w) PROVE HInv'
  <2>1. workers[w].at \in {"idle", "built", "counted"}
    BY <1>15 DEF DeleteTask, At
  <2>2. \A v \in Workers : v # w => workers'[v] = workers[v]
    BY <1>0, <1>15 DEF DeleteTask, Go
  <2> QED BY <1>0, <1>15, <2>1, <2>2, HInvWorker DEF DeleteTask, Builds, InRun
<1>16. ASSUME NEW w \in Workers, Missing(w) PROVE HInv'
  <2>1. workers[w].at = "claimed" /\ (doc.status = "processing" => workers[w].doc # doc.id)
    BY <1>16 DEF Missing, At, Exists, TInv, Bindings, NoDoc
  <2>2. \A v \in Workers : v # w => workers'[v] = workers[v]
    BY <1>0, <1>16 DEF Missing
  <2> QED BY <1>0, <1>16, <2>1, <2>2, HInvWorker DEF Missing, Builds, InRun
<1>17. ASSUME NEW w \in Workers, StartRun(w) PROVE HInv'
  <2>1. workers[w].at = "claimed"
    BY <1>17 DEF StartRun, At
  <2>2. /\ \A v \in Workers : v # w => workers'[v] = workers[v]
        /\ workers'[w].at = "running" /\ workers'[w].doc = workers[w].doc
        /\ workers'[w].run = Len(runs) + 1
    BY <1>0, <1>17 DEF StartRun, WorkerStates
  <2>3. /\ Len(runs') = Len(runs) + 1
        /\ \A n \in 1..Len(runs) : runs'[n] = runs[n]
        /\ runs'[Len(runs) + 1].doc = workers[w].doc
    BY <1>0, <1>17 DEF StartRun, TInv, TypeOK
  <2>4. \A n \in 1..Len(runs') : n = Len(runs) + 1 => InRun(w, n)'
    BY <2>2, <2>3 DEF InRun
  <2>5. Builds(w, doc.id) => Builds(w, doc.id)'
    BY <1>17, <2>2 DEF StartRun, Builds
  <2>6. \A n \in 1..Len(runs') : n \in 1..Len(runs) \/ n = Len(runs) + 1
    BY <1>0, <2>3
  <2>7. \A n \in 1..Len(runs) : ~ InRun(w, n)
    BY <2>1 DEF InRun
  <2>8. faults' = 0 /\ doc'.status = "processing" =>
          \/ Builds(w, doc.id)'
          \/ (doc.status = "processing" /\ doc'.id = doc.id /\ ~ Builds(w, doc.id))
    BY <1>17, <2>5 DEF StartRun
  <2>9. \A n \in 1..Len(runs') : runs'[n].status = "processing" /\ ~ runs'[n].left =>
          \/ InRun(w, n)'
          \/ /\ n \in 1..Len(runs) /\ runs[n].status = "processing" /\ ~ runs[n].left
             /\ runs'[n].doc = runs[n].doc /\ ~ InRun(w, n)
    BY <2>3, <2>4, <2>6, <2>7
  <2>10. faults' = 0 => faults = 0
    BY <1>17 DEF StartRun
  <2> QED BY <2>2, <2>8, <2>9, <2>10, HInvWorker
<1>18. ASSUME NEW w \in Workers, RunNotCreated(w) PROVE HInv'
  <2>1. faults' # 0 /\ workers[w].at = "claimed"
    BY <1>0, <1>18 DEF RunNotCreated, At
  <2>2. \A v \in Workers : v # w => workers'[v] = workers[v]
    BY <1>0, <1>18 DEF RunNotCreated
  <2> QED BY <1>0, <1>18, <2>1, <2>2 DEF HInv
<1>19. ASSUME NEW w \in Workers, Crash(w) PROVE HInv'
  <2>1. faults' # 0
    BY <1>0, <1>19 DEF Crash
  <2> QED BY <2>1 DEF HInv
<1>20. ASSUME NEW w \in Workers, Research(w) PROVE HInv'
  <2>1. /\ \A v \in Workers : v # w => workers'[v] = workers[v]
        /\ workers'[w].at \in {"read", "failing"} /\ workers'[w].doc = workers[w].doc
        /\ workers'[w].run = workers[w].run
    BY <1>0, <1>20 DEF Research, Go, WorkerStates
  <2>2. Builds(w, doc.id) => Builds(w, doc.id)'
    BY <1>20, <2>1 DEF Research, Builds
  <2>3. \A n \in 1..Len(runs) : InRun(w, n) => InRun(w, n)'
    BY <1>20, <2>1 DEF Research, InRun
  <2>8. faults' = 0 /\ doc'.status = "processing" =>
          \/ Builds(w, doc.id)'
          \/ (doc.status = "processing" /\ doc'.id = doc.id /\ ~ Builds(w, doc.id))
    BY <1>20, <2>2 DEF Research
  <2>9. \A n \in 1..Len(runs') : runs'[n].status = "processing" /\ ~ runs'[n].left =>
          \/ InRun(w, n)'
          \/ /\ n \in 1..Len(runs) /\ runs[n].status = "processing" /\ ~ runs[n].left
             /\ runs'[n].doc = runs[n].doc /\ ~ InRun(w, n)
    BY <1>20, <2>3 DEF Research
  <2>10. faults' = 0 => faults = 0
    BY <1>20 DEF Research
  <2> QED BY <2>1, <2>8, <2>9, <2>10, HInvWorker
<1>21. ASSUME NEW w \in Workers, ModelFails(w) PROVE HInv'
  <2>1. /\ \A v \in Workers : v # w => workers'[v] = workers[v]
        /\ workers'[w].at \in {"read", "failing"} /\ workers'[w].doc = workers[w].doc
        /\ workers'[w].run = workers[w].run
    BY <1>0, <1>21 DEF ModelFails, Go, WorkerStates
  <2>2. Builds(w, doc.id) => Builds(w, doc.id)'
    BY <1>21, <2>1 DEF ModelFails, Builds
  <2>3. \A n \in 1..Len(runs) : InRun(w, n) => InRun(w, n)'
    BY <1>21, <2>1 DEF ModelFails, InRun
  <2>8. faults' = 0 /\ doc'.status = "processing" =>
          \/ Builds(w, doc.id)'
          \/ (doc.status = "processing" /\ doc'.id = doc.id /\ ~ Builds(w, doc.id))
    BY <1>21, <2>2 DEF ModelFails
  <2>9. \A n \in 1..Len(runs') : runs'[n].status = "processing" /\ ~ runs'[n].left =>
          \/ InRun(w, n)'
          \/ /\ n \in 1..Len(runs) /\ runs[n].status = "processing" /\ ~ runs[n].left
             /\ runs'[n].doc = runs[n].doc /\ ~ InRun(w, n)
    BY <1>21, <2>3 DEF ModelFails
  <2>10. faults' = 0 => faults = 0
    BY <1>21 DEF ModelFails
  <2> QED BY <2>1, <2>8, <2>9, <2>10, HInvWorker
<1>22. ASSUME NEW w \in Workers, SaveResult(w) PROVE HInv'
  <2>1. /\ \A v \in Workers : v # w => workers'[v] = workers[v]
        /\ workers'[w].at \in {"saved", "failing"} /\ workers'[w].doc = workers[w].doc
        /\ workers'[w].run = workers[w].run
    BY <1>0, <1>22 DEF SaveResult, Go, WorkerStates
  <2>2. \A n \in 1..Len(runs) : InRun(w, n) => InRun(w, n)'
    BY <1>22, <2>1 DEF SaveResult, InRun
  <2>3. CASE Exists(workers[w].doc)
    <3>1. doc'.status = "done"
      BY <1>0, <1>22, <2>3 DEF SaveResult, UpdateResult, Docs
    <3> QED BY <1>0, <1>22, <2>1, <2>2, <3>1, HInvWorker DEF SaveResult
  <2>4. CASE ~ Exists(workers[w].doc)
    <3>1. doc' = doc /\ (doc.status = "processing" => workers[w].doc # doc.id)
      BY <1>22, <2>4 DEF SaveResult, Exists, TInv, Bindings, NoDoc
    <3> QED BY <1>0, <1>22, <2>1, <2>2, <3>1, HInvWorker DEF SaveResult, Builds
  <2> QED BY <2>3, <2>4
<1>23. ASSUME NEW w \in Workers, RunDone(w) PROVE HInv'
  <2>1. /\ Len(runs') = Len(runs)
        /\ \A n \in 1..Len(runs) :
             /\ runs'[n].doc = runs[n].doc /\ runs'[n].left = runs[n].left
             /\ runs'[n].status = "processing" =>
                  runs[n].status = "processing" /\ n # workers[w].run
    BY <1>23, FinishTyped DEF RunDone, At
  <2>2. /\ \A v \in Workers : v # w => workers'[v] = workers[v]
        /\ workers'[w].at = "built" /\ workers'[w].doc = workers[w].doc /\ workers[w].at = "saved"
    BY <1>0, <1>23 DEF RunDone, At, Go, WorkerStates
  <2>3. Builds(w, doc.id) => Builds(w, doc.id)'
    BY <1>23, <2>2 DEF RunDone, Builds
  <2>4. \A n \in 1..Len(runs) : n # workers[w].run => ~ InRun(w, n)
    BY DEF InRun
  <2>8. faults' = 0 /\ doc'.status = "processing" =>
          \/ Builds(w, doc.id)'
          \/ (doc.status = "processing" /\ doc'.id = doc.id /\ ~ Builds(w, doc.id))
    BY <1>23, <2>2, <2>3 DEF RunDone, Builds
  <2>9. \A n \in 1..Len(runs') : runs'[n].status = "processing" /\ ~ runs'[n].left =>
          \/ InRun(w, n)'
          \/ /\ n \in 1..Len(runs) /\ runs[n].status = "processing" /\ ~ runs[n].left
             /\ runs'[n].doc = runs[n].doc /\ ~ InRun(w, n)
    BY <2>1, <2>4
  <2>10. faults' = 0 => faults = 0
    BY <1>23 DEF RunDone
  <2> QED BY <2>2, <2>8, <2>9, <2>10, HInvWorker
<1>24. ASSUME NEW w \in Workers, RunFailed(w) PROVE HInv'
  <2>1. /\ Len(runs') = Len(runs)
        /\ \A n \in 1..Len(runs) :
             /\ runs'[n].doc = runs[n].doc /\ runs'[n].left = runs[n].left
             /\ runs'[n].status = "processing" =>
                  runs[n].status = "processing" /\ n # workers[w].run
    BY <1>24, FinishTyped DEF RunFailed, At
  <2>2. /\ \A v \in Workers : v # w => workers'[v] = workers[v]
        /\ workers'[w].at = "runFailed" /\ workers'[w].doc = workers[w].doc /\ workers[w].at = "failing"
    BY <1>0, <1>24 DEF RunFailed, At, Go, WorkerStates
  <2>3. Builds(w, doc.id) => Builds(w, doc.id)'
    BY <1>24, <2>2 DEF RunFailed, Builds
  <2>4. \A n \in 1..Len(runs) : n # workers[w].run => ~ InRun(w, n)
    BY DEF InRun
  <2>8. faults' = 0 /\ doc'.status = "processing" =>
          \/ Builds(w, doc.id)'
          \/ (doc.status = "processing" /\ doc'.id = doc.id /\ ~ Builds(w, doc.id))
    BY <1>24, <2>2, <2>3 DEF RunFailed, Builds
  <2>9. \A n \in 1..Len(runs') : runs'[n].status = "processing" /\ ~ runs'[n].left =>
          \/ InRun(w, n)'
          \/ /\ n \in 1..Len(runs) /\ runs[n].status = "processing" /\ ~ runs[n].left
             /\ runs'[n].doc = runs[n].doc /\ ~ InRun(w, n)
    BY <2>1, <2>4
  <2>10. faults' = 0 => faults = 0
    BY <1>24 DEF RunFailed
  <2> QED BY <2>2, <2>8, <2>9, <2>10, HInvWorker
<1>25. ASSUME NEW w \in Workers, DocFailed(w) PROVE HInv'
  <2>1. workers[w].at = "runFailed" /\ \A v \in Workers : v # w => workers'[v] = workers[v]
    BY <1>0, <1>25 DEF DocFailed, At
  <2>2. doc'.status = "processing" => doc' = doc /\ workers[w].doc # doc.id
    BY <1>0, <1>25 DEF DocFailed, UpdateStatus, Exists, Docs, TInv, Bindings, NoDoc
  <2> QED BY <1>0, <1>25, <2>1, <2>2, HInvWorker DEF DocFailed, Builds, InRun
<1>27. ASSUME NEW w \in Workers, EscapesRun(w) PROVE HInv'
  <2>1. workers[w].at \in {"running", "failing"} /\ workers[w].run \in 1..Len(runs)
    BY <1>27 DEF EscapesRun, TInv, Bindings
  <2>2. \A v \in Workers : v # w => workers'[v] = workers[v]
    BY <1>0, <1>27 DEF EscapesRun
  <2>3. /\ Len(runs') = Len(runs)
        /\ \A n \in 1..Len(runs) :
             /\ runs'[n].doc = runs[n].doc /\ runs'[n].status = runs[n].status
             /\ runs'[n].left = (n = workers[w].run \/ runs[n].left)
    BY <1>27, <2>1, LeaveTyped DEF EscapesRun
  <2>4. \A n \in 1..Len(runs) : ~ runs'[n].left => ~ runs[n].left /\ ~ InRun(w, n)
    BY <2>3 DEF InRun
  <2>5. doc'.status = "processing" => doc' = doc /\ workers[w].doc # doc.id
    BY <1>0, <1>27 DEF EscapesRun, UpdateStatus, Exists, Docs, TInv, Bindings, NoDoc
  <2>8. faults' = 0 /\ doc'.status = "processing" =>
          \/ Builds(w, doc.id)'
          \/ (doc.status = "processing" /\ doc'.id = doc.id /\ ~ Builds(w, doc.id))
    BY <2>5 DEF Builds
  <2>9. \A n \in 1..Len(runs') : runs'[n].status = "processing" /\ ~ runs'[n].left =>
          \/ InRun(w, n)'
          \/ /\ n \in 1..Len(runs) /\ runs[n].status = "processing" /\ ~ runs[n].left
             /\ runs'[n].doc = runs[n].doc /\ ~ InRun(w, n)
    BY <2>3, <2>4
  <2>10. faults' = 0 => faults = 0
    BY <1>27 DEF EscapesRun
  <2> QED BY <2>2, <2>8, <2>9, <2>10, HInvWorker
<1>26. CASE UNCHANGED vars
  BY <1>0, <1>26, HInvOthers DEF vars, serverVars, budget
<1> QED
  BY <1>1, <1>2, <1>3, <1>4, <1>6, <1>7, <1>8, <1>9, <1>10, <1>11, <1>12, <1>13, <1>14, <1>15,
     <1>16, <1>17, <1>18, <1>19, <1>20, <1>21, <1>22, <1>23, <1>24, <1>25, <1>26, <1>27
  DEF Next, Work, Serve

\* However retries, deletions and failures of the agent fall together, a document and a
\* run in progress are in the hands of a worker, but for the runs left by an exception
\* outside the agent's try.
THEOREM InProgressIsHeld == Spec => []ProcessingIsHeld
<1>1. TInv /\ HInv => ProcessingIsHeld
  <2>1. TInv => DOMAIN runs = 1..Len(runs)
    BY DEF TInv, TypeOK
  <2> QED BY <2>1 DEF HInv, DocHeld, RunsHeld, Builds, InRun, ProcessingIsHeld, Holds
<1> QED BY <1>1, TInvInit, TInvStep, HInvInit, HInvStep, PTL DEF Spec

-----------------------------------------------------------------------------
(* Results: what is stored in a document in progress, and what is known of its sources. *)

LInv == LaterSaveIsKnown /\ (doc.result # NoResult => doc.status \notin InProgress)

LEMMA LInvInit == Init => LInv
BY DEF Init, LInv, LaterSaveIsKnown, NoDoc

\* Steps that leave the result and the groupings alone.
LEMMA LInvOthers ==
  ASSUME LInv, UNCHANGED <<version, marking>>,
         doc'.result = doc.result, doc'.stale = doc.stale,
         doc'.status = doc.status \/ doc.result = NoResult \/ doc'.status \notin InProgress
  PROVE  LInv'
BY DEF LInv, LaterSaveIsKnown

LEMMA LInvStep == TInv /\ LInv /\ [Next]_vars => LInv'
<1> SUFFICES ASSUME TInv, LInv, [Next]_vars PROVE LInv'
  OBVIOUS
<1>0. doc \in Docs
  BY DEF TInv, TypeOK
<1>1. CASE Create
  BY <1>1, LInvOthers DEF Create, Fresh, NoDoc, sourceVars, LInv, LaterSaveIsKnown
<1>2. ASSUME UNCHANGED <<doc, sourceVars>> PROVE LInv'
  BY <1>2, LInvOthers DEF sourceVars
<1>3. CASE Delete
  BY <1>3 DEF Delete, NoDoc, LInv, LaterSaveIsKnown, sourceVars
<1>4. ASSUME NEW id, Reset(id), UNCHANGED sourceVars PROVE LInv'
  <2>1. doc' = doc \/ doc'.result = NoResult
    BY <1>0, <1>4 DEF Reset, ResetForRetry, Docs
  <2> QED BY <1>4, <2>1 DEF LInv, LaterSaveIsKnown, sourceVars
<1>5. ASSUME NEW id \in 1..MaxDocs, ResetInTab(id) PROVE LInv'
  BY <1>4, <1>5 DEF ResetInTab
<1>6. CASE SaveGrouping
  BY <1>6 DEF SaveGrouping, serverVars, LInv, LaterSaveIsKnown
<1>7. CASE MarkStale
  <2>1. doc'.status = doc.status /\ doc'.result = doc.result /\ (doc'.stale \/ doc'.result = NoResult)
    BY <1>0, <1>7 DEF MarkStale, Docs
  <2> QED BY <2>1 DEF LInv, LaterSaveIsKnown
<1>8. CASE ServeReset
  BY <1>4, <1>8 DEF ServeReset
<1>9. ASSUME NEW w \in Workers, Claim(w) PROVE LInv'
  <2>1. doc.status = "pending" /\ doc'.result = doc.result /\ doc'.stale = doc.stale
    BY <1>0, <1>9 DEF Claim, UpdateStatus, Docs
  <2>2. doc.result = NoResult
    BY <2>1 DEF LInv, InProgress
  <2> QED BY <1>9, <2>1, <2>2, LInvOthers DEF Claim, WorkerLeavesAlone, sourceVars
<1>10. ASSUME NEW id, UpdateStatus(id, "failed"), UNCHANGED sourceVars PROVE LInv'
  BY <1>0, <1>10, LInvOthers DEF UpdateStatus, Docs, InProgress, sourceVars
<1>11. ASSUME NEW w \in Workers, RunNotCreated(w) \/ DocFailed(w) \/ EscapesRun(w) PROVE LInv'
  BY <1>10, <1>11 DEF RunNotCreated, DocFailed, EscapesRun, WorkerLeavesAlone
<1>12. ASSUME NEW w \in Workers, SaveResult(w) PROVE LInv'
  <2>1. UNCHANGED sourceVars
    BY <1>12 DEF SaveResult, WorkerLeavesAlone
  <2>2. doc' = doc \/ (doc'.status = "done" /\ doc'.result.against = version)
    <3>1. UpdateResult(workers[w].run, workers[w].from) =>
            doc'.status = "done" /\ doc'.result.against = version
      BY <1>0 DEF UpdateResult, Docs
    <3> QED BY <1>12, <3>1 DEF SaveResult
  <2> QED BY <2>1, <2>2 DEF LInv, LaterSaveIsKnown, InProgress, sourceVars
<1>13. CASE Open \/ RetryInTab \/ Refresh \/ ClickRetry \/ ClickRead
  BY <1>2, <1>13 DEF Open, RetryInTab, Refresh, ClickRetry, ClickRead, Ask, serverVars
<1>14. CASE ServePoll \/ ServeRetry \/ ServeRead \/ ServeMark
  BY <1>2, <1>14 DEF ServePoll, ServeRetry, ServeRead, ServeMark, serverVars
<1>15. ASSUME NEW n \in 1..MaxFlight, Receive(n) PROVE LInv'
  BY <1>2, <1>15 DEF Receive, serverVars
<1>16. ASSUME NEW w \in Workers,
              \/ FindNothing(w) \/ Missing(w) \/ StartRun(w) \/ Research(w) \/ ModelFails(w)
              \/ RunDone(w) \/ RunFailed(w) \/ CountPending(w) \/ DeleteTask(w) \/ Crash(w)
       PROVE  LInv'
  BY <1>2, <1>16 DEF FindNothing, Missing, StartRun, Research, ModelFails, RunDone, RunFailed,
     CountPending, DeleteTask, Crash, WorkerLeavesAlone
<1>17. CASE UNCHANGED vars
  BY <1>2, <1>17 DEF vars, serverVars
<1> QED
  BY <1>1, <1>3, <1>5, <1>6, <1>7, <1>8, <1>9, <1>11, <1>12, <1>13, <1>14, <1>15, <1>16, <1>17
  DEF Next, Work, Serve

\* Once a saver of groupings has marked, the result it came after is known to be stale.
THEOREM SavesAreKnown == Spec => []LaterSaveIsKnown
<1>1. LInv => LaterSaveIsKnown
  BY DEF LInv
<1> QED BY <1>1, TInvInit, TInvStep, LInvInit, LInvStep, PTL DEF Spec

-----------------------------------------------------------------------------
(* The page. *)

\* While its requests do not overlap there is one under way at most.  A poll comes from
\* a page that polls, and the answer to a read is about a document that was over.
PInv ==
  ~ page.crowded =>
    /\ PollsInProgress
    /\ asked = {} \/ (answers = <<>> /\ \E r \in asked : asked = {r})
    /\ Len(answers) <= 1
    /\ "poll" \in asked => page.polling
    /\ "mark" \in asked /\ Exists(page.id) => doc.status \notin InProgress
    /\ \A n \in 1..Len(answers) :
         /\ answers[n].kind = "poll" => page.polling
         /\ answers[n].kind = "read" => answers[n].status \notin InProgress

LEMMA PInvInit == Init => PInv
<1> SUFFICES ASSUME Init PROVE PInv
  OBVIOUS
<1>1. page.shown = "done" /\ asked = {} /\ Len(answers) = 0
  BY DEF Init, NoPage
<1> QED BY <1>1 DEF PInv, PollsInProgress, InProgress

\* Steps of the server and the workers, which leave the page, its requests and answers.
LEMMA PInvOthers ==
  ASSUME PInv, UNCHANGED pageVars,
         "mark" \in asked /\ Exists(page.id)' /\ ~ page.crowded =>
           Exists(page.id) /\ (doc'.status = doc.status \/ doc'.status \notin InProgress)
  PROVE  PInv'
BY DEF PInv, PollsInProgress, pageVars

\* A request of the page that is answered, and one that goes on.
LEMMA PInvAnswers ==
  ASSUME TInv, PInv, UNCHANGED page,
         NEW request \in asked, NEW kind \in {"poll", "retry", "read"},
         NEW st \in Statuses \cup {"error"}, Answer(request, kind, st),
         ~ page.crowded /\ kind = "poll" => page.polling,
         ~ page.crowded /\ kind = "read" => st \notin InProgress
  PROVE  PInv'
<1> SUFFICES ASSUME ~ page.crowded PROVE PInv'
  BY DEF PInv
<1>1. asked = {request} /\ answers = <<>>
  BY DEF PInv
<1>2. asked' = {}
  BY <1>1 DEF Answer
<1>3. answers' = <<[kind |-> kind, status |-> st]>>
  BY <1>1 DEF Answer
<1>4. Len(answers') = 1 /\ answers'[1].kind = kind /\ answers'[1].status = st
  BY <1>3
<1> QED BY <1>2, <1>4 DEF PInv, PollsInProgress

\* A request of the page that goes out.
LEMMA PInvAsks ==
  ASSUME TInv, PInv, NEW kind \in {"poll", "retry", "read"}, Ask(kind),
         ~ page.crowded /\ kind = "poll" => page.polling
  PROVE  PInv'
<1>1. /\ page'.id = page.id /\ page'.shown = page.shown /\ page'.polling = page.polling
      /\ page'.crowded <=> page.crowded \/ asked # {} \/ answers # <<>>
  BY CrowdedTyped DEF Ask
<1> SUFFICES ASSUME ~ page.crowded, asked = {}, answers = <<>> PROVE PInv'
  BY <1>1 DEF PInv
<1>2. asked' = {kind} /\ answers' = <<>> /\ Len(answers') = 0
  BY DEF Ask
<1> QED BY <1>1, <1>2 DEF PInv, PollsInProgress

LEMMA PInvStep == TInv /\ LInv /\ PInv /\ [Next]_vars => PInv'
<1> SUFFICES ASSUME TInv, LInv, PInv, [Next]_vars PROVE PInv'
  OBVIOUS
<1>0. doc \in Docs /\ page \in Pages /\ page.id <= made /\ made \in Nat /\ page.id \in Nat
  BY BoundsAssumption DEF TInv, TypeOK, Bindings, Ids, Pages
<1>1. CASE Create
  <2>1. doc' = doc \/ doc'.id = made + 1
    BY <1>1 DEF Create, Fresh
  <2>2. Exists(page.id)' => doc' = doc
    BY <1>0, <1>1, <2>1 DEF Create, Exists, pageVars
  <2> QED BY <1>1, <2>2, PInvOthers DEF Create, Exists, pageVars
<1>2. CASE Open
  <2>1. page'.shown \in InProgress => page'.polling
    BY <1>2 DEF Open
  <2>2. asked' = {} /\ Len(answers') = 0
    BY <1>2 DEF Open
  <2> QED BY <2>1, <2>2 DEF PInv, PollsInProgress
<1>3. CASE Delete
  <2>1. ~ Exists(page.id)'
    BY <1>3 DEF Delete, Exists, NoDoc
  <2> QED BY <1>3, <2>1, PInvOthers DEF Delete
<1>4. ASSUME UNCHANGED <<doc, pageVars>> PROVE PInv'
  BY <1>4, PInvOthers DEF Exists, pageVars
<1>5. ASSUME NEW id \in 1..MaxDocs, ResetInTab(id) PROVE PInv'
  <2>1. /\ page'.id = page.id /\ page'.shown = page.shown /\ page'.polling = page.polling
        /\ page'.crowded <=> page.crowded \/ asked # {} \/ answers # <<>>
    BY <1>5, CrowdedTyped DEF ResetInTab
  <2>2. asked' = asked /\ answers' = answers
    BY <1>5 DEF ResetInTab
  <2> QED BY <2>1, <2>2 DEF PInv, PollsInProgress
<1>6. CASE MarkStale
  <2>1. doc'.status = doc.status /\ doc'.id = doc.id
    BY <1>0, <1>6 DEF MarkStale, Docs
  <2> QED BY <1>6, <2>1, PInvOthers DEF MarkStale, Exists, pageVars
<1>7. CASE Refresh
  BY <1>7, PInvAsks DEF Refresh, PInv, PollsInProgress
<1>8. CASE ClickRetry \/ ClickRead
  BY <1>8, PInvAsks DEF ClickRetry, ClickRead
<1>9. Detail \in Statuses \cup {"error"}
  BY DEF Detail, Exists, NoDoc, TInv, Bindings
<1>10. CASE ServePoll
  BY <1>9, <1>10, PInvAnswers DEF ServePoll, PInv
<1>11. CASE ServeRetry
  <2>1. CASE asked' = (asked \ {"retry"}) \cup {"reset"} /\ UNCHANGED answers
    <3>1. ~ page.crowded => asked = {"retry"} /\ answers = <<>> /\ asked' = {"reset"}
      BY <1>11, <2>1 DEF ServeRetry, PInv
    <3> QED BY <1>11, <2>1, <3>1 DEF ServeRetry, PInv, PollsInProgress
  <2>2. CASE Answer("retry", "retry", "error")
    BY <1>11, <2>2, PInvAnswers DEF ServeRetry
  <2> QED BY <1>11, <2>1, <2>2 DEF ServeRetry
<1>12. CASE ServeReset
  <2>1. PICK st \in {"pending", "error"} : Answer("reset", "retry", st)
    BY <1>12 DEF ServeReset
  <2>2. st \in Statuses \cup {"error"}
    BY DEF Statuses
  <2> QED BY <1>12, <2>1, <2>2, PInvAnswers DEF ServeReset
<1>13. CASE ServeRead
  <2>1. CASE /\ Exists(page.id) /\ doc.result # NoResult
             /\ asked' = (asked \ {"read"}) \cup {"mark"} /\ UNCHANGED answers
    <3>1. ~ page.crowded => asked = {"read"} /\ answers = <<>> /\ asked' = {"mark"}
      BY <1>13, <2>1 DEF ServeRead, PInv
    <3>2. doc.status \notin InProgress /\ UNCHANGED <<doc, page>>
      BY <1>13, <2>1 DEF LInv, ServeRead, serverVars
    <3> QED BY <2>1, <3>1, <3>2 DEF PInv, PollsInProgress
  <2>2. CASE Answer("read", "read", "error")
    BY <1>13, <2>2, PInvAnswers DEF ServeRead, InProgress
  <2> QED BY <1>13, <2>1, <2>2 DEF ServeRead
<1>14. CASE ServeMark
  <2>1. ~ page.crowded => Detail \notin InProgress
    BY <1>14 DEF ServeMark, PInv, Detail, InProgress
  <2> QED BY <1>9, <1>14, <2>1, PInvAnswers DEF ServeMark
<1>15. ASSUME NEW n \in 1..MaxFlight, Receive(n) PROVE PInv'
  <2>1. n \in 1..Len(answers) /\ answers \in Seq(Answers) /\ answers[n] \in Answers
    BY <1>15 DEF Receive, TInv, TypeOK
  <2>2. answers' = RemoveAt(answers, n) /\ Render(answers[n]) /\ asked' = asked /\ doc' = doc
    BY <1>15 DEF Receive, serverVars
  <2>3. ~ page'.crowded => ~ page.crowded
    BY <1>0, <2>2 DEF Render, Pages
  <2> SUFFICES ASSUME ~ page.crowded PROVE PInv'
    BY <2>3 DEF PInv, PollsInProgress
  <2>4. Len(answers) = 1 /\ asked = {}
    <3>1. Len(answers) \in Nat /\ Len(answers) >= 1 /\ answers # <<>>
      BY <2>1
    <3>2. Len(answers) <= 1 /\ (asked = {} \/ answers = <<>>)
      BY Zenon DEF PInv
    <3>3. asked = {}
      BY <3>1, <3>2
    <3>4. Len(answers) = 1
      BY <3>1, <3>2, OneAtMost, Zenon
    <3> QED BY <3>3, <3>4
  <2>5. Len(answers') = 0
    <3>1. Len(RemoveAt(answers, n)) = Len(answers) - 1
      BY <2>1, RemoveAtTyped
    <3> QED BY <2>2, <2>4, <3>1
  <2>6. PollsInProgress'
    <3>1. CASE answers[n].status = "error"
      BY <2>2, <3>1 DEF Render, PInv, PollsInProgress
    <3>2. CASE answers[n].status # "error"
      <4>1. /\ page'.shown = answers[n].status
            /\ page'.polling = Polls(answers[n].kind, answers[n].status)
        BY <1>0, <2>2, <3>2 DEF Render, Pages
      <4>2. answers[n].kind \in {"poll", "retry", "read"}
        BY <2>1 DEF Answers
      <4> QED BY <2>1, <4>1, <4>2 DEF Polls, PInv, PollsInProgress
    <3> QED BY <3>1, <3>2
  <2> QED BY <2>2, <2>4, <2>5, <2>6 DEF PInv
<1>16. ASSUME NEW w \in Workers, Claim(w) PROVE PInv'
  <2>1. doc.status \in InProgress /\ doc'.id = doc.id
    BY <1>0, <1>16 DEF Claim, UpdateStatus, Docs, InProgress
  <2>2. ~ page.crowded => ~ ("mark" \in asked /\ Exists(page.id))
    BY <2>1 DEF PInv
  <2>3. UNCHANGED pageVars /\ (Exists(page.id)' => Exists(page.id))
    BY <1>16, <2>1 DEF Claim, WorkerLeavesAlone, Exists, pageVars
  <2> QED BY <2>2, <2>3, PInvOthers
<1>17. ASSUME NEW id, UpdateStatus(id, "failed"), UNCHANGED pageVars PROVE PInv'
  <2>1. doc'.id = doc.id /\ (doc'.status = doc.status \/ doc'.status = "failed")
    BY <1>0, <1>17 DEF UpdateStatus, Docs
  <2> QED BY <1>17, <2>1, PInvOthers DEF Exists, InProgress, pageVars
<1>18. ASSUME NEW w \in Workers, RunNotCreated(w) \/ DocFailed(w) \/ EscapesRun(w) PROVE PInv'
  <2>1. UNCHANGED pageVars /\ \E id : UpdateStatus(id, "failed")
    BY <1>18 DEF RunNotCreated, DocFailed, EscapesRun, WorkerLeavesAlone
  <2> QED BY <1>17, <2>1
<1>19. ASSUME NEW w \in Workers, SaveResult(w) PROVE PInv'
  <2>1. UNCHANGED pageVars
    BY <1>19 DEF SaveResult, WorkerLeavesAlone
  <2>2. doc'.id = doc.id /\ (doc' = doc \/ doc'.status = "done")
    <3>1. UpdateResult(workers[w].run, workers[w].from) => doc'.status = "done" /\ doc'.id = doc.id
      BY <1>0 DEF UpdateResult, Docs
    <3> QED BY <1>19, <3>1 DEF SaveResult
  <2> QED BY <2>1, <2>2, PInvOthers DEF Exists, InProgress, pageVars
<1>20. CASE RetryInTab \/ SaveGrouping
  BY <1>4, <1>20 DEF RetryInTab, SaveGrouping, serverVars
<1>21. ASSUME NEW w \in Workers,
              \/ FindNothing(w) \/ Missing(w) \/ StartRun(w) \/ Research(w) \/ ModelFails(w)
              \/ RunDone(w) \/ RunFailed(w) \/ CountPending(w) \/ DeleteTask(w) \/ Crash(w)
       PROVE  PInv'
  BY <1>4, <1>21 DEF FindNothing, Missing, StartRun, Research, ModelFails, RunDone, RunFailed,
     CountPending, DeleteTask, Crash, WorkerLeavesAlone
<1>22. CASE UNCHANGED vars
  BY <1>4, <1>22 DEF vars, serverVars
<1> QED
  BY <1>1, <1>2, <1>3, <1>5, <1>6, <1>7, <1>8, <1>10, <1>11, <1>12, <1>13, <1>14, <1>15, <1>16,
     <1>18, <1>19, <1>20, <1>21, <1>22
  DEF Next, Work, Serve

\* A page that shows progress polls, unless its requests have overlapped.
THEOREM PageKeepsPolling == Spec => []PollsUncrowded
<1>1. PInv => PollsUncrowded
  BY DEF PInv, PollsUncrowded
<1> QED BY <1>1, TInvInit, TInvStep, LInvInit, LInvStep, PInvInit, PInvStep, PTL DEF Spec

=============================================================================
