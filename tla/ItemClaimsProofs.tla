--------------------------- MODULE ItemClaimsProofs ---------------------------
(***************************************************************************)
(* Proofs about ItemClaims, for any number of items, external workers and     *)
(* tokens, and any scenes.                                                    *)
(***************************************************************************)
EXTENDS ItemClaims, TLAPS

-----------------------------------------------------------------------------
(* Types. *)

\* What the place of a thread, a worker or the clean-up says about the rest.
Bindings ==
  /\ \A w \in Workers : srv[w] \in {"accepted", "saved"} =>
       srvItem[w] \in Items /\ srvStamp[w] \in Stamps
  /\ pc \in {"found", "working", "saved", "marked"} => mine \in Items
  /\ ~ scene.inside => pc = "idle"
  /\ cleaning # "no" => cleanups > 0

TInv == TypeOK /\ Bindings

\* The time of a new lock is nobody's.
LEMMA FreshStampIsFresh ==
  ASSUME TypeOK
  PROVE  /\ FreshStamp \in Stamps /\ FreshStamp # Unlocked
         /\ \A i \in Items : lock[i] # FreshStamp
         /\ \A w \in Workers : srvStamp[w] # FreshStamp
<1>1. \E s \in Stamps : (\A i \in Items : lock[i] # s) /\ \A w \in Workers : srvStamp[w] # s
  BY StampsAssumption DEF TypeOK
<1> QED BY <1>1, NamesAssumption DEF FreshStamp

LEMMA SceneTyped ==
  ASSUME TypeOK
  PROVE  /\ scene.items \in SUBSET Items /\ scene.inside \in BOOLEAN
         /\ scene.faults \in Nat /\ scene.cleanups \in Nat
BY ScenesAssumption DEF TypeOK

LEMMA TInvInit == Init => TInv
<1> SUFFICES ASSUME Init PROVE TInv
  OBVIOUS
<1>1. scene.faults \in Nat /\ scene.cleanups \in Nat
  BY ScenesAssumption DEF Init
<1> QED BY <1>1 DEF Init, TInv, TypeOK, Bindings

LEMMA TInvStep == TInv /\ [Next]_vars => TInv'
<1> SUFFICES ASSUME TInv, [Next]_vars PROVE TInv'
  OBVIOUS
<1> USE DEF TInv, TypeOK, Bindings
<1>0. /\ FreshStamp \in Stamps
      /\ scene.items \in SUBSET Items /\ scene.faults \in Nat /\ scene.cleanups \in Nat
  BY FreshStampIsFresh, SceneTyped
<1>1. ASSUME NEW w \in Workers, ClaimExternal(w) PROVE TInv'
  <2>1. PICK i \in Claimable :
          /\ Stamp(i)
          /\ token' = [token EXCEPT ![i] = TokenOf[w]]
          /\ work' = [work EXCEPT ![w] = i]
          /\ fresh' = [fresh EXCEPT ![w] = TRUE]
          /\ last' = [last EXCEPT ![i] = w]
    BY <1>1 DEF ClaimExternal
  <2>2. i \in Items
    BY <1>0 DEF Claimable, Pending
  <2>3. TokenOf[w] \in Tokens
    BY TokensAssumption
  <2>4. lock' \in [Items -> Stamps \cup {Unlocked}] /\ stale' \in [Items -> BOOLEAN]
    BY <1>0, <2>1, <2>2 DEF Stamp
  <2> QED BY <1>1, <2>1, <2>2, <2>3, <2>4 DEF ClaimExternal, srvVars, bounds
<1>2. ASSUME NEW w \in Workers, ClaimNothing(w) PROVE TInv'
  BY <1>2 DEF ClaimNothing, GoOn, itemVars, workVars, bounds
<1>3. ASSUME NEW w \in Workers, Submit(w) PROVE TInv'
  <2>1. work[w] \in Items
    BY <1>3 DEF Submit
  <2>2. faults' \in 0..scene.faults /\ scene' = scene /\ cleanups' = cleanups
    BY <1>0, <1>3 DEF Submit, Fault, bounds
  <2>3. srvOk' \in [Workers -> BOOLEAN]
    BY <1>3 DEF Submit
  <2> QED BY <1>0, <1>3, <2>1, <2>2, <2>3 DEF Submit, Stamp, DropWork
<1>4. ASSUME NEW w \in Workers, SubmitRejected(w) PROVE TInv'
  BY <1>4 DEF SubmitRejected, DropWork, itemVars, srvVars, bounds
<1>5. ASSUME NEW w \in Workers, LoseWork(w) PROVE TInv'
  BY <1>0, <1>5 DEF LoseWork, Fault, DropWork, itemVars, srvVars
<1>6. ASSUME NEW w \in Workers, SaveResult(w) PROVE TInv'
  BY <1>6 DEF SaveResult, GoOn, workVars, bounds
<1>7. ASSUME NEW w \in Workers, FailResult(w) PROVE TInv'
  <2>1. faults' \in 0..scene.faults /\ scene' = scene /\ cleanups' = cleanups
    BY <1>0, <1>7 DEF FailResult, Fault, bounds
  <2>2. /\ lock' \in [Items -> Stamps \cup {Unlocked}] /\ stale' \in [Items -> BOOLEAN]
        /\ token' \in [Items -> Tokens \cup {NoToken}]
    BY <1>7 DEF FailResult, Unlock
  <2> QED BY <1>7, <2>1, <2>2 DEF FailResult, Leave, workVars
<1>8. ASSUME NEW w \in Workers, MarkResult(w) PROVE TInv'
  <2>1. /\ lock' \in [Items -> Stamps \cup {Unlocked}] /\ stale' \in [Items -> BOOLEAN]
        /\ token' \in [Items -> Tokens \cup {NoToken}] /\ done' \in [Items -> BOOLEAN]
    <3>1. CASE lock[srvItem[w]] = srvStamp[w]
      BY <1>8, <3>1 DEF MarkResult, Unlock
    <3>2. CASE lock[srvItem[w]] # srvStamp[w]
      BY <1>8, <3>2 DEF MarkResult
    <3> QED BY <3>1, <3>2
  <2> QED BY <1>8, <2>1 DEF MarkResult, Leave, workVars, bounds
<1>9. ASSUME NEW w \in Workers, Count(w) PROVE TInv'
  BY <1>9 DEF Count, GoOn, itemVars, workVars, bounds
<1>10. ASSUME NEW w \in Workers, Delete(w) PROVE TInv'
  BY <1>10 DEF Delete, DeleteTask, itemVars, workVars, bounds
<1>11. CASE Find
  BY <1>0, <1>11 DEF Find, Claimable, Pending, itemVars, workVars, srvVars, bounds
<1>12. CASE Lock
  BY <1>0, <1>12 DEF Lock, Stamp, workVars, srvVars, bounds
<1>13. CASE Save
  BY <1>13 DEF Save, workVars, srvVars, bounds
<1>14. CASE Mark
  BY <1>14 DEF Mark, Unlock, workVars, srvVars, bounds
<1>15. CASE GiveUp
  BY <1>0, <1>15 DEF GiveUp, Fault, itemVars, workVars, srvVars
<1>16. CASE Complete
  BY <1>16 DEF Complete, DeleteTask, itemVars, workVars, bounds
<1>17. CASE DeleteGroupings
  BY <1>0, <1>17 DEF DeleteGroupings, workVars, srvVars
<1>18. CASE ResetPosts
  BY <1>18 DEF ResetPosts, workVars, srvVars, bounds
<1>19. CASE Reopen
  BY <1>19 DEF Reopen, itemVars, workVars, srvVars, bounds
<1>20. ASSUME NEW i \in Items, Age(i) PROVE TInv'
  <2>1. faults' \in 0..scene.faults /\ scene' = scene /\ cleanups' = cleanups
    BY <1>0, <1>20 DEF Age, Fault, bounds
  <2> QED BY <1>20, <2>1 DEF Age, srvVars
<1>21. CASE UNCHANGED vars
  BY <1>21 DEF vars
<1> QED
  BY <1>1, <1>2, <1>3, <1>4, <1>5, <1>6, <1>7, <1>8, <1>9, <1>10, <1>11, <1>12, <1>13,
     <1>14, <1>15, <1>16, <1>17, <1>18, <1>19, <1>20, <1>21
  DEF Next, External, Server, Internal, Cleanup

\* Every field, copy and counter has its type.
THEOREM TypeCorrect == Spec => []TypeOK
<1>1. TInv => TypeOK
  BY DEF TInv
<1> QED BY <1>1, TInvInit, TInvStep, PTL DEF Spec
-----------------------------------------------------------------------------
(* What is marked is saved. *)

Exact == scene.inside => cleanups = 0

\* The mark of a thread depends on its lock, which no clean-up leaves it; that of the
\* program's worker on nothing.
SInv ==
  Exact =>
    /\ cleaning # "deleted" => \A i \in scene.items : done[i] => saved[i]
    /\ cleaning # "deleted" => \A w \in Workers :
         srv[w] = "saved" /\ lock[srvItem[w]] = srvStamp[w] => saved[srvItem[w]]
    /\ pc \in {"saved", "marked"} => saved[mine]

LEMMA SInvInit == Init => SInv
<1> SUFFICES ASSUME Init PROVE SInv
  OBVIOUS
<1>1. scene.items \in SUBSET Items
  BY ScenesAssumption DEF Init
<1> QED BY <1>1 DEF Init, SInv

LEMMA SInvStep == TInv /\ SInv /\ [Next]_vars => SInv'
<1> SUFFICES ASSUME TInv, SInv, [Next]_vars, Exact' PROVE SInv'
  BY DEF SInv
<1>0. /\ FreshStamp \in Stamps /\ \A w \in Workers : srvStamp[w] # FreshStamp
      /\ scene.items \in SUBSET Items /\ TInv'
  BY FreshStampIsFresh, SceneTyped, TInvStep DEF TInv
<1>1. ASSUME cleanups' = cleanups, scene' = scene
      PROVE  /\ cleaning # "deleted" => \A i \in scene.items : done[i] => saved[i]
             /\ cleaning # "deleted" => \A w \in Workers :
                  srv[w] = "saved" /\ lock[srvItem[w]] = srvStamp[w] => saved[srvItem[w]]
             /\ pc \in {"saved", "marked"} => saved[mine]
  BY <1>1 DEF SInv, Exact
<1> USE DEF SInv, TInv, TypeOK, Bindings
\* A new lock is no thread's that has saved.
<1>2. ASSUME NEW i \in Items, Stamp(i), UNCHANGED <<done, saved, pc, mine, cleaning, scene, cleanups>>,
             \A w \in Workers : srv'[w] = "saved" =>
               srv[w] = "saved" /\ srvItem'[w] = srvItem[w] /\ srvStamp'[w] = srvStamp[w]
      PROVE  SInv'
  BY <1>0, <1>1, <1>2 DEF Stamp
<1>3. ASSUME NEW w \in Workers, ClaimExternal(w) PROVE SInv'
  <2>1. PICK i \in Claimable : Stamp(i)
    BY <1>3 DEF ClaimExternal
  <2>2. i \in Items
    BY <1>0 DEF Claimable, Pending
  <2> QED BY <1>2, <1>3, <2>1, <2>2 DEF ClaimExternal, srvVars, bounds
<1>4. ASSUME NEW w \in Workers, Submit(w) PROVE SInv'
  <2>1. work[w] \in Items
    BY <1>4 DEF Submit
  <2>2. scene' = scene /\ cleanups' = cleanups
    BY <1>4 DEF Submit, Fault, bounds
  <2> QED BY <1>2, <1>4, <2>1, <2>2 DEF Submit
<1>5. ASSUME NEW w \in Workers, SaveResult(w) PROVE SInv'
  BY <1>0, <1>1, <1>5 DEF SaveResult, GoOn, bounds
<1>6. ASSUME NEW w \in Workers, FailResult(w) PROVE SInv'
  <2>1. scene' = scene /\ cleanups' = cleanups
    BY <1>6 DEF FailResult, Fault, bounds
  <2>2. \A i \in Items : lock'[i] \in {lock[i], Unlocked}
    BY <1>6 DEF FailResult, Unlock
  <2> QED BY <1>0, <1>1, <1>6, <2>1, <2>2, NamesAssumption DEF FailResult, Leave
<1>7. ASSUME NEW w \in Workers, MarkResult(w) PROVE SInv'
  <2>1. \A i \in Items : lock'[i] \in {lock[i], Unlocked}
    BY <1>7 DEF MarkResult, Unlock
  <2>2. \A i \in Items : done'[i] = done[i]
           \/ (i = srvItem[w] /\ lock[srvItem[w]] = srvStamp[w])
    BY <1>7 DEF MarkResult
  <2> QED BY <1>0, <1>1, <1>7, <2>1, <2>2, NamesAssumption DEF MarkResult, Leave, bounds
<1>8. ASSUME NEW w \in Workers, ClaimNothing(w) \/ Count(w) PROVE SInv'
  BY <1>0, <1>1, <1>8 DEF ClaimNothing, Count, GoOn, itemVars, bounds
<1>9. ASSUME NEW w \in Workers, SubmitRejected(w) PROVE SInv'
  BY <1>1, <1>9 DEF SubmitRejected, itemVars, srvVars, bounds
<1>10. ASSUME NEW w \in Workers, LoseWork(w) PROVE SInv'
  BY <1>1, <1>10 DEF LoseWork, Fault, itemVars, srvVars
<1>11. ASSUME DeleteTask, UNCHANGED <<itemVars, mine, cleaning, bounds>> PROVE SInv'
  BY <1>1, <1>11 DEF DeleteTask, itemVars, bounds
<1>12. CASE Find
  BY <1>1, <1>12 DEF Find, itemVars, srvVars, bounds
<1>13. CASE Lock
  <2>1. mine \in Items /\ Stamp(mine) /\ pc' = "working"
    BY <1>13 DEF Lock
  <2> QED BY <1>0, <1>1, <1>13, <2>1 DEF Lock, Stamp, srvVars, bounds
<1>14. CASE Save
  BY <1>0, <1>1, <1>14 DEF Save, srvVars, bounds
<1>15. CASE Mark
  BY <1>0, <1>1, <1>15, NamesAssumption DEF Mark, Unlock, srvVars, bounds
<1>16. CASE GiveUp
  BY <1>1, <1>16 DEF GiveUp, Fault, itemVars, srvVars
<1>17. CASE DeleteGroupings
  <2>1. ~ scene.inside
    BY <1>17, SceneTyped DEF DeleteGroupings, Exact
  <2> QED BY <1>17, <2>1 DEF DeleteGroupings
<1>18. CASE ResetPosts
  BY <1>0, <1>1, <1>18, NamesAssumption DEF ResetPosts, srvVars, bounds
<1>19. CASE Reopen
  BY <1>1, <1>19 DEF Reopen, itemVars, srvVars, bounds
<1>20. ASSUME NEW i \in Items, Age(i) PROVE SInv'
  <2>1. scene' = scene /\ cleanups' = cleanups
    BY <1>20 DEF Age, Fault, bounds
  <2> QED BY <1>1, <1>20, <2>1 DEF Age, srvVars
<1>21. CASE UNCHANGED vars
  BY <1>1, <1>21 DEF vars
<1> QED
  BY <1>3, <1>4, <1>5, <1>6, <1>7, <1>8, <1>9, <1>10, <1>11, <1>12, <1>13, <1>14, <1>15,
     <1>16, <1>17, <1>18, <1>19, <1>20, <1>21
  DEF Next, External, Server, Internal, Cleanup, Delete, Complete

\* An item says that it is grouped only if its grouping is there.
THEOREM MarkedIsSaved == Spec => []DoneSaved
<1>1. SInv => DoneSaved
  BY DEF SInv, DoneSaved, Exact
<1> QED BY <1>1, TInvInit, TInvStep, SInvInit, SInvStep, PTL DEF Spec
-----------------------------------------------------------------------------
(* Claims.  Workers are told apart by their tokens. *)

OneTokenEach == \A v, w \in Workers : TokenOf[v] = TokenOf[w] => v = w

\* The item of a fresh claim is done, or its lock is that of the claim or of the
\* program's worker, and its token the claim's.
Held(w) ==
  \/ done[work[w]]
  \/ /\ lock[work[w]] # Unlocked /\ ~ stale[work[w]] /\ token[work[w]] = TokenOf[w]
     /\ \A v \in Workers : srv[v] \in {"accepted", "saved"} /\ srvItem[v] = work[w] =>
          srvStamp[v] # lock[work[w]]

HasClaim(w) == work[w] # NoItem /\ fresh[w]

EInv == ClaimsExclude /\ (cleanups = 0 => \A w \in Workers : HasClaim(w) => Held(w))

LEMMA EInvInit == Init => EInv
BY DEF Init, EInv, ClaimsExclude, HasClaim

LEMMA EInvStep ==
  ASSUME OneTokenEach
  PROVE  TInv /\ EInv /\ [Next]_vars => EInv'
<1> SUFFICES ASSUME TInv, EInv, [Next]_vars, cleanups' = 0 PROVE EInv'
  BY DEF EInv, ClaimsExclude
<1> USE DEF TInv, TypeOK, Bindings
<1>0. /\ FreshStamp \in Stamps /\ FreshStamp # Unlocked
      /\ \A v \in Workers : srvStamp[v] # FreshStamp
      /\ scene.items \in SUBSET Items /\ scene.faults \in Nat /\ scene.cleanups \in Nat
  BY FreshStampIsFresh, SceneTyped
<1>1. ASSUME cleanups' = cleanups
      PROVE  /\ \A w \in Workers : HasClaim(w) => work[w] \in Items /\ Held(w)
             /\ \A v, w \in Workers : HasClaim(v) /\ HasClaim(w) /\ work[v] = work[w] => v = w
             /\ cleaning = "no"
  BY <1>1 DEF EInv, ClaimsExclude, HasClaim
\* Claims that do not become more, and keep what they hold.
<1>2. ASSUME cleanups' = cleanups,
             \A w \in Workers : HasClaim(w)' => HasClaim(w) /\ work'[w] = work[w] /\ Held(w)'
      PROVE  EInv'
  BY <1>1, <1>2 DEF EInv, ClaimsExclude, HasClaim
<1>3. ASSUME NEW w \in Workers, ClaimExternal(w) PROVE EInv'
  <2>0. cleanups' = cleanups
    BY <1>3 DEF ClaimExternal, bounds
  <2>1. PICK i \in Claimable :
          /\ Stamp(i)
          /\ token' = [token EXCEPT ![i] = TokenOf[w]]
          /\ work' = [work EXCEPT ![w] = i]
          /\ fresh' = [fresh EXCEPT ![w] = TRUE]
    BY <1>3 DEF ClaimExternal
  <2>2. i \in Items /\ ~ done[i] /\ (lock[i] = Unlocked \/ stale[i])
    BY <1>0 DEF Claimable, Pending
  <2>3. \A v \in Workers : HasClaim(v) => work[v] # i
    BY <1>1, <2>0, <2>2 DEF Held
  <2>4. \A v \in Workers \ {w} : HasClaim(v)' => HasClaim(v) /\ work'[v] = work[v] /\ Held(v)'
    BY <1>1, <1>3, <2>0, <2>1, <2>2, <2>3 DEF ClaimExternal, HasClaim, Held, Stamp, srvVars
  <2>5. work'[w] = i /\ Held(w)'
    BY <1>0, <1>3, <2>1, <2>2 DEF ClaimExternal, Held, Stamp, srvVars
  <2> QED BY <1>1, <2>0, <2>3, <2>4, <2>5 DEF EInv, ClaimsExclude, HasClaim
<1>4. ASSUME NEW w \in Workers, Submit(w) PROVE EInv'
  <2>0. cleanups' = cleanups
    BY <1>4 DEF Submit, Fault, bounds
  <2>1. /\ work[w] \in Items /\ ~ done[work[w]] /\ token[work[w]] = TokenOf[w]
        /\ Stamp(work[w]) /\ DropWork(w) /\ token' = token /\ done' = done
        /\ srv' = [srv EXCEPT ![w] = "accepted"]
        /\ srvItem' = [srvItem EXCEPT ![w] = work[w]]
        /\ srvStamp' = [srvStamp EXCEPT ![w] = FreshStamp]
    BY <1>4 DEF Submit, Accepts
  <2>2. \A v \in Workers \ {w} : HasClaim(v) => work[v] # work[w]
    BY <1>1, <2>0, <2>1 DEF Held, OneTokenEach
  <2>3. \A v \in Workers : HasClaim(v)' => v # w /\ HasClaim(v) /\ work'[v] = work[v]
    BY <2>1 DEF DropWork, HasClaim
  <2>4. \A v \in Workers \ {w} : HasClaim(v) /\ work'[v] = work[v] => Held(v)'
    BY <1>1, <2>0, <2>1, <2>2 DEF Held, Stamp, HasClaim
  <2> QED BY <1>2, <2>0, <2>3, <2>4
<1>5. ASSUME NEW w \in Workers, DropWork(w), UNCHANGED <<itemVars, srvVars>>, cleanups' = cleanups
      PROVE  EInv'
  BY <1>1, <1>2, <1>5 DEF DropWork, HasClaim, Held, itemVars, srvVars
<1>6. ASSUME UNCHANGED <<itemVars, workVars>>, cleanups' = cleanups,
             \A v \in Workers : srv'[v] \in {"accepted", "saved"} =>
               /\ srv[v] \in {"accepted", "saved"}
               /\ srvItem'[v] = srvItem[v] /\ srvStamp'[v] = srvStamp[v]
      PROVE  EInv'
  BY <1>1, <1>2, <1>6 DEF HasClaim, Held, itemVars, workVars
<1>7. ASSUME NEW w \in Workers, SaveResult(w) PROVE EInv'
  BY <1>1, <1>2, <1>7 DEF SaveResult, GoOn, HasClaim, Held, workVars, bounds
<1>8. ASSUME NEW w \in Workers, FailResult(w) PROVE EInv'
  <2>0. cleanups' = cleanups
    BY <1>8 DEF FailResult, Fault, bounds
  <2>1. \A v \in Workers : HasClaim(v) => Held(v)'
    BY <1>1, <1>8, <2>0 DEF FailResult, Unlock, Leave, Held, workVars
  <2> QED BY <1>2, <1>8, <2>0, <2>1 DEF FailResult, HasClaim, workVars
<1>9. ASSUME NEW w \in Workers, MarkResult(w) PROVE EInv'
  <2>0. cleanups' = cleanups
    BY <1>9 DEF MarkResult, bounds
  <2>1. \A v \in Workers : HasClaim(v) => Held(v)'
    BY <1>1, <1>9, <2>0 DEF MarkResult, Unlock, Leave, Held, workVars
  <2> QED BY <1>2, <1>9, <2>0, <2>1 DEF MarkResult, HasClaim, workVars
<1>10. ASSUME NEW w \in Workers, ClaimNothing(w) \/ Count(w) \/ Delete(w) PROVE EInv'
  BY <1>6, <1>10 DEF ClaimNothing, Count, GoOn, Delete, DeleteTask, bounds
<1>11. CASE Find \/ GiveUp \/ Complete
  BY <1>6, <1>11 DEF Find, GiveUp, Fault, Complete, DeleteTask, srvVars, bounds
<1>12. CASE Lock
  <2>1. mine \in Items /\ Stamp(mine) /\ cleanups' = cleanups
    BY <1>12 DEF Lock, bounds
  <2>2. \A v \in Workers : HasClaim(v) => Held(v)'
    BY <1>0, <1>1, <1>12, <2>1 DEF Lock, Stamp, Held, workVars, srvVars
  <2> QED BY <1>2, <1>12, <2>1, <2>2 DEF Lock, HasClaim, workVars
<1>13. CASE Save
  BY <1>1, <1>2, <1>13 DEF Save, HasClaim, Held, workVars, srvVars, bounds
<1>14. CASE Mark
  <2>1. mine \in Items /\ cleanups' = cleanups
    BY <1>14 DEF Mark, bounds
  <2>2. \A v \in Workers : HasClaim(v) => Held(v)'
    BY <1>1, <1>14, <2>1 DEF Mark, Unlock, Held, workVars, srvVars
  <2> QED BY <1>2, <1>14, <2>1, <2>2 DEF Mark, HasClaim, workVars
<1>15. CASE DeleteGroupings
  BY <1>0, <1>15 DEF DeleteGroupings
<1>16. CASE ResetPosts
  BY <1>1, <1>16 DEF ResetPosts, bounds
<1>17. CASE Reopen
  BY <1>1, <1>17 DEF Reopen, bounds
<1>18. ASSUME NEW i \in Items, Age(i) PROVE EInv'
  <2>0. cleanups' = cleanups
    BY <1>18 DEF Age, Fault, bounds
  <2>1. \A v \in Workers : HasClaim(v)' => HasClaim(v) /\ work'[v] = work[v] /\ work[v] # i
    BY <1>18 DEF Age, HasClaim
  <2>2. \A v \in Workers : HasClaim(v) /\ work[v] # i /\ work'[v] = work[v] => Held(v)'
    BY <1>1, <1>18, <2>0 DEF Age, Held, srvVars
  <2> QED BY <1>2, <2>0, <2>1, <2>2
<1>19. CASE UNCHANGED vars
  BY <1>6, <1>19 DEF vars, itemVars, workVars
<1>20. ASSUME NEW w \in Workers, SubmitRejected(w) \/ LoseWork(w) PROVE EInv'
  BY <1>5, <1>20 DEF SubmitRejected, LoseWork, Fault, bounds
<1> QED
  BY <1>3, <1>4, <1>7, <1>8, <1>9, <1>10, <1>11, <1>12, <1>13, <1>14, <1>15, <1>16, <1>17,
     <1>18, <1>19, <1>20
  DEF Next, External, Server, Internal, Cleanup

\* Two external workers with tokens of their own never hold young claims on one item,
\* whatever an older request or the program's worker does to its lock.
THEOREM ClaimsAreExclusive ==
  ASSUME OneTokenEach
  PROVE  Spec => []ClaimsExclude
<1>1. EInv => ClaimsExclude
  BY DEF EInv
<1>2. TInv /\ EInv /\ [Next]_vars => EInv'
  BY EInvStep
<1> QED BY <1>1, <1>2, TInvInit, TInvStep, EInvInit, PTL DEF Spec

-----------------------------------------------------------------------------
(* Late results. *)

\* The token of an item is that of its last claim.
LastToken ==
  \A i \in Items : token[i] # NoToken => last[i] \in Workers /\ token[i] = TokenOf[last[i]]

LEMMA LastTokenInit == Init => LastToken
BY DEF Init, LastToken

LEMMA LastTokenStep == TInv /\ LastToken /\ [Next]_vars => LastToken'
<1> SUFFICES ASSUME TInv, LastToken, [Next]_vars PROVE LastToken'
  OBVIOUS
<1> USE DEF LastToken, TInv, TypeOK
<1>1. ASSUME NEW w \in Workers, ClaimExternal(w) PROVE LastToken'
  <2>1. PICK i \in Claimable :
          token' = [token EXCEPT ![i] = TokenOf[w]] /\ last' = [last EXCEPT ![i] = w]
    BY <1>1 DEF ClaimExternal
  <2> QED BY <2>1
<1>2. ASSUME NEW w \in Workers, FailResult(w) \/ MarkResult(w) PROVE LastToken'
  <2>1. \A i \in Items : token'[i] \in {token[i], NoToken}
    BY <1>2 DEF FailResult, MarkResult
  <2> QED BY <1>2, <2>1 DEF FailResult, MarkResult, workVars
<1>3. CASE UNCHANGED <<token, last>>
  BY <1>3
<1> QED
  BY <1>1, <1>2, <1>3
  DEF Next, External, Server, Internal, Cleanup, ClaimNothing, Submit, SubmitRejected, LoseWork,
      SaveResult, Count, Delete, DeleteTask, DropWork, Find, Lock, Save, Mark, GiveUp, Complete,
      DeleteGroupings, ResetPosts, Reopen, Age, GoOn, itemVars, workVars, vars

\* The server accepts a result only from the worker that claimed the item last.
THEOREM LateIsRejected ==
  ASSUME OneTokenEach
  PROVE  Spec => LateResultRejected
<1> DEFINE Rejects == \A w \in Workers :
             srv[w] = "none" /\ srv'[w] = "accepted" => last[work[w]] = w
<1>1. TInv /\ LastToken /\ [Next]_vars => [Rejects]_vars
  <2> SUFFICES ASSUME TInv, LastToken, Next, NEW w \in Workers,
                      srv[w] = "none", srv'[w] = "accepted"
               PROVE  last[work[w]] = w
    OBVIOUS
  <2>1. Submit(w)
    BY DEF Next, External, Server, Internal, Cleanup, ClaimExternal, ClaimNothing, Submit,
       SubmitRejected, LoseWork, SaveResult, FailResult, MarkResult, Count, Delete, DeleteTask,
       Find, Lock, Save, Mark, GiveUp, Complete, DeleteGroupings, ResetPosts, Reopen, Age, GoOn,
       Leave, srvVars, TInv, TypeOK
  <2>2. work[w] \in Items /\ token[work[w]] = TokenOf[w]
    BY <2>1 DEF Submit, Accepts, TInv, TypeOK
  <2>3. TokenOf[w] \in Tokens /\ TokenOf[w] # NoToken
    BY TokensAssumption
  <2>4. last[work[w]] \in Workers /\ TokenOf[w] = TokenOf[last[work[w]]]
    BY <2>2, <2>3 DEF LastToken
  <2> QED BY <2>4 DEF OneTokenEach
<1> QED BY <1>1, TInvInit, TInvStep, LastTokenInit, LastTokenStep, PTL DEF Spec, LateResultRejected

-----------------------------------------------------------------------------
(* The task. *)

\* Who is about to delete the task has seen that nothing is pending, and without a
\* clean-up nothing becomes so again.
OInv ==
  cleanups = 0 /\ (~ open \/ pc = "empty" \/ \E w \in Workers : srv[w] = "deleting")
    => Pending = {}

LEMMA OInvInit == Init => OInv
BY DEF Init, OInv

LEMMA OInvStep == TInv /\ OInv /\ [Next]_vars => OInv'
<1> SUFFICES ASSUME TInv, OInv, [Next]_vars, cleanups' = 0 PROVE OInv'
  BY DEF OInv
<1> USE DEF OInv, TInv, TypeOK, Bindings
<1>0. cleanups = 0 /\ Pending' \subseteq Pending /\ scene' = scene
  BY SceneTyped DEF Next, External, Server, Internal, Cleanup, ClaimExternal, ClaimNothing, Submit,
     SubmitRejected, LoseWork, SaveResult, FailResult, MarkResult, Count, Delete, DeleteTask,
     Find, Lock, Save, Mark, GiveUp, Complete, DeleteGroupings, ResetPosts, Reopen, Age, Fault,
     Pending, itemVars, vars, bounds
<1>1. ASSUME NEW w \in Workers, Count(w) PROVE OInv'
  BY <1>0, <1>1 DEF Count, GoOn, Pending, itemVars
<1>2. CASE Find
  BY <1>0, <1>2 DEF Find, Pending, itemVars, srvVars
<1>3. ASSUME DeleteTask, pc = "empty" \/ \E w \in Workers : srv[w] = "deleting" PROVE OInv'
  BY <1>0, <1>3 DEF DeleteTask
<1>4. ASSUME open' = open \/ open', pc' = "empty" => pc = "empty",
             \A w \in Workers : srv'[w] = "deleting" => srv[w] = "deleting"
      PROVE  OInv'
  BY <1>0, <1>4
<1> QED
  BY <1>1, <1>2, <1>3, <1>4
  DEF Next, External, Server, Internal, Cleanup, ClaimExternal, ClaimNothing, Submit,
     SubmitRejected, LoseWork, SaveResult, FailResult, MarkResult, Delete, Lock, Save, Mark, GiveUp,
     Complete, DeleteGroupings, ResetPosts, Reopen, Age, GoOn, Leave, srvVars, vars

\* The task is deleted only when nothing is pending.
THEOREM TaskIsLast == Spec => []TaskOutlivesItems
<1>1. OInv => TaskOutlivesItems
  BY DEF OInv, TaskOutlivesItems
<1> QED BY <1>1, TInvInit, TInvStep, OInvInit, OInvStep, PTL DEF Spec
=============================================================================
