-------------------------- MODULE RawDownloadProofs --------------------------
(***************************************************************************)
(* Proofs about RawDownload, for any number of chats, messages, downloaders,  *)
(* faults and errors, and any size of a page or a batch.                      *)
(***************************************************************************)
EXTENDS RawDownload, FiniteSetTheorems, WellFoundedInduction, TLAPS

-----------------------------------------------------------------------------
(* The CHOOSEs of the downloader. *)

\* Every set of numbers has a least one.
LEMMA Least ==
  ASSUME NEW S \in SUBSET Nat, S # {}
  PROVE  \E m \in S : \A n \in S : m <= n
<1>1. PICK m \in S : \A n \in S : ~ (<<n, m>> \in OpToRel(<, Nat))
  BY NatLessThanWellFounded, WFMin
<1>2. ASSUME NEW n \in S PROVE m <= n
  <2>1. ~ (n < m)
    BY <1>1 DEF OpToRel
  <2> QED BY <2>1
<1> QED BY <1>2

\* One that has a bound has a greatest: the least of its bounds.
LEMMA Greatest ==
  ASSUME NEW k \in Nat, NEW S \in SUBSET (0..k), S # {}
  PROVE  \E m \in S : \A n \in S : n <= m
<1> DEFINE Bounds == {b \in Nat : \A n \in S : n <= b}
<1>1. k \in Bounds
  OBVIOUS
<1>2. PICK b \in Bounds : \A c \in Bounds : b <= c
  BY <1>1, Least
<1>3. b \in S
  <2> SUFFICES ASSUME b \notin S PROVE FALSE
    OBVIOUS
  <2>1. \A n \in S : n < b
    OBVIOUS
  <2>2. b - 1 \in Nat
    <3>1. PICK n \in S : TRUE
      OBVIOUS
    <3>2. n \in Nat /\ n < b
      BY <2>1
    <3> QED BY <3>2
  <2>3. b - 1 \in Bounds
    BY <2>1, <2>2
  <2> QED BY <1>2, <2>2, <2>3
<1> QED BY <1>3

-----------------------------------------------------------------------------
(* Types. *)

\* What a downloader's place, and the conversion's, say about their copies.
Bindings ==
  /\ \A w \in Downloaders : pc[w] \in {"paging", "storing", "done"} => chat[w] \in Chats
  /\ \A w \in Downloaders : pc[w] # "storing" => page[w] = {}
  /\ conv # "storing" => missing = {}

TInv == TypeOK /\ Bindings

\* A page is made of messages, and its last one is the least.
LEMMA PagesTyped ==
  ASSUME TInv, NEW w \in Downloaders, pc[w] = "paging",
         NEW P \in Histories(w) \ {{}}
  PROVE  /\ P \in SUBSET (1..MaxMessages)
         /\ NextFrom(w, P) \in P /\ \A n \in P : NextFrom(w, P) <= n
<1>1. Below(w) \in SUBSET (1..MaxMessages)
  BY SizesAssumption DEF TInv, TypeOK, Bindings, Below
<1>2. P \in SUBSET (1..MaxMessages)
  BY <1>1 DEF Histories
<1>3. P \in SUBSET Nat
  BY <1>2, SizesAssumption
<1>4. \E m \in P : \A n \in P : m <= n
  BY <1>3, Least
<1> QED BY <1>2, <1>4 DEF NextFrom

\* running_max is one of the messages it is made from, and above all of them.
LEMMA HighestTyped ==
  ASSUME TInv, NEW w \in Downloaders
  PROVE  /\ Highest(w) \in page[w] \cup {top[w]} /\ Highest(w) \in 0..MaxMessages
         /\ \A n \in page[w] \cup {top[w]} : n <= Highest(w)
<1>1. page[w] \cup {top[w]} \in SUBSET (0..MaxMessages)
  BY SizesAssumption DEF TInv, TypeOK
<1>2. \E m \in page[w] \cup {top[w]} : \A n \in page[w] \cup {top[w]} : n <= m
  BY <1>1, Greatest, SizesAssumption
<1> QED BY <1>1, <1>2 DEF Highest

LEMMA TInvInit == Init => TInv
<1> SUFFICES ASSUME Init PROVE TInv
  OBVIOUS
<1>1. Cardinality({}) = 0
  BY FS_EmptySet
<1> QED BY <1>1, SizesAssumption DEF Init, TInv, TypeOK, Bindings, Messages

LEMMA TInvStep == TInv /\ [Next]_vars => TInv'
<1> SUFFICES ASSUME TInv, [Next]_vars PROVE TInv'
  OBVIOUS
<1> USE DEF TInv, TypeOK, Bindings
<1>0. Cardinality({}) = 0
  BY FS_EmptySet
<1>1. ASSUME NEW c \in Chats, Arrive(c) PROVE TInv'
  BY <1>1, SizesAssumption DEF Arrive, downVars, convVars, bounds
<1>2. ASSUME NEW w \in Downloaders, StartDownload(w) PROVE TInv'
  BY <1>2 DEF StartDownload, convVars, bounds
<1>3. ASSUME NEW w \in Downloaders, ReadCursors(w) PROVE TInv'
  BY <1>3, SizesAssumption DEF ReadCursors, Run, convVars, bounds
<1>4. ASSUME NEW w \in Downloaders, NEW c \in Chats, OpenChat(w, c) PROVE TInv'
  BY <1>4, SizesAssumption DEF OpenChat, Run, convVars, bounds
<1>5. ASSUME NEW w \in Downloaders, NEW c \in Chats, SkipChat(w, c) PROVE TInv'
  BY <1>5, SizesAssumption DEF SkipChat, Error, convVars
<1>6. ASSUME NEW w \in Downloaders, NoMoreChats(w) PROVE TInv'
  BY <1>6, SizesAssumption DEF NoMoreChats, LeaveRun, Run, ForgetPage, convVars, bounds
<1>7. ASSUME NEW w \in Downloaders, FetchPage(w) PROVE TInv'
  <2>1. PICK P \in Histories(w) \ {{}} :
          LET new == {m \in P : m > snap[w][chat[w]]}
          IN  /\ Run(w, IF new # {} THEN "storing" ELSE "done", left[w], chat[w],
                     NextFrom(w, P), top[w])
              /\ page' = [page EXCEPT ![w] = new]
              /\ last' = [last EXCEPT ![w] = (new # P)]
    BY <1>7 DEF FetchPage
  <2>2. P \in SUBSET (1..MaxMessages) /\ NextFrom(w, P) \in 0..MaxMessages
    BY <1>7, PagesTyped, SizesAssumption DEF FetchPage
  <2> QED BY <1>7, <2>1, <2>2 DEF FetchPage, Run, convVars, bounds
<1>8. ASSUME NEW w \in Downloaders, FetchNothing(w) PROVE TInv'
  BY <1>8 DEF FetchNothing, convVars, bounds
<1>9. ASSUME NEW w \in Downloaders, FetchFails(w) PROVE TInv'
  BY <1>9, SizesAssumption DEF FetchFails, Error, convVars
<1>10. ASSUME NEW w \in Downloaders, StorePage(w) PROVE TInv'
  <2>1. raw' \subseteq Messages /\ raw \subseteq raw'
    BY <1>10 DEF StorePage, Messages
  <2> QED BY <1>10, <2>1, HighestTyped DEF StorePage, CursorKept, Run, ForgetPage, convVars, bounds
<1>11. ASSUME NEW w \in Downloaders, MoveCursor(w) PROVE TInv'
  BY <1>11, SizesAssumption DEF MoveCursor, Run, ForgetPage, convVars, bounds
<1>12. ASSUME NEW w \in Downloaders, FailDownload(w) PROVE TInv'
  <2>1. raw' \subseteq Messages /\ raw \subseteq raw'
    <3>1. PICK S \in SUBSET page[w] : raw' = raw \cup ({chat[w]} \X S)
      BY <1>12 DEF FailDownload
    <3>2. S = {} \/ chat[w] \in Chats
      BY <3>1
    <3> QED BY <3>1, <3>2 DEF Messages
  <2> QED BY <1>12, <2>1, SizesAssumption
          DEF FailDownload, Ends, LeaveRun, Run, ForgetPage, Fault, convVars
<1>13. CASE StartConversion
  BY <1>13 DEF StartConversion, downVars, bounds
<1>14. CASE FindRaw
  BY <1>14 DEF FindRaw, Batches, Without, downVars, bounds
<1>15. CASE StorePosts
  BY <1>15 DEF StorePosts, downVars, bounds
<1>16. CASE MarkConverted
  <2>1. conv' \in {"idle", "more"} /\ batch' = {} /\ converted' \subseteq raw
    BY <1>16 DEF MarkConverted, More
  <2>2. Cardinality(batch') <= BatchSize
    BY <1>0, <2>1, SizesAssumption
  <2> QED BY <1>16, <2>1, <2>2 DEF MarkConverted, downVars, bounds
<1>17. CASE FailConversion
  <2>1. posts' \in [Messages -> Nat] /\ converted' \subseteq raw
    BY <1>17 DEF FailConversion
  <2> QED BY <1>0, <1>17, <2>1, SizesAssumption DEF FailConversion, Ends, Fault, downVars
<1>18. CASE UNCHANGED vars
  BY <1>18 DEF vars
<1> QED
  BY <1>1, <1>2, <1>3, <1>4, <1>5, <1>6, <1>7, <1>8, <1>9, <1>10, <1>11, <1>12, <1>13,
     <1>14, <1>15, <1>16, <1>17, <1>18
  DEF Next, Download, Convert

\* The collections and every worker's copies of them have their types.
THEOREM TypeCorrect == Spec => []TypeOK
<1>1. TInv => TypeOK
  BY DEF TInv
<1> QED BY <1>1, TInvInit, TInvStep, PTL DEF Spec

-----------------------------------------------------------------------------
(* The archive. *)

Archived(c, n) == \A m \in 1..n : <<c, m>> \in raw

\* What a downloader has archived of its chat.  Paging: from the last message it saw up
\* to the highest.  Storing: the same with the page, whose last one may be at the
\* cursor it read.  Done: all.
Covers(w) ==
  /\ pc[w] = "paging" =>
       /\ from[w] = 0 => top[w] = snap[w][chat[w]]
       /\ \A m \in 1..top[w] : from[w] # 0 /\ m >= from[w] => <<chat[w], m>> \in raw
  /\ pc[w] = "storing" =>
       /\ from[w] # 0
       /\ last[w] => from[w] <= snap[w][chat[w]]
       /\ \A m \in 1..MaxMessages, n \in page[w] \cup {top[w]} :
            from[w] <= m /\ m <= n => m \in page[w] \/ <<chat[w], m>> \in raw
  /\ pc[w] = "done" => Archived(chat[w], top[w])

\* Without errors: the cursors, and every downloader's copies of them, have no holes
\* below.
DInv ==
  errors = 0 =>
    /\ \A c \in Chats : Archived(c, cursor[c])
    /\ \A w \in Downloaders, c \in Chats : Archived(c, snap[w][c])
    /\ \A w \in Downloaders : Covers(w)

LEMMA DInvInit == Init => DInv
BY DEF Init, DInv, Covers, Archived

\* A downloader whose copies stay keeps what it covers while the archive grows.
LEMMA CoversKept ==
  ASSUME TInv, NEW w \in Downloaders, Covers(w), raw \subseteq raw',
         pc'[w] = pc[w], snap'[w] = snap[w], chat'[w] = chat[w], from'[w] = from[w],
         page'[w] = page[w], last'[w] = last[w], top'[w] = top[w]
  PROVE  Covers(w)'
BY DEF Covers, Archived

\* A page continues the one before.
LEMMA PageCovers ==
  ASSUME TInv, DInv, errors = 0, NEW w \in Downloaders, FetchPage(w)
  PROVE  Covers(w)'
<1> DEFINE c == chat[w]
           s == snap[w][c]
<1>0. /\ c \in Chats /\ s \in 0..MaxMessages /\ top[w] \in 0..MaxMessages
      /\ from[w] \in 0..MaxMessages /\ newest[c] \in 0..MaxMessages /\ pc[w] = "paging"
  BY DEF FetchPage, TInv, TypeOK, Bindings
<1>1. PICK P \in Histories(w) \ {{}} :
        LET new == {m \in P : m > s}
        IN  /\ Run(w, IF new # {} THEN "storing" ELSE "done", left[w], c,
                   NextFrom(w, P), top[w])
            /\ page' = [page EXCEPT ![w] = new]
            /\ last' = [last EXCEPT ![w] = (new # P)]
  BY DEF FetchPage
<1> DEFINE new == {m \in P : m > s}
           f == NextFrom(w, P)
<1>2. /\ P \in SUBSET (1..MaxMessages) /\ f \in P /\ \A n \in P : f <= n
      /\ f \in Nat /\ f > 0 /\ s \in Nat
  <2>1. P \in SUBSET (1..MaxMessages) /\ f \in P /\ \A n \in P : f <= n
    BY <1>0, PagesTyped
  <2>2. \A n \in 1..MaxMessages : n \in Nat /\ n > 0
    BY SizesAssumption
  <2>3. s \in Nat
    BY <1>0, SizesAssumption
  <2> HIDE DEF f, s
  <2> QED BY <2>1, <2>2, <2>3
<1>3. /\ pc'[w] = IF new # {} THEN "storing" ELSE "done"
      /\ from'[w] = f /\ chat'[w] = c /\ top'[w] = top[w] /\ snap' = snap /\ raw' = raw
      /\ page'[w] = new /\ last'[w] = (new # P)
  BY <1>1 DEF FetchPage, Run, TInv, TypeOK
<1>4. ASSUME NEW m \in 1..MaxMessages, f <= m, m <= s PROVE <<c, m>> \in raw
  BY <1>0, <1>4, SizesAssumption DEF DInv, Archived
<1>5. ASSUME NEW m \in Below(w), f <= m PROVE m \in P
  <2> SUFFICES ASSUME m \notin P PROVE FALSE
    OBVIOUS
  <2>1. m < f
    BY <1>2 DEF Histories
  <2>2. m \in Nat
    BY <1>0 DEF Below
  <2> QED BY <1>2, <1>5, <2>1, <2>2
<1>6. ASSUME NEW m \in 1..MaxMessages, f <= m, m <= top[w]
      PROVE  m \in new \/ <<c, m>> \in raw
  <2>1. CASE from[w] = 0
    <3>1. top[w] = s
      BY <1>0, <2>1 DEF DInv, Covers
    <3> QED BY <1>4, <1>6, <3>1
  <2>2. CASE from[w] # 0 /\ m >= from[w]
    BY <1>0, <1>6, <2>2 DEF DInv, Covers
  <2>3. CASE from[w] # 0 /\ m < from[w]
    <3>1. m \in Below(w)
      BY <1>0, <2>3, SizesAssumption DEF Below
    <3> QED BY <1>0, <1>4, <1>5, <1>6, <3>1, SizesAssumption
  <2> QED BY <1>0, <2>1, <2>2, <2>3, SizesAssumption
<1>7. ASSUME NEW m \in 1..MaxMessages, NEW n \in new, f <= m, m <= n
      PROVE  m \in new \/ <<c, m>> \in raw
  <2>1. n \in Below(w)
    BY DEF Histories
  <2>2. m \in Below(w)
    BY <1>0, <1>7, <2>1, SizesAssumption DEF Below
  <2> QED BY <1>0, <1>4, <1>5, <1>7, <2>2, SizesAssumption
<1>8. CASE new # {}
  <2>1. f # 0
    BY <1>2, SizesAssumption
  <2>2. ASSUME new # P PROVE f <= s
    <3>1. PICK n \in P : ~ (n > s)
      BY <2>2
    <3>2. f <= n /\ n \in Nat
      BY <1>2
    <3> QED BY <1>2, <3>1, <3>2
  <2>3. \A m \in 1..MaxMessages, n \in new \cup {top[w]} :
          f <= m /\ m <= n => m \in new \/ <<c, m>> \in raw
    BY <1>6, <1>7
  <2> HIDE DEF new, f, c, s
  <2> QED BY <1>3, <1>8, <2>1, <2>2, <2>3 DEF Covers, c, s
<1>9. CASE new = {}
  <2>1. f <= s
    BY <1>0, <1>2, <1>9, SizesAssumption
  <2>2. \A m \in 1..top[w] : <<c, m>> \in raw
    <3> SUFFICES ASSUME NEW m \in 1..top[w] PROVE <<c, m>> \in raw
      OBVIOUS
    <3>1. CASE f <= m
      BY <1>0, <1>6, <1>9, <3>1, SizesAssumption
    <3>2. CASE m < f
      <4>1. m \in Nat /\ 1 <= m /\ m <= s
        BY <1>0, <1>2, <2>1, <3>2
      <4>2. Archived(c, s)
        BY <1>0 DEF DInv
      <4> HIDE DEF c, s
      <4> QED BY <1>2, <4>1, <4>2 DEF Archived
    <3> QED BY <1>0, <1>2, <3>1, <3>2, SizesAssumption
  <2> QED BY <1>3, <1>9, <2>2 DEF Covers, Archived
<1> QED BY <1>8, <1>9

LEMMA DInvStep == TInv /\ DInv /\ [Next]_vars => DInv'
<1> SUFFICES ASSUME TInv, DInv, [Next]_vars, errors' = 0 PROVE DInv'
  BY DEF DInv
<1>0. TInv'
  BY TInvStep
<1>1. errors = 0
  <2>1. errors' = errors \/ errors' = errors + 1
    BY DEF Next, vars, Arrive, StartDownload, Download, ReadCursors, NoMoreChats, FetchPage,
       FetchNothing, StorePage, MoveCursor, OpenChat, FetchFails, FailDownload, SkipChat,
       StartConversion, Convert, FindRaw, StorePosts, MarkConverted, FailConversion, bounds,
       Error, Fault
  <2>2. errors \in Nat
    BY SizesAssumption DEF TInv, TypeOK
  <2> QED BY <2>1, <2>2
<1>2. raw \subseteq raw'
  BY DEF Next, vars, Arrive, StartDownload, Download, ReadCursors, NoMoreChats,
     FetchPage, FetchNothing, StorePage, MoveCursor, OpenChat, FetchFails, FailDownload, SkipChat,
     StartConversion, Convert, FindRaw, StorePosts, MarkConverted, FailConversion
<1>3. /\ \A c \in Chats : Archived(c, cursor[c])
      /\ \A w \in Downloaders, c \in Chats : Archived(c, snap[w][c])
      /\ \A w \in Downloaders : Covers(w)
  BY <1>1 DEF DInv
\* Cursors and copies of them that stay keep their messages.
<1>4. cursor' = cursor => \A c \in Chats : Archived(c, cursor[c])'
  BY <1>2, <1>3 DEF Archived
<1>5. \A w \in Downloaders : snap'[w] = snap[w] =>
        \A c \in Chats : Archived(c, snap[w][c])'
  BY <1>2, <1>3 DEF Archived
\* So does a downloader that stays where it is, which is any other than the one that moves.
<1>6. ASSUME NEW w \in Downloaders, pc'[w] = pc[w], snap'[w] = snap[w], chat'[w] = chat[w],
             from'[w] = from[w], page'[w] = page[w], last'[w] = last[w], top'[w] = top[w]
      PROVE  Covers(w)'
  BY <1>2, <1>3, <1>6, CoversKept
<1>7. ASSUME UNCHANGED downVars, cursor' = cursor PROVE DInv'
  BY <1>4, <1>5, <1>6, <1>7 DEF DInv, downVars
<1> DEFINE Others(w) == \A x \in Downloaders \ {w} :
             /\ pc'[x] = pc[x] /\ snap'[x] = snap[x] /\ chat'[x] = chat[x]
             /\ from'[x] = from[x] /\ page'[x] = page[x] /\ last'[x] = last[x]
             /\ top'[x] = top[x]
<1>8. ASSUME NEW w \in Downloaders, Others(w), cursor' = cursor, snap'[w] = snap[w], Covers(w)'
      PROVE  DInv'
  <2>1. \A x \in Downloaders : Covers(x)'
    BY <1>6, <1>8
  <2>2. \A x \in Downloaders : snap'[x] = snap[x]
    BY <1>8
  <2> QED BY <1>4, <1>5, <1>8, <2>1, <2>2 DEF DInv
<1>9. ASSUME NEW c \in Chats, Arrive(c) PROVE DInv'
  BY <1>7, <1>9 DEF Arrive
<1>10. ASSUME NEW w \in Downloaders, StartDownload(w) PROVE DInv'
  <2>1. Covers(w)'
    BY <1>10 DEF StartDownload, Covers, TInv, TypeOK
  <2> QED BY <1>8, <1>10, <2>1 DEF StartDownload, TInv, TypeOK
<1>11. ASSUME NEW w \in Downloaders, ReadCursors(w) PROVE DInv'
  <2>1. \A x \in Downloaders : Covers(x)'
    <3>1. Covers(w)'
      BY <1>11 DEF ReadCursors, Run, Covers, TInv, TypeOK
    <3>2. Others(w)
      BY <1>11 DEF ReadCursors, Run, TInv, TypeOK
    <3> QED BY <1>6, <3>1, <3>2
  <2>2. \A x \in Downloaders, c \in Chats : Archived(c, snap[x][c])'
    <3>1. cursor' = cursor /\ snap' = [snap EXCEPT ![w] = cursor] /\ raw' = raw
      BY <1>11 DEF ReadCursors
    <3> QED BY <1>3, <3>1 DEF Archived, TInv, TypeOK
  <2> QED BY <1>4, <1>11, <2>1, <2>2 DEF DInv, ReadCursors
<1>12. ASSUME NEW w \in Downloaders, NEW c \in Chats, OpenChat(w, c) PROVE DInv'
  <2>1. Covers(w)'
    BY <1>12 DEF OpenChat, Run, Covers, TInv, TypeOK
  <2>2. Others(w)
    BY <1>12 DEF OpenChat, Run, TInv, TypeOK
  <2> QED BY <1>8, <1>12, <2>1, <2>2 DEF OpenChat
<1>13. ASSUME NEW w \in Downloaders, NoMoreChats(w) PROVE DInv'
  <2>1. Covers(w)' /\ Others(w) /\ \A c \in Chats : snap'[w][c] = 0
    BY <1>13 DEF NoMoreChats, LeaveRun, Run, ForgetPage, Covers, TInv, TypeOK
  <2>2. \A x \in Downloaders : Covers(x)'
    BY <1>6, <2>1
  <2>3. \A x \in Downloaders, c \in Chats : Archived(c, snap[x][c])'
    <3>1. \A c \in Chats : Archived(c, snap[w][c])'
      BY <2>1 DEF Archived
    <3>2. \A x \in Downloaders \ {w} : snap'[x] = snap[x]
      BY <2>1
    <3> QED BY <1>5, <3>1, <3>2
  <2> QED BY <1>4, <1>13, <2>2, <2>3 DEF DInv, NoMoreChats
<1>14. ASSUME NEW w \in Downloaders, FetchPage(w) PROVE DInv'
  <2>1. Others(w)
    BY <1>14 DEF FetchPage, Run, TInv, TypeOK
  <2> QED BY <1>1, <1>8, <1>14, <2>1, PageCovers DEF FetchPage
<1>15. ASSUME NEW w \in Downloaders, FetchNothing(w) PROVE DInv'
  <2>1. Below(w) = {}
    BY <1>15 DEF FetchNothing, Histories
  <2>2. Archived(chat[w], top[w])
    <3>1. /\ chat[w] \in Chats /\ top[w] \in 0..MaxMessages /\ from[w] \in 0..MaxMessages
          /\ pc[w] = "paging"
      BY <1>15 DEF FetchNothing, TInv, TypeOK, Bindings
    <3>2. CASE from[w] = 0
      BY <1>3, <3>1, <3>2 DEF Covers
    <3>3. CASE from[w] # 0
      <4>1. from[w] = 1
        BY <2>1, <3>1, <3>3, SizesAssumption DEF Below
      <4> QED BY <1>3, <3>1, <4>1 DEF Covers, Archived
    <3> QED BY <3>2, <3>3
  <2>3. Covers(w)'
    BY <1>15, <2>2 DEF FetchNothing, Covers, Archived, TInv, TypeOK
  <2> QED BY <1>8, <1>15, <2>3 DEF FetchNothing, TInv, TypeOK
<1>16. ASSUME NEW w \in Downloaders, StorePage(w) PROVE DInv'
  <2>0. /\ chat[w] \in Chats /\ pc[w] = "storing" /\ snap[w][chat[w]] \in 0..MaxMessages
        /\ from[w] \in 0..MaxMessages /\ page[w] \in SUBSET (1..MaxMessages)
    BY <1>16 DEF StorePage, TInv, TypeOK, Bindings
  <2>1. /\ Highest(w) \in page[w] \cup {top[w]} /\ Highest(w) \in 0..MaxMessages
    BY HighestTyped
  <2>2. \A m \in 1..Highest(w) : from[w] <= m => <<chat[w], m>> \in raw'
    BY <1>3, <1>16, <2>0, <2>1, SizesAssumption DEF StorePage, Covers
  <2>3. last[w] => \A m \in 1..Highest(w) : <<chat[w], m>> \in raw'
    <3> SUFFICES ASSUME last[w], NEW m \in 1..Highest(w), m < from[w]
                 PROVE  <<chat[w], m>> \in raw
      BY <1>2, <2>0, <2>1, <2>2, SizesAssumption
    <3>1. m <= snap[w][chat[w]]
      BY <1>3, <2>0, SizesAssumption DEF Covers
    <3> QED BY <1>3, <2>0, <3>1, SizesAssumption DEF Archived
  <2>4. /\ pc'[w] = IF last[w] THEN "done" ELSE "paging"
        /\ chat'[w] = chat[w] /\ from'[w] = from[w] /\ top'[w] = Highest(w) /\ snap' = snap
        /\ cursor' = cursor /\ from[w] # 0
    BY <1>3, <1>16, <2>0 DEF StorePage, CursorKept, Run, Covers, TInv, TypeOK
  <2>5. Covers(w)'
    BY <2>2, <2>3, <2>4 DEF Covers, Archived
  <2>6. Others(w)
    BY <1>16 DEF StorePage, Run, ForgetPage, TInv, TypeOK
  <2> QED BY <1>8, <2>4, <2>5, <2>6
<1>17. ASSUME NEW w \in Downloaders, MoveCursor(w) PROVE DInv'
  <2>1. Covers(w)' /\ Others(w) /\ snap' = snap
    BY <1>17 DEF MoveCursor, Run, ForgetPage, Covers, TInv, TypeOK
  <2>2. \A x \in Downloaders : Covers(x)'
    BY <1>6, <2>1
  <2>3. \A c \in Chats : Archived(c, cursor[c])'
    <3>1. Archived(chat[w], top[w])
      BY <1>3, <1>17 DEF MoveCursor, Covers
    <3>2. raw' = raw /\ cursor' = [cursor EXCEPT ![chat[w]] = top[w]]
      BY <1>17 DEF MoveCursor
    <3> QED BY <1>3, <3>1, <3>2 DEF Archived, TInv, TypeOK
  <2> QED BY <1>5, <2>1, <2>2, <2>3 DEF DInv
<1>18. ASSUME NEW w \in Downloaders, FailDownload(w) PROVE DInv'
  <2>1. Covers(w)' /\ Others(w) /\ \A c \in Chats : snap'[w][c] = 0
    BY <1>18 DEF FailDownload, Ends, LeaveRun, Run, ForgetPage, Covers, TInv, TypeOK
  <2>2. \A x \in Downloaders : Covers(x)'
    BY <1>6, <2>1
  <2>3. \A x \in Downloaders, c \in Chats : Archived(c, snap[x][c])'
    <3>1. \A c \in Chats : Archived(c, snap[w][c])'
      BY <2>1 DEF Archived
    <3>2. \A x \in Downloaders \ {w} : snap'[x] = snap[x]
      BY <2>1
    <3> QED BY <1>5, <3>1, <3>2
  <2> QED BY <1>4, <1>18, <2>2, <2>3 DEF DInv, FailDownload
<1>19. CASE StartConversion \/ Convert \/ FailConversion \/ UNCHANGED vars
  BY <1>7, <1>19 DEF StartConversion, Convert, FindRaw, StorePosts, MarkConverted, FailConversion,
     vars, downVars
<1>20. ASSUME NEW w \in Downloaders, FetchFails(w) PROVE FALSE
  BY <1>1, <1>20 DEF FetchFails, Error
<1>21. ASSUME NEW w \in Downloaders, NEW c \in Chats, SkipChat(w, c) PROVE FALSE
  BY <1>1, <1>21 DEF SkipChat, Error
<1> QED
  BY <1>9, <1>10, <1>11, <1>12, <1>13, <1>14, <1>15, <1>16, <1>17, <1>18, <1>19, <1>20, <1>21
  DEF Next, Download

\* While no request fails for good, everything below a cursor is archived, whatever
\* arrives, crashes, fails or overlaps.
THEOREM NoHole == Spec => []NoHoleBelowCursor
<1>1. TInv /\ DInv => NoHoleBelowCursor
  <2> SUFFICES ASSUME TInv, DInv, errors = 0, NEW c \in Chats
               PROVE  {c} \X (1..cursor[c]) \subseteq raw
    BY DEF NoHoleBelowCursor
  <2> QED BY DEF DInv, Archived
<1> QED BY <1>1, TInvInit, TInvStep, DInvInit, DInvStep, PTL DEF Spec

-----------------------------------------------------------------------------
(* The posts. *)

\* A batch is in the hands of one conversion: what is missing has no post, and
\* whatever else of the batch needs one has it.
CInv ==
  /\ NoDuplicatePost /\ ConvertedKept
  /\ \A m \in missing : posts[m] = 0
  /\ conv = "storing" => \A m \in batch \ Hidden : posts[m] > 0 \/ m \in missing
  /\ conv = "stored" => \A m \in batch \ Hidden : posts[m] > 0

LEMMA CInvInit == Init => CInv
BY DEF Init, CInv, NoDuplicatePost, ConvertedKept

LEMMA CInvStep == TInv /\ CInv /\ [Next]_vars => CInv'
<1> SUFFICES ASSUME TInv, CInv, [Next]_vars PROVE CInv'
  OBVIOUS
<1> USE DEF CInv, NoDuplicatePost, ConvertedKept
<1>0. posts \in [Messages -> Nat] /\ converted \subseteq Messages /\ batch \subseteq Messages
      /\ missing \subseteq batch
  BY DEF TInv, TypeOK
<1>1. CASE UNCHANGED <<posts, converted, convVars>>
  BY <1>1 DEF convVars
<1>2. CASE StartConversion
  BY <1>2 DEF StartConversion
<1>3. CASE FindRaw
  <2>1. batch' \subseteq Messages
    BY <1>3 DEF FindRaw, Batches, TInv, TypeOK
  <2> QED BY <1>0, <1>3, <2>1 DEF FindRaw, Without
<1>4. CASE StorePosts
  <2>1. \A m \in Messages : posts'[m] = IF m \in missing THEN 1 ELSE posts[m]
    BY <1>0, <1>4 DEF StorePosts
  <2> QED BY <1>0, <1>4, <2>1 DEF StorePosts
<1>5. CASE MarkConverted
  BY <1>0, <1>5 DEF MarkConverted, More
<1>6. CASE FailConversion
  <2>1. CASE UNCHANGED posts
    <3>1. converted' = converted \/ (conv = "stored" /\ \E S \in SUBSET batch : converted' = converted \cup S)
      BY <1>6 DEF FailConversion
    <3> QED BY <1>0, <1>6, <2>1, <3>1 DEF FailConversion, Ends
  <2>2. ASSUME NEW S \in SUBSET missing,
               posts' = [m \in Messages |-> posts[m] + (IF m \in S THEN 1 ELSE 0)],
               converted' = converted
        PROVE  CInv'
    <3>1. \A m \in Messages : posts'[m] = IF m \in S THEN 1 ELSE posts[m]
      BY <1>0, <2>2
    <3> QED BY <1>0, <1>6, <2>2, <3>1 DEF FailConversion, Ends
  <2> QED BY <1>6, <2>1, <2>2 DEF FailConversion
<1> QED
  BY <1>1, <1>2, <1>3, <1>4, <1>5, <1>6
  DEF Next, vars, Arrive, StartDownload, Download, ReadCursors, NoMoreChats, FetchPage,
      FetchNothing, StorePage, MoveCursor, OpenChat, FetchFails, FailDownload, SkipChat, Convert

\* An interrupted conversion that is run again stores no post a second time.
THEOREM PostsOnce == Spec => []NoDuplicatePost
<1>1. CInv => NoDuplicatePost
  BY DEF CInv
<1> QED BY <1>1, TInvInit, TInvStep, CInvInit, CInvStep, PTL DEF Spec

\* Nor does it leave a message that is marked as converted without its post.
THEOREM ConvertedHavePosts == Spec => []ConvertedKept
<1>1. CInv => ConvertedKept
  BY DEF CInv
<1> QED BY <1>1, TInvInit, TInvStep, CInvInit, CInvStep, PTL DEF Spec
=============================================================================
