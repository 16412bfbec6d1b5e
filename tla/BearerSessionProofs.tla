------------------------ MODULE BearerSessionProofs -------------------------
(***************************************************************************)
(* Proofs about BearerSession, for any requests, tokens and storage        *)
(* behaviour: the type invariant, that the mirror is the newest write and  *)
(* the storage follows it, that a signed-out session stays so, and that a  *)
(* replay waits for the renewal it uses.                                   *)
(***************************************************************************)
EXTENDS BearerSession, SequenceTheorems, TLAPS

PC == {"idle", "reading", "sent", "answered", "capturing", "judging",
       "renewing", "gone", "surrendering", "done"}

By == Requests \cup {"refresh", "app", None}

Newest == [token : Token, state : {"pending", "kept", "refused"}]

\* What is left of a sequence without its element i.
LEMMA RemoveAtType ==
  ASSUME NEW S, NEW s \in Seq(S), NEW i \in 1..Len(s)
  PROVE  /\ RemoveAt(s, i) \in Seq(S) /\ Len(RemoveAt(s, i)) = Len(s) - 1
         /\ \A j \in 1..(Len(s) - 1) :
              RemoveAt(s, i)[j] = IF j < i THEN s[j] ELSE s[j + 1]
<1> DEFINE a == SubSeq(s, 1, i - 1)
           b == SubSeq(s, i + 1, Len(s))
<1>0. Len(s) \in Nat /\ i \in Int /\ 1 <= i /\ i <= Len(s)
  OBVIOUS
<1>1. /\ a \in Seq(S) /\ Len(a) = i - 1
      /\ \A j \in 1..(i - 1) : a[j] = s[j]
  BY <1>0
<1>2. /\ b \in Seq(S) /\ Len(b) = Len(s) - i
      /\ \A j \in 1..(Len(s) - i) : b[j] = s[i + j]
  BY <1>0
<1> HIDE DEF a, b
<1>3. /\ a \o b \in Seq(S) /\ Len(a \o b) = Len(s) - 1
      /\ \A j \in 1..(Len(s) - 1) : (a \o b)[j] = IF j < i THEN s[j] ELSE s[j + 1]
  <2>1. /\ a \o b \in Seq(S) /\ Len(a \o b) = Len(a) + Len(b)
        /\ \A j \in 1..(Len(a) + Len(b)) :
             (a \o b)[j] = IF j <= Len(a) THEN a[j] ELSE b[j - Len(a)]
    BY <1>1, <1>2, ConcatProperties
  <2>2. Len(a) + Len(b) = Len(s) - 1
    BY <1>0, <1>1, <1>2
  <2>3. ASSUME NEW j \in 1..(Len(s) - 1)
        PROVE  (a \o b)[j] = IF j < i THEN s[j] ELSE s[j + 1]
    <3>1. CASE j < i
      BY <1>0, <1>1, <2>1, <2>2, <3>1
    <3>2. CASE ~(j < i)
      <4>1. j - (i - 1) \in 1..(Len(s) - i) /\ i + (j - (i - 1)) = j + 1
        BY <1>0, <3>2
      <4>2. (a \o b)[j] = b[j - (i - 1)]
        BY <1>0, <1>1, <2>1, <2>2, <3>2
      <4> QED BY <1>2, <3>2, <4>1, <4>2
    <3> QED BY <3>1, <3>2
  <2> QED BY <2>1, <2>2, <2>3
<1> QED BY <1>3 DEF RemoveAt, a, b

\* The storage completes operation i: what is left is in the order it was in.
LEMMA CompletesType ==
  ASSUME TypeOK, NEW i \in 1..Len(ops), Completes(i)
  PROVE  /\ ops[i] \in Op /\ Len(ops) \in Nat
         /\ ops' \in Seq(Op) /\ Len(ops') = Len(ops) - 1
         /\ \A j \in 1..Len(ops') : ops'[j] = IF j < i THEN ops[j] ELSE ops[j + 1]
<1>1. ops \in Seq(Op) /\ Len(ops) \in Nat /\ ops[i] \in Op
  BY DEF TypeOK
<1>2. ops' = RemoveAt(ops, i)
  BY DEF Completes
<1> QED BY <1>1, <1>2, RemoveAtType

LEMMA InitType == Init => TypeOK
<1> SUFFICES ASSUME Init PROVE TypeOK
  OBVIOUS
<1>1. ops \in Seq(Op)
  BY EmptySeq DEF Init
<1>2. calls \in 0..MaxCalls
  BY SessionAssumption DEF Init
<1>3. used \subseteq Tokens
  BY DEF Init, Token
<1> QED BY <1>1, <1>2, <1>3 DEF Init, TypeOK, Token, NoReply

\* An operation appended to those the storage is at.
LEMMA IssueType ==
  ASSUME TypeOK, NEW o \in Op, ops' = Append(ops, o)
  PROVE  ops' \in Seq(Op)
BY AppendProperties DEF TypeOK

LEMMA WriteType ==
  ASSUME TypeOK, NEW t \in Token, NEW by \in By, Write(t, by)
  PROVE  /\ cached' \in Token /\ loaded' \in BOOLEAN /\ overlapped' \in BOOLEAN
         /\ newest' \in Newest /\ ops' \in Seq(Op)
<1>1. [op |-> "set", token |-> t, by |-> by] \in Op
  BY DEF Op, By
<1> QED BY <1>1, IssueType DEF Write, Issue, Newest, TypeOK

LEMMA DropType ==
  ASSUME TypeOK, NEW by \in By, Drop(by)
  PROVE  /\ cached' \in Token /\ loaded' \in BOOLEAN /\ overlapped' \in BOOLEAN
         /\ newest' \in Newest /\ ops' \in Seq(Op)
<1>1. [op |-> "clear", token |-> None, by |-> by] \in Op
  BY DEF Op, By, Token
<1> QED BY <1>1, IssueType DEF Drop, Issue, Newest, TypeOK, Token

LEMMA StartReadType ==
  ASSUME TypeOK, StartRead
  PROVE  loading' \in BOOLEAN /\ ops' \in Seq(Op)
<1>1. [op |-> "get", token |-> None, by |-> None] \in Op
  BY DEF Op, Token
<1>2. CASE loading
  BY <1>2 DEF StartRead, TypeOK
<1>3. CASE ~loading
  BY <1>1, <1>3, IssueType DEF StartRead
<1> QED BY <1>2, <1>3 DEF StartRead

LEMMA StorageType == ASSUME TypeOK, StorageStep PROVE TypeOK'
<1>1. ASSUME NEW v \in Token, ReadSettles(v)
      PROVE  /\ cached' \in Token /\ loaded' \in BOOLEAN /\ loading' \in BOOLEAN
             /\ pc' \in [Requests -> PC] /\ tok' \in [Requests -> Token]
  BY <1>1 DEF ReadSettles, TypeOK, PC
<1>2. CASE ReadFromStorage
  <2>1. ops' \in Seq(Op)
    BY <1>2, CompletesType DEF ReadFromStorage
  <2> QED BY <1>1, <1>2, <2>1 DEF ReadFromStorage, ReadSettles, TypeOK, writeVars, PC
<1>3. CASE ReadRejected
  <2>1. ops' \in Seq(Op)
    BY <1>3, CompletesType DEF ReadRejected
  <2>2. newest' \in Newest
    BY <1>3 DEF ReadRejected, Newest, TypeOK, Token
  <2>3. None \in Token
    BY DEF Token
  <2> QED BY <1>1, <1>3, <2>1, <2>2, <2>3 DEF ReadRejected, ReadSettles, TypeOK, Newest, PC
<1>4. CASE Persist
  <2>0. PICK i \in 1..Len(ops) :
          /\ Completes(i)
          /\ \E kept \in {TRUE, ~StorageFails} :
               /\ stored' = IF kept THEN ops[i].token ELSE stored
               /\ newest' = IF newest.state = "pending" /\ i = Len(ops)
                            THEN [newest EXCEPT !.state = IF kept THEN "kept" ELSE "refused"]
                            ELSE newest
          /\ \/ ContinueCapture(ops[i].by) \/ ContinueSurrender(ops[i].by)
             \/ ContinueRenewal(ops[i].by) \/ ContinueApp(ops[i].by)
          /\ UNCHANGED <<cached, loaded, loading, inOrder, used, calls, overlapped,
                         signedOut>>
    BY <1>4 DEF Persist
  <2>1. ops' \in Seq(Op) /\ ops[i].token \in Token
    BY <2>0, CompletesType DEF Op
  <2>2. stored' \in Token /\ newest' \in Newest
    BY <2>0, <2>1 DEF TypeOK, Newest
  <2>3. /\ pc' \in [Requests -> PC] /\ tok' \in [Requests -> Token]
        /\ attempt' \in [Requests -> {1, 2}] /\ reply' = reply
        /\ inFlight' \in {"none", "asked", "writing"} /\ renewal' \in Token
    <3>1. CASE ContinueCapture(ops[i].by)
      BY <3>1 DEF ContinueCapture, TypeOK, PC
    <3>2. CASE ContinueSurrender(ops[i].by)
      BY <3>2 DEF ContinueSurrender, TypeOK, PC
    <3>3. CASE ContinueRenewal(ops[i].by)
      BY <3>3 DEF ContinueRenewal, TypeOK, Token, PC
    <3>4. CASE ContinueApp(ops[i].by)
      BY <3>4 DEF ContinueApp, TypeOK, PC
    <3> QED BY <2>0, <3>1, <3>2, <3>3, <3>4
  <2> QED BY <2>0, <2>1, <2>2, <2>3 DEF TypeOK, Newest, PC
<1> QED BY <1>2, <1>3, <1>4 DEF StorageStep

LEMMA AppType ==
  ASSUME TypeOK, (\E t \in Tokens : SignIn(t)) \/ SignOut \/ AskToken
  PROVE  TypeOK'
<1>0. calls < MaxCalls => calls + 1 \in 0..MaxCalls
  BY SessionAssumption DEF TypeOK
<1>1. ASSUME NEW t \in Tokens, SignIn(t) PROVE TypeOK'
  <2>1. t \in Token /\ "app" \in By
    BY DEF Token, By
  <2> QED BY <1>0, <1>1, <2>1, WriteType DEF SignIn, TypeOK, Newest, requestVars
<1>3. CASE SignOut
  <2>1. "app" \in By
    BY DEF By
  <2>2. signedOut' \in BOOLEAN
    BY <1>3 DEF SignOut, Quiet
  <2> QED BY <1>0, <1>3, <2>1, <2>2, DropType DEF SignOut, TypeOK, Newest, requestVars
<1>4. CASE AskToken
  BY <1>4, StartReadType DEF AskToken, TypeOK, requestVars, historyVars, writeVars
<1> QED BY <1>1, <1>3, <1>4

LEMMA RenewalType == ASSUME TypeOK, RenewalStep PROVE TypeOK'
<1>1. ASSUME NEW t \in Tokens, Renewed(t) PROVE TypeOK'
  <2>1. t \in Token /\ "refresh" \in By
    BY DEF Token, By
  <2> QED BY <1>1, <2>1, WriteType DEF Renewed, TypeOK, Newest, requestVars
<1>2. CASE NotRenewed
  BY <1>2 DEF NotRenewed, TypeOK, historyVars, writeVars
<1> QED BY <1>1, <1>2 DEF RenewalStep

LEMMA SurrenderType ==
  ASSUME TypeOK, NEW r \in Requests, Surrender(r) PROVE TypeOK'
<1>1. r \in By
  BY DEF By
<1> QED BY <1>1, DropType DEF Surrender, TypeOK, Newest

LEMMA RequestType ==
  ASSUME TypeOK, NEW r \in Requests,
         FetchLoaded(r) \/ FetchReads(r) \/ FetchReadThrows(r) \/ ClientStep(r)
           \/ ServerStep(r)
  PROVE  TypeOK'
<1>1. CASE FetchLoaded(r)
  BY <1>1 DEF FetchLoaded, TypeOK, sessionVars, historyVars, writeVars
<1>2. CASE FetchReads(r)
  BY <1>2, StartReadType DEF FetchReads, TypeOK, writeVars, historyVars, writeVars
<1>3. CASE Arrive(r)
  <2>1. reply[r].issued \in Token /\ r \in By
    BY DEF TypeOK, By
  <2>2. CASE Write(reply[r].issued, r)
    BY <1>3, <2>1, <2>2, WriteType DEF Arrive, TypeOK, Newest
  <2>3. CASE UNCHANGED <<cached, loaded, ops, writeVars>>
    BY <1>3, <2>3 DEF Arrive, TypeOK, writeVars
  <2> QED BY <1>3, <2>2, <2>3 DEF Arrive
<1>4. CASE Accepted(r)
  BY <1>4 DEF Accepted, TypeOK, sessionVars, historyVars, writeVars
<1>5. CASE RefusedForGood(r) \/ GiveUp(r)
  BY <1>5, SurrenderType DEF RefusedForGood, GiveUp
<1>6. CASE RefusedRenews(r)
  BY <1>6 DEF RefusedRenews, TypeOK, historyVars, writeVars
<1>7. CASE FetchReadThrows(r) \/ FetchRejects(r)
  BY <1>7 DEF FetchReadThrows, FetchRejects, TypeOK, sessionVars, historyVars, writeVars
<1>8. ASSUME NEW refused \in BOOLEAN, NEW t \in Token, Answer(r, refused, t) PROVE TypeOK'
  <2>1. [refused |-> refused, issued |-> t] \in [refused : BOOLEAN, issued : Token]
    OBVIOUS
  <2>2. reply' \in [Requests -> [refused : BOOLEAN, issued : Token]]
    BY <1>8, <2>1 DEF Answer, TypeOK
  <2>3. pc' \in [Requests -> PC]
    BY <1>8 DEF Answer, TypeOK, PC
  <2>4. used' \subseteq Tokens
    BY <1>8 DEF Answer, TypeOK, Token
  <2>5. UNCHANGED <<sessionVars, stored, inOrder, ops, tok, attempt, calls, historyVars>>
    BY <1>8 DEF Answer
  <2> QED BY <2>2, <2>3, <2>4, <2>5 DEF TypeOK, sessionVars, historyVars, writeVars, PC
<1> QED BY <1>1, <1>2, <1>3, <1>4, <1>5, <1>6, <1>7, <1>8 DEF ClientStep, ServerStep

LEMMA NextType == TypeOK /\ [Next]_vars => TypeOK'
<1> SUFFICES ASSUME TypeOK, [Next]_vars PROVE TypeOK'
  OBVIOUS
<1>1. CASE UNCHANGED vars
  BY <1>1 DEF vars, TypeOK, sessionVars, requestVars, historyVars, writeVars
<1> QED BY <1>1, StorageType, AppType, RenewalType, RequestType DEF Next

\* Every variable of the session, its storage and its requests keeps its type.
THEOREM SessionTypeOK == Spec => []TypeOK
BY InitType, NextType, PTL DEF Spec
(***************************************************************************)
(* Reads.  The storage is asked for the token at most once at a time, and  *)
(* while it is being asked `loading` says so.                              *)
(***************************************************************************)
NoGet == \A i \in 1..Len(ops) : ops[i].op # "get"

OneGet ==
  /\ ~loading => NoGet
  /\ \A i, j \in 1..Len(ops) : ops[i].op = "get" /\ ops[j].op = "get" => i = j

\* An operation is appended: a read only when none is pending.
LEMMA GetAppend ==
  ASSUME TypeOK, OneGet, NEW o \in Op, ops' = Append(ops, o),
         IF o.op = "get" THEN ~loading /\ loading' ELSE loading' = loading
  PROVE  OneGet'
<1>1. /\ Len(ops) \in Nat /\ Len(ops') = Len(ops) + 1 /\ ops'[Len(ops) + 1] = o
      /\ \A i \in 1..Len(ops) : ops'[i] = ops[i]
  BY AppendProperties, LenProperties DEF TypeOK
<1>2. ~loading' => NoGet'
  <2> SUFFICES ASSUME ~loading', NEW i \in 1..Len(ops') PROVE ops'[i].op # "get"
    BY DEF NoGet
  <2>1. o.op # "get" /\ NoGet
    BY DEF OneGet
  <2>2. CASE i = Len(ops) + 1
    BY <1>1, <2>1, <2>2
  <2>3. CASE i \in 1..Len(ops)
    BY <1>1, <2>1, <2>3 DEF NoGet
  <2> QED BY <1>1, <2>2, <2>3
<1>3. \A i, j \in 1..Len(ops') : ops'[i].op = "get" /\ ops'[j].op = "get" => i = j
  BY <1>1 DEF OneGet, NoGet
<1> QED BY <1>2, <1>3 DEF OneGet

\* An operation completes: if it was the read, no other is pending.
LEMMA GetCompletes ==
  ASSUME TypeOK, OneGet, NEW i \in 1..Len(ops), Completes(i),
         ops[i].op # "get" => loading' = loading
  PROVE  OneGet'
<1>1. /\ Len(ops) \in Nat /\ Len(ops') = Len(ops) - 1
      /\ \A j \in 1..Len(ops') : ops'[j] = IF j < i THEN ops[j] ELSE ops[j + 1]
  BY CompletesType
<1> DEFINE at(j) == IF j < i THEN j ELSE j + 1
<1>2. \A j \in 1..Len(ops') : at(j) \in 1..Len(ops) /\ at(j) # i /\ ops'[j] = ops[at(j)]
  BY <1>1
<1>3. \A j, k \in 1..Len(ops') : at(j) = at(k) => j = k
  BY <1>1
<1> HIDE DEF at
<1>4. ops[i].op = "get" => NoGet'
  BY <1>2 DEF OneGet, NoGet
<1>5. ~loading' => NoGet'
  BY <1>2, <1>4 DEF OneGet, NoGet
<1>6. \A j, k \in 1..Len(ops') : ops'[j].op = "get" /\ ops'[k].op = "get" => j = k
  BY <1>2, <1>3 DEF OneGet
<1> QED BY <1>5, <1>6 DEF OneGet

LEMMA GetNext == TypeOK /\ OneGet /\ [Next]_vars => OneGet'
<1> SUFFICES ASSUME TypeOK, OneGet, [Next]_vars PROVE OneGet'
  OBVIOUS
<1> USE DEF sessionVars, requestVars, writeVars, historyVars
<1>0. UNCHANGED <<ops, loading>> => OneGet'
  BY DEF OneGet, NoGet
<1>1. ASSUME NEW t \in Token, NEW by \in By, Write(t, by), loading' = loading PROVE OneGet'
  <2>1. [op |-> "set", token |-> t, by |-> by] \in Op
    BY DEF Op, By
  <2> QED BY <1>1, <2>1, GetAppend DEF Write, Issue
<1>2. ASSUME NEW by \in By, Drop(by), loading' = loading PROVE OneGet'
  <2>1. [op |-> "clear", token |-> None, by |-> by] \in Op
    BY DEF Op, By, Token
  <2> QED BY <1>2, <2>1, GetAppend DEF Drop, Issue
<1>3. ASSUME StartRead PROVE OneGet'
  <2>1. [op |-> "get", token |-> None, by |-> None] \in Op
    BY DEF Op, Token
  <2>2. CASE loading
    BY <1>0, <1>3, <2>2 DEF StartRead, TypeOK
  <2>3. CASE ~loading
    BY <1>3, <2>1, <2>3, GetAppend DEF StartRead
  <2> QED BY <2>2, <2>3
<1>4. /\ "app" \in By /\ "refresh" \in By /\ Tokens \subseteq Token
      /\ Requests \subseteq By
      /\ \A r \in Requests : reply[r].issued \in Token
  BY DEF By, Token, TypeOK
<1>5. CASE StorageStep
  BY <1>5, GetCompletes DEF StorageStep, ReadFromStorage, ReadRejected, Persist
<1>6. CASE RenewalStep
  BY <1>0, <1>1, <1>4, <1>6 DEF RenewalStep, Renewed, NotRenewed
<1>7. ASSUME NEW t \in Tokens, SignIn(t) PROVE OneGet'
  BY <1>0, <1>1, <1>4, <1>7 DEF SignIn
<1>8. CASE SignOut
  BY <1>2, <1>4, <1>8 DEF SignOut
<1>9. CASE AskToken
  BY <1>3, <1>9 DEF AskToken
<1>10. ASSUME NEW r \in Requests, FetchLoaded(r) \/ FetchReads(r) \/ FetchReadThrows(r)
       PROVE  OneGet'
  BY <1>0, <1>3, <1>10 DEF FetchLoaded, FetchReads, FetchReadThrows
<1>11. ASSUME NEW r \in Requests, ServerStep(r) PROVE OneGet'
  BY <1>0, <1>11 DEF ServerStep, Answer, FetchRejects
<1>12. ASSUME NEW r \in Requests, ClientStep(r) PROVE OneGet'
  <2>1. CASE Surrender(r)
    BY <1>2, <1>4, <2>1 DEF Surrender
  <2>2. CASE Arrive(r)
    BY <1>0, <1>1, <1>4, <2>2 DEF Arrive
  <2>3. CASE Accepted(r) \/ RefusedRenews(r)
    BY <1>0, <2>3 DEF Accepted, RefusedRenews
  <2> QED BY <1>12, <2>1, <2>2, <2>3 DEF ClientStep, RefusedForGood, GiveUp
<1>13. CASE UNCHANGED vars
  BY <1>0, <1>13 DEF vars
<1> QED BY <1>5, <1>6, <1>7, <1>8, <1>9, <1>10, <1>11, <1>12, <1>13 DEF Next

(***************************************************************************)
(* The mirror leads the storage.  MirrorLeads is not inductive by itself:  *)
(* a storage.get overwrites the mirror, so the invariant says when one can *)
(* be pending; and the storage holds the newest write when that one was    *)
(* the last it was asked for.                                              *)
(***************************************************************************)
NoWrite == \A i \in 1..Len(ops) : ops[i].op = "get"

NewestIsLast ==
  newest.state = "pending" =>
    /\ Len(ops) > 0
    /\ ops[Len(ops)].op # "get" /\ ops[Len(ops)].token = newest.token

Unread == NoWrite /\ newest.token = stored /\ newest.state = "kept" /\ ~overlapped

MirrorInv ==
  /\ MirrorLeads
  /\ NewestIsLast
  /\ inOrder /\ newest.state = "kept" => NoWrite
  /\ ~loaded => Unread
  /\ loaded /\ loading => overlapped

MirrorVars == <<cached, loaded, loading, stored, inOrder, ops, writeVars>>

LEMMA MirrorUnchanged ==
  ASSUME MirrorInv, UNCHANGED MirrorVars PROVE MirrorInv'
BY DEF MirrorInv, MirrorVars, writeVars, MirrorLeads, NewestIsLast, Unread, NoWrite

\* A set or clear is issued: it is the newest operation and the mirror's value.
LEMMA MirrorIssue ==
  ASSUME TypeOK, MirrorInv, NEW op \in {"set", "clear"}, NEW t \in Token, NEW by \in By,
         Issue(op, t, by), cached' = t, loaded' = TRUE,
         UNCHANGED <<loading, stored, inOrder>>
  PROVE  MirrorInv'
<1> DEFINE o == [op |-> op, token |-> t, by |-> by]
<1>1. o \in Op /\ o.op # "get" /\ o.token = t
  BY DEF Op, By
<1>2. ops' = Append(ops, o) /\ newest' = [token |-> t, state |-> "pending"]
      /\ overlapped' = loading
  BY DEF Issue
<1> HIDE DEF o
<1>3. Len(ops) \in Nat /\ Len(ops') = Len(ops) + 1 /\ ops'[Len(ops) + 1] = o
  BY <1>1, <1>2, AppendProperties, LenProperties DEF TypeOK
<1> QED BY <1>1, <1>2, <1>3 DEF MirrorInv, MirrorLeads, NewestIsLast

\* The first read is issued.
LEMMA MirrorRead ==
  ASSUME TypeOK, MirrorInv, StartRead,
         UNCHANGED <<cached, loaded, stored, inOrder, writeVars>>
  PROVE  MirrorInv'
<1>1. Unread /\ ~loaded
  BY DEF MirrorInv, StartRead
<1>2. NoWrite'
  <2>1. CASE loading
    BY <1>1, <2>1 DEF StartRead, Unread, NoWrite
  <2>2. CASE ~loading
    <3> DEFINE o == [op |-> "get", token |-> None, by |-> None]
    <3>1. o \in Op /\ o.op = "get" /\ ops' = Append(ops, o)
      BY <2>2 DEF StartRead, Op, Token
    <3> HIDE DEF o
    <3>2. /\ Len(ops) \in Nat /\ Len(ops') = Len(ops) + 1 /\ ops'[Len(ops) + 1] = o
          /\ \A i \in 1..Len(ops) : ops'[i] = ops[i]
      BY <3>1, AppendProperties, LenProperties DEF TypeOK
    <3> QED BY <1>1, <3>1, <3>2 DEF Unread, NoWrite
  <2> QED BY <2>1, <2>2
<1> QED BY <1>1, <1>2 DEF MirrorInv, MirrorLeads, NewestIsLast, Unread, writeVars

\* The storage has answered operation i: what was last, if another was, still is,
\* and where only reads were, only reads are left.
LEMMA MirrorCompletes ==
  ASSUME TypeOK, NEW i \in 1..Len(ops), Completes(i)
  PROVE  /\ i # Len(ops) => Len(ops') > 0 /\ ops'[Len(ops')] = ops[Len(ops)]
         /\ NoWrite => NoWrite'
         /\ inOrder /\ i = Len(ops) => NoWrite'
<1>1. /\ Len(ops) \in Nat /\ Len(ops') = Len(ops) - 1
      /\ \A j \in 1..Len(ops') : ops'[j] = IF j < i THEN ops[j] ELSE ops[j + 1]
  BY CompletesType
<1>2. i # Len(ops) => /\ Len(ops') \in 1..Len(ops') /\ ~(Len(ops') < i)
                      /\ Len(ops') + 1 = Len(ops)
  BY <1>1
<1>3. NoWrite => NoWrite'
  BY <1>1 DEF NoWrite
<1>4. inOrder /\ i = Len(ops) => NoWrite'
  BY <1>1 DEF NoWrite, Completes
<1> QED BY <1>1, <1>2, <1>3, <1>4

LEMMA MirrorStorage == ASSUME TypeOK, OneGet, MirrorInv, StorageStep PROVE MirrorInv'
<1>1. CASE ReadFromStorage \/ ReadRejected
  <2>1. PICK i \in 1..Len(ops) : ops[i].op = "get" /\ Completes(i)
    BY <1>1 DEF ReadFromStorage, ReadRejected
  <2>2. loading
    BY <2>1 DEF OneGet, NoGet
  <2>3. ~overlapped => Unread
    BY <2>2 DEF MirrorInv, TypeOK
  <2>4. /\ loaded' = TRUE /\ loading' = FALSE
        /\ UNCHANGED <<stored, inOrder, overlapped>>
    BY <1>1 DEF ReadFromStorage, ReadRejected, ReadSettles, writeVars
  <2>5. CASE newest' = newest /\ (overlapped \/ cached' = stored)
    <3>1. NewestIsLast'
      BY <2>1, <2>5, MirrorCompletes DEF MirrorInv, NewestIsLast
    <3>2. inOrder /\ newest.state = "kept" => NoWrite'
      BY <2>1, MirrorCompletes DEF MirrorInv
    <3>3. MirrorLeads'
      BY <2>3, <2>4, <2>5 DEF MirrorInv, MirrorLeads, Unread
    <3> QED BY <2>4, <2>5, <3>1, <3>2, <3>3 DEF MirrorInv
  <2>6. CASE newest' = [token |-> None, state |-> "refused"] /\ cached' = None
    BY <2>4, <2>6 DEF MirrorInv, MirrorLeads, NewestIsLast
  <2>7. \/ newest' = newest /\ (overlapped \/ cached' = stored)
        \/ newest' = [token |-> None, state |-> "refused"] /\ cached' = None
    BY <1>1 DEF ReadFromStorage, ReadRejected, ReadSettles, writeVars
  <2> QED BY <2>5, <2>6, <2>7
<1>2. CASE Persist
  <2>1. PICK i \in 1..Len(ops) :
          /\ ops[i].op # "get"
          /\ Completes(i)
          /\ \E kept \in {TRUE, ~StorageFails} :
               /\ stored' = IF kept THEN ops[i].token ELSE stored
               /\ newest' = IF newest.state = "pending" /\ i = Len(ops)
                            THEN [newest EXCEPT !.state = IF kept THEN "kept" ELSE "refused"]
                            ELSE newest
          /\ UNCHANGED <<cached, loaded, loading, inOrder, overlapped>>
    BY <1>2 DEF Persist
  <2>2. loaded /\ (inOrder => newest.state # "kept")
    BY <2>1 DEF MirrorInv, Unread, NoWrite
  <2>3. newest'.token = newest.token
    BY <2>1 DEF TypeOK
  <2>4. CASE newest.state = "pending" /\ i = Len(ops)
    <3>1. newest'.state = "refused" \/ (newest'.state = "kept" /\ stored' = newest.token)
      BY <2>1, <2>4 DEF TypeOK, MirrorInv, NewestIsLast
    <3>2. inOrder => NoWrite'
      BY <2>1, <2>4, MirrorCompletes
    <3> QED BY <2>1, <2>2, <2>3, <3>1, <3>2 DEF MirrorInv, MirrorLeads, NewestIsLast
  <2>5. CASE ~(newest.state = "pending" /\ i = Len(ops))
    <3>1. newest' = newest
      BY <2>1, <2>5
    <3>2. NewestIsLast'
      BY <2>1, <2>5, <3>1, MirrorCompletes DEF MirrorInv, NewestIsLast
    <3> QED BY <2>1, <2>2, <3>1, <3>2 DEF MirrorInv, MirrorLeads
  <2> QED BY <2>4, <2>5
<1> QED BY <1>1, <1>2 DEF StorageStep

LEMMA MirrorWrite ==
  ASSUME TypeOK, MirrorInv, NEW t \in Token, NEW by \in By, Write(t, by),
         UNCHANGED <<loading, stored, inOrder>>
  PROVE  MirrorInv'
BY MirrorIssue DEF Write

LEMMA MirrorDrop ==
  ASSUME TypeOK, MirrorInv, NEW by \in By, Drop(by),
         UNCHANGED <<loading, stored, inOrder>>
  PROVE  MirrorInv'
BY MirrorIssue DEF Drop, Token

LEMMA MirrorNext == TypeOK /\ OneGet /\ MirrorInv /\ [Next]_vars => MirrorInv'
<1> SUFFICES ASSUME TypeOK, OneGet, MirrorInv, [Next]_vars PROVE MirrorInv'
  OBVIOUS
<1> USE DEF sessionVars, requestVars, historyVars
<1>0. /\ "app" \in By /\ "refresh" \in By /\ Tokens \subseteq Token
      /\ Requests \subseteq By
      /\ \A r \in Requests : reply[r].issued \in Token
  BY DEF By, Token, TypeOK
<1>1. CASE UNCHANGED vars
  BY <1>1, MirrorUnchanged DEF vars, MirrorVars
<1>2. CASE StorageStep
  BY <1>2, MirrorStorage
<1>3. CASE RenewalStep
  <2>1. ASSUME NEW t \in Tokens, Renewed(t) PROVE MirrorInv'
    BY <1>0, <2>1, MirrorWrite DEF Renewed
  <2>2. CASE NotRenewed
    BY <2>2, MirrorUnchanged DEF NotRenewed, MirrorVars
  <2> QED BY <1>3, <2>1, <2>2 DEF RenewalStep
<1>4. ASSUME NEW t \in Tokens, SignIn(t) PROVE MirrorInv'
  BY <1>0, <1>4, MirrorWrite DEF SignIn
<1>5. CASE SignOut
  BY <1>0, <1>5, MirrorDrop DEF SignOut
<1>6. CASE AskToken
  BY <1>6, MirrorRead DEF AskToken
<1>7. ASSUME NEW r \in Requests,
             FetchLoaded(r) \/ FetchReads(r) \/ FetchReadThrows(r) \/ ClientStep(r)
               \/ ServerStep(r)
      PROVE  MirrorInv'
  <2>1. CASE FetchLoaded(r) \/ FetchReadThrows(r)
    BY <2>1, MirrorUnchanged DEF FetchLoaded, FetchReadThrows, MirrorVars
  <2>2. CASE FetchReads(r)
    BY <2>2, MirrorRead DEF FetchReads
  <2>3. CASE ServerStep(r)
    BY <2>3, MirrorUnchanged DEF ServerStep, Answer, FetchRejects, MirrorVars
  <2>4. CASE Arrive(r)
    <3>1. CASE Write(reply[r].issued, r)
      BY <1>0, <2>4, <3>1, MirrorWrite DEF Arrive
    <3>2. CASE UNCHANGED <<cached, loaded, ops, writeVars>>
      BY <2>4, <3>2, MirrorUnchanged DEF Arrive, MirrorVars
    <3> QED BY <2>4, <3>1, <3>2 DEF Arrive
  <2>5. CASE Accepted(r) \/ RefusedRenews(r)
    BY <2>5, MirrorUnchanged DEF Accepted, RefusedRenews, MirrorVars
  <2>6. CASE RefusedForGood(r) \/ GiveUp(r)
    <3>1. Surrender(r)
      BY <2>6 DEF RefusedForGood, GiveUp
    <3> QED BY <1>0, <3>1, MirrorDrop DEF Surrender
  <2> QED BY <1>7, <2>1, <2>2, <2>3, <2>4, <2>5, <2>6 DEF ClientStep
<1> QED BY <1>1, <1>2, <1>3, <1>4, <1>5, <1>6, <1>7 DEF Next

\* However sets, clears, captures, renewals and surrenders interleave, and
\* however slow, unordered or broken the storage is, the mirror is the newest
\* write, whether the storage took it or not (until a first read it overlapped
\* completes); and a storage that keeps the order holds the newest write from
\* when it has taken it.
THEOREM MirrorTheorem == Spec => []MirrorLeads
<1>1. Init => MirrorInv /\ OneGet
  <2> SUFFICES ASSUME Init PROVE MirrorInv /\ OneGet
    OBVIOUS
  <2>1. Len(ops) = 0
    BY EmptySeq DEF Init
  <2> QED BY <2>1
          DEF Init, MirrorInv, MirrorLeads, NewestIsLast, Unread, NoWrite, OneGet, NoGet
<1>2. MirrorInv => MirrorLeads
  BY DEF MirrorInv
<1> QED BY <1>1, <1>2, MirrorNext, GetNext, SessionTypeOK, PTL DEF Spec
(***************************************************************************)
(* Signed out.  That nothing puts a token back needs to know that a read   *)
(* can only complete while one is pending.                                 *)
(***************************************************************************)
SignedOutInv == signedOut => cached = None /\ loaded /\ Quiet

LEMMA SignedOutNext == TypeOK /\ OneGet /\ SignedOutInv /\ [Next]_vars => SignedOutInv'
<1> SUFFICES ASSUME TypeOK, OneGet, SignedOutInv, [Next]_vars, signedOut'
             PROVE  (cached = None /\ loaded /\ Quiet)'
  BY DEF SignedOutInv
<1> USE DEF sessionVars, requestVars, writeVars, historyVars
<1>1. CASE SignOut
  BY <1>1 DEF SignOut, Drop, Quiet
<1>2. CASE ~SignOut
  <2>1. signedOut
    <3>1. CASE StorageStep \/ RenewalStep
      BY <3>1 DEF StorageStep, ReadFromStorage, ReadRejected, Persist, RenewalStep,
         Renewed, NotRenewed
    <3>2. CASE \E r \in Requests : FetchLoaded(r) \/ FetchReads(r) \/ FetchReadThrows(r)
                                  \/ ClientStep(r) \/ ServerStep(r)
      BY <3>2 DEF FetchLoaded, FetchReads, FetchReadThrows, ServerStep, Answer,
         FetchRejects, ClientStep, Arrive, Accepted, RefusedForGood, RefusedRenews,
         GiveUp, Surrender
    <3>3. CASE (\E t \in Tokens : SignIn(t)) \/ AskToken \/ UNCHANGED vars
      BY <3>3 DEF SignIn, AskToken, vars
    <3> QED BY <1>2, <3>1, <3>2, <3>3 DEF Next
  <2>2. /\ cached = None /\ loaded /\ ~loading /\ inFlight = "none" /\ NoGet
        /\ \A r \in Requests : pc[r] \in {"idle", "surrendering", "done"}
    BY <2>1 DEF SignedOutInv, Quiet, OneGet
  <2>3. CASE StorageStep
    <3>1. PICK i \in 1..Len(ops) :
            /\ \/ ContinueCapture(ops[i].by) \/ ContinueSurrender(ops[i].by)
               \/ ContinueRenewal(ops[i].by) \/ ContinueApp(ops[i].by)
            /\ UNCHANGED <<cached, loaded, loading>>
      BY <2>2, <2>3 DEF StorageStep, ReadFromStorage, ReadRejected, Persist, NoGet
    <3>2. inFlight' = "none" /\ \A r \in Requests : pc'[r] \in {"idle", "surrendering", "done"}
      <4>1. CASE ContinueCapture(ops[i].by)
        BY <2>2, <4>1 DEF ContinueCapture
      <4>2. CASE ContinueSurrender(ops[i].by)
        BY <2>2, <4>2 DEF ContinueSurrender, TypeOK
      <4>3. CASE ContinueRenewal(ops[i].by)
        BY <2>2, <4>3 DEF ContinueRenewal, Waiters
      <4>4. CASE ContinueApp(ops[i].by)
        BY <2>2, <4>4 DEF ContinueApp
      <4> QED BY <3>1, <4>1, <4>2, <4>3, <4>4
    <3> QED BY <2>2, <3>1, <3>2 DEF Quiet
  <2>4. CASE RenewalStep
    BY <2>2, <2>4 DEF RenewalStep, Renewed, NotRenewed
  <2>5. ASSUME NEW t \in Tokens, SignIn(t)
        PROVE  (cached = None /\ loaded /\ Quiet)'
    BY <2>2, <2>5 DEF SignIn, Quiet
  <2>6. CASE AskToken
    BY <2>2, <2>6 DEF AskToken, StartRead
  <2>7. CASE \E r \in Requests : FetchReadThrows(r)
    BY <2>2, <2>7 DEF FetchReadThrows
  <2>9. ASSUME NEW r \in Requests,
               FetchLoaded(r) \/ FetchReads(r) \/ ClientStep(r) \/ ServerStep(r)
        PROVE  FALSE
    BY <2>2, <2>9 DEF FetchLoaded, FetchReads, ServerStep, Answer, FetchRejects, ClientStep, Arrive, Accepted, RefusedForGood, RefusedRenews, GiveUp
  <2>8. CASE UNCHANGED vars
    BY <2>2, <2>8 DEF vars, Quiet
  <2> QED BY <1>2, <2>3, <2>4, <2>5, <2>6, <2>7, <2>8, <2>9 DEF Next
<1> QED BY <1>1, <1>2

\* After a clear() with nothing under way, the session holds no token until the
\* app or a request brings one, for any storage, tokens and requests.
THEOREM SignedOutTheorem == Spec => []StaysSignedOut
<1>1. Init => OneGet /\ SignedOutInv
  <2> SUFFICES ASSUME Init PROVE OneGet /\ SignedOutInv
    OBVIOUS
  <2>1. Len(ops) = 0 /\ ~signedOut
    BY EmptySeq DEF Init
  <2> QED BY <2>1 DEF OneGet, NoGet, SignedOutInv
<1>2. SignedOutInv => StaysSignedOut
  BY DEF SignedOutInv, StaysSignedOut
<1> QED BY <1>1, <1>2, GetNext, SignedOutNext, SessionTypeOK, PTL DEF Spec
(***************************************************************************)
(* The replay.  The renewal settles when its own write completes, so the   *)
(* argument follows that write through the storage's queue: there is one   *)
(* at most, only while the renewal is "writing", and it carries `renewal`. *)
(***************************************************************************)
RenewalWrite ==
  /\ \A i \in 1..Len(ops) : ops[i].by = "refresh" =>
       inFlight = "writing" /\ ops[i].token = renewal /\ renewal # None
  /\ \A i, j \in 1..Len(ops) : ops[i].by = "refresh" /\ ops[j].by = "refresh" => i = j

WaitersRefused == \A r \in Requests : pc[r] = "renewing" => reply[r].refused

NoRenewalWrite == \A i \in 1..Len(ops) : ops[i].by # "refresh"

\* Anybody else's operation is appended.
LEMMA RenewalWriteKept ==
  ASSUME TypeOK, RenewalWrite, NEW o \in Op, o.by # "refresh",
         ops' = Append(ops, o), UNCHANGED <<inFlight, renewal>>
  PROVE  RenewalWrite'
<1>1. /\ Len(ops) \in Nat /\ Len(ops') = Len(ops) + 1 /\ ops'[Len(ops) + 1] = o
      /\ \A i \in 1..Len(ops) : ops'[i] = ops[i]
  BY AppendProperties, LenProperties DEF TypeOK
<1>2. \A i \in 1..Len(ops') : ops'[i].by = "refresh" =>
        i \in 1..Len(ops) /\ ops'[i] = ops[i]
  BY <1>1
<1> QED BY <1>2 DEF RenewalWrite

\* The renewal's token is written.
LEMMA RenewalWriteIssued ==
  ASSUME TypeOK, RenewalWrite, NEW t \in Tokens, Renewed(t) PROVE RenewalWrite'
<1> DEFINE o == [op |-> "set", token |-> t, by |-> "refresh"]
<1>1. ops' = Append(ops, o) /\ renewal' = t /\ inFlight' = "writing" /\ t # None
  BY SessionAssumption DEF Renewed, Write, Issue
<1>2. o \in Op
  BY DEF Op, Token
<1>3. /\ Len(ops) \in Nat /\ Len(ops') = Len(ops) + 1 /\ ops'[Len(ops) + 1] = o
      /\ \A i \in 1..Len(ops) : ops'[i] = ops[i]
  BY <1>1, <1>2, AppendProperties, LenProperties DEF TypeOK
<1>4. NoRenewalWrite
  BY DEF RenewalWrite, NoRenewalWrite, Renewed
<1>5. \A i \in 1..Len(ops') : ops'[i].by = "refresh" => i = Len(ops) + 1
  BY <1>3, <1>4 DEF NoRenewalWrite
<1> QED BY <1>1, <1>3, <1>5 DEF RenewalWrite

\* Operation i completes.
LEMMA RenewalWriteDone ==
  ASSUME TypeOK, RenewalWrite, NEW i \in 1..Len(ops), Completes(i),
         ops[i].by = "refresh" \/ UNCHANGED <<inFlight, renewal>>
  PROVE  RenewalWrite' /\ (ops[i].by = "refresh" => NoRenewalWrite')
<1>1. /\ Len(ops) \in Nat /\ Len(ops') = Len(ops) - 1
      /\ \A j \in 1..Len(ops') : ops'[j] = IF j < i THEN ops[j] ELSE ops[j + 1]
  BY CompletesType
<1> DEFINE at(j) == IF j < i THEN j ELSE j + 1
<1>2. \A j \in 1..Len(ops') : at(j) \in 1..Len(ops) /\ at(j) # i /\ ops'[j] = ops[at(j)]
  BY <1>1
<1>3. \A j, k \in 1..Len(ops') : at(j) = at(k) => j = k
  BY <1>1
<1> HIDE DEF at
<1>4. CASE ops[i].by = "refresh"
  <2>1. NoRenewalWrite'
    BY <1>2, <1>4 DEF RenewalWrite, NoRenewalWrite
  <2> QED BY <2>1 DEF RenewalWrite, NoRenewalWrite
<1>5. CASE ops[i].by # "refresh"
  BY ZenonT(30), <1>2, <1>3, <1>5 DEF RenewalWrite
<1> QED BY <1>4, <1>5

\* Whose write has completed decides which continuation runs.
LEMMA PersistBy ==
  ASSUME Persist
  PROVE  \E i \in 1..Len(ops) :
           /\ Completes(i)
           /\ stored' = ops[i].token \/ (StorageFails /\ UNCHANGED stored)
           /\ IF ops[i].by = "refresh" THEN ContinueRenewal(ops[i].by)
              ELSE UNCHANGED <<inFlight, renewal, attempt, reply>>
BY SessionAssumption
   DEF Persist, ContinueCapture, ContinueSurrender, ContinueRenewal, ContinueApp

LEMMA RenewalWriteNext == TypeOK /\ RenewalWrite /\ [Next]_vars => RenewalWrite'
<1> SUFFICES ASSUME TypeOK, RenewalWrite, [Next]_vars PROVE RenewalWrite'
  OBVIOUS
<1> USE DEF sessionVars, requestVars, writeVars, historyVars
<1>0. UNCHANGED <<ops, inFlight, renewal>> => RenewalWrite'
  BY DEF RenewalWrite
<1>1. ASSUME NEW t \in Token, NEW by \in By \ {"refresh"}, Write(t, by),
             UNCHANGED <<inFlight, renewal>>
      PROVE  RenewalWrite'
  <2>1. [op |-> "set", token |-> t, by |-> by] \in Op
    BY DEF Op, By
  <2> QED BY <1>1, <2>1, RenewalWriteKept DEF Write, Issue
<1>2. ASSUME NEW by \in By \ {"refresh"}, Drop(by), UNCHANGED <<inFlight, renewal>>
      PROVE  RenewalWrite'
  <2>1. [op |-> "clear", token |-> None, by |-> by] \in Op
    BY DEF Op, By, Token
  <2> QED BY <1>2, <2>1, RenewalWriteKept DEF Drop, Issue
<1>3. ASSUME StartRead, UNCHANGED <<inFlight, renewal>> PROVE RenewalWrite'
  <2>1. /\ [op |-> "get", token |-> None, by |-> None] \in Op
        /\ None # "refresh"
    BY SessionAssumption DEF Op, Token
  <2>2. CASE loading
    BY <1>0, <1>3, <2>2 DEF StartRead
  <2>3. CASE ~loading
    BY <1>3, <2>1, <2>3, RenewalWriteKept DEF StartRead
  <2> QED BY <2>2, <2>3
<1>4. /\ "app" \in By \ {"refresh"} /\ Tokens \subseteq Token
      /\ Requests \subseteq By \ {"refresh"}
      /\ \A r \in Requests : reply[r].issued \in Token
  BY SessionAssumption DEF By, Token, TypeOK
<1>5. CASE ReadFromStorage \/ ReadRejected
  BY <1>5, RenewalWriteDone DEF ReadFromStorage, ReadRejected, ReadSettles
<1>6. CASE Persist
  BY <1>6, PersistBy, RenewalWriteDone
<1>7. CASE RenewalStep
  <2>1. CASE NotRenewed
    <3>1. NoRenewalWrite /\ ops' = ops
      BY <2>1 DEF NotRenewed, RenewalWrite, NoRenewalWrite
    <3> QED BY <3>1 DEF RenewalWrite, NoRenewalWrite
  <2> QED BY <1>7, <2>1, RenewalWriteIssued DEF RenewalStep
<1>8. ASSUME NEW t \in Tokens, SignIn(t) PROVE RenewalWrite'
  BY <1>0, <1>1, <1>4, <1>8 DEF SignIn
<1>9. CASE SignOut \/ AskToken
  BY <1>2, <1>3, <1>4, <1>9 DEF SignOut, AskToken
<1>10. ASSUME NEW r \in Requests,
              FetchLoaded(r) \/ FetchReads(r) \/ FetchReadThrows(r) \/ ServerStep(r)
       PROVE  RenewalWrite'
  BY <1>0, <1>3, <1>10
     DEF FetchLoaded, FetchReads, FetchReadThrows, ServerStep, Answer, FetchRejects
<1>11. ASSUME NEW r \in Requests, ClientStep(r) PROVE RenewalWrite'
  <2>1. CASE Surrender(r)
    BY <1>2, <1>4, <2>1 DEF Surrender
  <2>2. CASE Arrive(r)
    BY <1>0, <1>1, <1>4, <2>2 DEF Arrive
  <2>3. CASE Accepted(r)
    BY <1>0, <2>3 DEF Accepted
  <2>4. CASE RefusedRenews(r)
    <3>1. ops' = ops /\ renewal' = renewal
          /\ (inFlight = "none" \/ inFlight' = inFlight)
      BY <2>4 DEF RefusedRenews
    <3> QED BY <3>1 DEF RenewalWrite
  <2> QED BY <1>11, <2>1, <2>2, <2>3, <2>4 DEF ClientStep, RefusedForGood, GiveUp
<1>12. CASE UNCHANGED vars
  BY <1>0, <1>12 DEF vars
<1> QED BY <1>5, <1>6, <1>7, <1>8, <1>9, <1>10, <1>11, <1>12 DEF Next, StorageStep

LEMMA WaitersNext == TypeOK /\ WaitersRefused /\ [Next]_vars => WaitersRefused'
<1> SUFFICES ASSUME TypeOK, WaitersRefused, [Next]_vars,
                    NEW q \in Requests, pc'[q] = "renewing"
             PROVE  reply'[q].refused
  BY DEF WaitersRefused
<1> USE DEF sessionVars, requestVars, historyVars, TypeOK
<1>0. pc[q] = "renewing" /\ reply' = reply => reply'[q].refused
  BY DEF WaitersRefused
<1>1. CASE ReadFromStorage \/ ReadRejected
  BY <1>0, <1>1 DEF ReadFromStorage, ReadRejected, ReadSettles
<1>2. CASE Persist
  BY <1>0, <1>2 DEF Persist, ContinueCapture, ContinueSurrender, ContinueRenewal,
     ContinueApp, Waiters
<1>3. CASE RenewalStep
  BY <1>0, <1>3 DEF RenewalStep, Renewed, NotRenewed, Waiters
<1>4. CASE (\E t \in Tokens : SignIn(t)) \/ SignOut \/ AskToken \/ UNCHANGED vars
  BY <1>0, <1>4 DEF SignIn, SignOut, AskToken, vars
<1>5. ASSUME NEW r \in Requests, FetchLoaded(r) \/ FetchReads(r) \/ FetchReadThrows(r)
      PROVE  reply'[q].refused
  BY <1>0, <1>5 DEF FetchLoaded, FetchReads, FetchReadThrows
<1>6. ASSUME NEW r \in Requests, ServerStep(r) PROVE reply'[q].refused
  <2>1. r # q /\ pc[q] = "renewing" /\ reply'[q] = reply[q]
    BY <1>6 DEF ServerStep, Answer, FetchRejects
  <2> QED BY <2>1 DEF WaitersRefused
<1>7. ASSUME NEW r \in Requests, ClientStep(r) PROVE reply'[q].refused
  BY <1>0, <1>7 DEF ClientStep, Arrive, Accepted, RefusedForGood, RefusedRenews, GiveUp,
     Surrender
<1> QED BY <1>1, <1>2, <1>3, <1>4, <1>5, <1>6, <1>7 DEF Next, StorageStep

LEMMA ReplayStep ==
  TypeOK /\ RenewalWrite /\ WaitersRefused /\ [Next]_vars =>
    [\A r \in Requests : attempt[r] = 1 /\ attempt'[r] = 2 =>
       /\ reply[r].refused
       /\ tok'[r] = renewal /\ renewal # None
       /\ \E i \in 1..Len(ops) : ops[i].by = "refresh" /\ ops[i].token = renewal
       /\ \A i \in 1..Len(ops') : ops'[i].by # "refresh"
       /\ stored' = renewal \/ (StorageFails /\ UNCHANGED stored)]_vars
<1> SUFFICES ASSUME TypeOK, RenewalWrite, WaitersRefused, [Next]_vars,
                    NEW r \in Requests, attempt[r] = 1, attempt'[r] = 2
             PROVE  /\ reply[r].refused
                    /\ tok'[r] = renewal /\ renewal # None
                    /\ \E i \in 1..Len(ops) : ops[i].by = "refresh" /\ ops[i].token = renewal
                    /\ NoRenewalWrite'
                    /\ stored' = renewal \/ (StorageFails /\ UNCHANGED stored)
  BY DEF NoRenewalWrite
<1>1. Persist
  BY DEF Next, StorageStep, ReadFromStorage, ReadRejected, ReadSettles, RenewalStep,
     Renewed, NotRenewed, SignIn, SignOut, AskToken, FetchLoaded, FetchReads,
     FetchReadThrows, ServerStep, Answer, FetchRejects, ClientStep, Arrive, Accepted,
     RefusedForGood, RefusedRenews, GiveUp, Surrender, vars, requestVars
<1>2. PICK i \in 1..Len(ops) :
        /\ Completes(i)
        /\ stored' = ops[i].token \/ (StorageFails /\ UNCHANGED stored)
        /\ IF ops[i].by = "refresh" THEN ContinueRenewal(ops[i].by)
           ELSE UNCHANGED <<inFlight, renewal, attempt, reply>>
  BY <1>1, PersistBy
<1>3. ops[i].by = "refresh" /\ ContinueRenewal(ops[i].by)
  BY <1>2
<1>4. pc[r] = "renewing" /\ tok'[r] = renewal
  BY <1>3 DEF ContinueRenewal, Waiters, TypeOK
<1>5. ops[i].token = renewal /\ renewal # None
  BY <1>3 DEF RenewalWrite
<1>6. NoRenewalWrite'
  BY <1>2, <1>3, RenewalWriteDone
<1> QED BY <1>2, <1>3, <1>4, <1>5, <1>6 DEF WaitersRefused

\* A replayed request was refused, carries the token of the renewal it shared,
\* and goes out only as the storage answers the write of that token, whichever
\* captures, sign-ins and surrenders it is handed around it and in whatever order
\* it answers them.
THEOREM ReplayTheorem == Spec => ReplayUnderRenewal
<1>1. Init => RenewalWrite /\ WaitersRefused
  <2> SUFFICES ASSUME Init PROVE RenewalWrite /\ WaitersRefused
    OBVIOUS
  <2>1. Len(ops) = 0
    BY EmptySeq DEF Init
  <2>2. \A r \in Requests : pc[r] # "renewing"
    BY DEF Init
  <2> QED BY <2>1, <2>2 DEF RenewalWrite, WaitersRefused
<1> QED BY <1>1, RenewalWriteNext, WaitersNext, ReplayStep, SessionTypeOK, PTL
        DEF Spec, ReplayUnderRenewal
=============================================================================
