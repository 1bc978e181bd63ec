----------------------------- MODULE ShmChatProofs -----------------------------
(* The table of 5/5_1_server.cpp stays right under forks and the compaction on   *)
(* SIGCHLD, main ends without children, and nobody hears himself as long as no   *)
(* user was moved: for any number of clients and places.                         *)
EXTENDS ShmChat, SequenceTheorems, TLAPS

(* ------------------------------- the invariant ------------------------------- *)

NetTypes ==
  /\ crowd \in Crowds
  /\ status \in [Clients -> {"new", "backlog", "open", "closed"}] /\ backlog \in Seq(Clients)
  /\ sent \in [Clients -> BOOLEAN] /\ wire \in [Clients -> BOOLEAN] /\ fin \in [Clients -> BOOLEAN]
HeardTypes == heard \in [Clients -> SUBSET Clients]
LoopTypes ==
  /\ mpc \in {"wait", "events", "signals", "done"}
  /\ medges \subseteq Clients \cup {"listen", "sig"} /\ mbatch \subseteq Clients \cup {"listen", "sig"}
  /\ sigs \subseteq {"CHLD", "TERM"} /\ taken \subseteq {"CHLD", "TERM"}
  /\ terminate \in BOOLEAN /\ stop_server \in BOOLEAN /\ moved \in BOOLEAN
TableTypes == users \in Seq(Clients) /\ sub_process \in [Clients -> -1 .. UserLimit - 1]
ChildTypes ==
  /\ cpc \in [Clients -> {"none", "forked", "closed", "check", "enter", "wait", "events", "announce",
                          "zombie", "gone"}]
  /\ cedges \in [Clients -> SUBSET {"conn", "pipe"}] /\ cbatch \in [Clients -> SUBSET {"conn", "pipe"}]
  /\ stop_child \in [Clients -> BOOLEAN] /\ idx \in [Clients -> 0 .. UserLimit - 1]
SharedTypes ==
  /\ up \in [Clients -> Nat] /\ down \in [Clients -> Seq(0 .. UserLimit - 1)]
  /\ share_mem \in [0 .. UserLimit - 1 -> Clients \cup {None}]

\* Who waits to be accepted waits once and has no child and no pipe yet.
Lined ==
  /\ \A k \in 1 .. Len(backlog) : status[backlog[k]] = "backlog"
  /\ \A k, l \in 1 .. Len(backlog) : backlog[k] = backlog[l] => k = l
  /\ \A c \in Clients :
       status[c] \in {"new", "backlog"} => cpc[c] = "none" /\ down[c] = <<>>
\* Each event of the listening socket has a client of its own who waits.
ListenCovered ==
  /\ "listen" \in medges \cup mbatch => Len(backlog) >= 1
  /\ "listen" \in medges \cap mbatch => Len(backlog) >= 2
\* users holds the children that are not reaped, and sub_process their places.
Table ==
  /\ \A i \in 1 .. Len(users) : users[i] \in Children /\ sub_process[users[i]] = i - 1
  /\ \A c \in Children : \E i \in 1 .. Len(users) : users[i] = c
  /\ Len(users) <= UserLimit
\* A pipe that is not empty has a child at its end.
Pipes == \A c \in Clients : up[c] > 0 => c \in Children
\* While no user was moved, a child's index is its place, what a client said is in
\* its own segment only, and no child is told of its own segment.
Segments ==
  moved \/
  /\ \A c \in Children : idx[c] = sub_process[c]
  /\ \A c \in Clients, j \in 0 .. UserLimit - 1 :
       share_mem[j] = c => cpc[c] = "gone" \/ (c \in Children /\ j = idx[c])
  /\ \A c \in Children : \A k \in 1 .. Len(down[c]) : down[c][k] # idx[c]
  /\ \A c \in Clients : c \notin heard[c]

Types == NetTypes /\ HeardTypes /\ LoopTypes /\ TableTypes /\ ChildTypes /\ SharedTypes
ChatInv == Types /\ Lined /\ ListenCovered /\ Table /\ Pipes /\ Segments

LEMMA TypesIsTypeOK == Types <=> TypeOK
  BY DEF Types, TypeOK, NetTypes, HeardTypes, LoopTypes, TableTypes, ChildTypes, SharedTypes

LEMMA LimitNat == UserLimit \in Nat \ {0} /\ None \notin Clients /\ "listen" \notin Clients
  BY ChatAssumption DEF ChatAssumption

(* ---------------------------------- sequences -------------------------------- *)

LEMMA FrontOf ==
  ASSUME NEW S, NEW s \in Seq(S), s # <<>>
  PROVE  /\ Front(s) \in Seq(S) /\ Len(Front(s)) = Len(s) - 1 /\ Len(s) \in Nat \ {0}
         /\ \A i \in 1 .. Len(s) - 1 : Front(s)[i] = s[i]
<1>1. Len(s) \in Nat \ {0}
  BY EmptySeq, LenProperties
<1>2. \A i \in 1 .. Len(s) - 1 : s[i] \in S
  BY <1>1, ElementOfSeq
<1> DEFINE n == Len(s) - 1
<1>3. n \in Nat /\ n \in Int /\ 1 \in Int /\ \A i \in 1 .. n : s[i] \in S
  BY <1>1, <1>2
<1> HIDE DEF n
<1>4. /\ SubSeq(s, 1, n) \in Seq(S)
      /\ Len(SubSeq(s, 1, n)) = IF 1 <= n THEN n - 1 + 1 ELSE 0
      /\ \A i \in 1 .. n - 1 + 1 : SubSeq(s, 1, n)[i] = s[1 + i - 1]
  BY <1>3, SubSeqProperties, SMTT(30)
<1>5. Len(SubSeq(s, 1, n)) = n /\ \A i \in 1 .. n : SubSeq(s, 1, n)[i] = s[i]
  BY <1>3, <1>4
<1> QED
  BY <1>1, <1>4, <1>5 DEF Front, n

LEMMA SwapLast ==
  ASSUME NEW S, NEW s \in Seq(S), NEW d \in 1 .. Len(s)
  PROVE  LET t == Front([s EXCEPT ![d] = Last(s)])
         IN  /\ t \in Seq(S) /\ Len(t) = Len(s) - 1 /\ Last(s) = s[Len(s)]
             /\ \A i \in 1 .. Len(s) - 1 : t[i] = IF i = d THEN Last(s) ELSE s[i]
<1> DEFINE r == [s EXCEPT ![d] = Last(s)]
<1>1. Len(s) \in Nat /\ Len(s) \in 1 .. Len(s)
  BY LenProperties
<1>2. Last(s) = s[Len(s)] /\ Last(s) \in S
  BY <1>1, ElementOfSeq DEF Last
<1>3. r \in Seq(S) /\ Len(r) = Len(s) /\ \A i \in 1 .. Len(s) : r[i] = IF i = d THEN Last(s) ELSE s[i]
  BY <1>1, <1>2, ExceptSeq
<1>4. r # <<>>
  BY <1>1, <1>3, EmptySeq
<1> HIDE DEF r
<1>5. /\ Front(r) \in Seq(S) /\ Len(Front(r)) = Len(s) - 1
      /\ \A i \in 1 .. Len(s) - 1 : Front(r)[i] = r[i]
  BY <1>3, <1>4, FrontOf
<1>6. \A i \in 1 .. Len(s) - 1 : Front(r)[i] = IF i = d THEN Last(s) ELSE s[i]
  BY <1>1, <1>3, <1>5
<1> QED
  BY <1>2, <1>5, <1>6 DEF r

(* ------------------------------- what steps keep ----------------------------- *)

LEMMA ChildrenKept == cpc' = cpc => Children' = Children
  BY DEF Children

LEMMA TableKept == Table /\ users' = users /\ sub_process' = sub_process /\ Children' = Children => Table'
  BY DEF Table

LEMMA PipesKept == Pipes /\ up' = up /\ Children' = Children => Pipes'
  BY DEF Pipes

LEMMA LinedKept == Lined /\ UNCHANGED <<status, backlog, cpc, down>> => Lined'
  BY DEF Lined

LEMMA CoveredKept ==
  ListenCovered /\ backlog' = backlog /\ ("listen" \in medges' => "listen" \in medges)
    /\ ("listen" \in mbatch' => "listen" \in mbatch) => ListenCovered'
  BY DEF ListenCovered

LEMMA SegmentsKept ==
  Segments /\ UNCHANGED <<moved, cpc, idx, sub_process, share_mem, down, heard>> => Segments'
  BY DEF Segments, Children

(* ----------------------------------- actions --------------------------------- *)

LEMMA ChatInit == Init => ChatInv
<1> SUFFICES ASSUME Init PROVE ChatInv
  OBVIOUS
<1> USE LimitNat
<1>1. NetTypes /\ HeardTypes /\ LoopTypes
  <2>1. crowd \in Crowds /\ backlog \in Seq(Clients)
    BY EmptySeq DEF Init
  <2>2. status \in [Clients -> {"new", "backlog", "open", "closed"}]
    BY DEF Init
  <2> QED
    BY <2>1, <2>2 DEF Init, NetTypes, HeardTypes, LoopTypes
<1>2. TableTypes /\ ChildTypes /\ SharedTypes
  BY DEF Init, TableTypes, ChildTypes, SharedTypes
<1>3. Lined /\ ListenCovered
  BY DEF Init, Lined, ListenCovered
<1>4. Table /\ Pipes
  BY DEF Init, Table, Pipes, Children
<1>5. Segments
  BY DEF Init, Segments, Children
<1> QED
  BY <1>1, <1>2, <1>3, <1>4, <1>5 DEF ChatInv, Types

\* A client connects: it has waited nowhere before.
LEMMA ChatConnect == ASSUME ChatInv, NEW c \in Clients, Connect(c) PROVE ChatInv'
<1> USE DEF ChatInv, Types
<1>1. UNCHANGED <<sent, wire, fin, heard, mainVars, sigs, childVars, cedges, up, down, share_mem>>
  BY DEF Connect
<1>2. backlog \in Seq(Clients) /\ Len(backlog) \in Nat
  BY LenProperties DEF NetTypes
<1>3. /\ backlog' \in Seq(Clients) /\ Len(backlog') = Len(backlog) + 1
      /\ backlog'[Len(backlog) + 1] = c
      /\ \A k \in 1 .. Len(backlog) : backlog'[k] = backlog[k]
  BY <1>2, AppendProperties DEF Connect
<1>4. NetTypes'
  BY <1>1, <1>3 DEF Connect, NetTypes
<1>5. HeardTypes' /\ LoopTypes' /\ TableTypes' /\ ChildTypes' /\ SharedTypes'
  BY <1>1 DEF Connect, mainVars, childVars, HeardTypes, LoopTypes, TableTypes, ChildTypes, SharedTypes
<1>6. Lined'
  <2>1. \A k \in 1 .. Len(backlog) : backlog[k] \in Clients /\ backlog[k] # c
    BY <1>2, ElementOfSeq DEF Lined, Connect
  <2>2. status' = [status EXCEPT ![c] = "backlog"] /\ status[c] = "new"
    BY DEF Connect
  <2>3. \A k \in 1 .. Len(backlog') : status'[backlog'[k]] = "backlog"
    BY <1>2, <1>3, <2>1, <2>2 DEF Lined, NetTypes
  <2>4. \A k, l \in 1 .. Len(backlog') : backlog'[k] = backlog'[l] => k = l
    BY <1>2, <1>3, <2>1 DEF Lined
  <2>5. \A d \in Clients :
          status'[d] \in {"new", "backlog"} => cpc'[d] = "none" /\ down'[d] = <<>>
    BY <1>1, <2>2 DEF Lined, NetTypes, childVars
  <2> QED
    BY <2>3, <2>4, <2>5 DEF Lined
<1>7. ListenCovered'
  BY <1>1, <1>2, <1>3 DEF Connect, ListenCovered, mainVars
<1>8. Table' /\ Pipes' /\ Segments'
  BY <1>1, ChildrenKept, TableKept, PipesKept, SegmentsKept DEF mainVars, childVars
<1> QED
  BY <1>4, <1>5, <1>6, <1>7, <1>8

\* The other steps of a client change what is on its wire.
LEMMA ChatClient == ASSUME ChatInv, NEW c \in Clients, Send(c) \/ Leave(c) PROVE ChatInv'
<1> USE DEF ChatInv, Types
<1>1. UNCHANGED <<status, backlog, heard, mainVars, medges, sigs, childVars, up, down, share_mem>>
  BY DEF Send, Leave
<1>2. NetTypes'
  BY DEF Send, Leave, NetTypes
<1>3. cedges' = [cedges EXCEPT ![c] = @ \cup {"conn"}]
  BY DEF Send, Leave
<1>4. HeardTypes' /\ LoopTypes' /\ TableTypes' /\ ChildTypes' /\ SharedTypes'
  BY <1>1, <1>3 DEF mainVars, childVars, HeardTypes, LoopTypes, TableTypes, ChildTypes, SharedTypes
<1>5. Lined' /\ ListenCovered' /\ Table' /\ Pipes' /\ Segments'
  BY <1>1, LinedKept, CoveredKept, ChildrenKept, TableKept, PipesKept, SegmentsKept
     DEF mainVars, childVars
<1> QED
  BY <1>2, <1>4, <1>5

\* SIGTERM, and the steps of main that only move it through its loop.
LEMMA ChatLoop ==
  ASSUME ChatInv, \/ Terminate \/ EpollWait \/ BatchDone \/ AcceptFails
                  \/ TakeSignals \/ ReapedAll
  PROVE  ChatInv'
<1> USE DEF ChatInv, Types
<1>1. UNCHANGED <<netVars, heard, users, sub_process, moved, childVars, up, down, share_mem>>
  BY DEF Terminate, EpollWait, BatchDone, AcceptFails, TakeSignals, ReapedAll, mainVars
<1>2. NetTypes' /\ HeardTypes' /\ TableTypes' /\ ChildTypes' /\ SharedTypes'
  <2>1. cedges' \in [Clients -> SUBSET {"conn", "pipe"}]
    <3>1. CASE BatchDone
      BY <3>1 DEF BatchDone, ChildTypes
    <3>2. CASE ~BatchDone
      BY <3>2 DEF Terminate, EpollWait, AcceptFails, TakeSignals, ReapedAll, ChildTypes
    <3> QED
      BY <3>1, <3>2
  <2>2. ChildTypes'
    BY <1>1, <2>1 DEF childVars, ChildTypes
  <2> QED
    BY <1>1, <2>2 DEF netVars, NetTypes, HeardTypes, TableTypes, SharedTypes
<1>3. LoopTypes'
  <2>1. CASE Terminate
    BY <2>1 DEF Terminate, Raise, mainVars, LoopTypes
  <2>2. CASE EpollWait
    BY <2>2 DEF EpollWait, LoopTypes
  <2>3. CASE BatchDone
    BY <2>3 DEF BatchDone, LoopTypes
  <2>4. CASE TakeSignals
    BY <2>4 DEF TakeSignals, Dispatch, LoopTypes
  <2>5. CASE ReapedAll
    BY <2>5 DEF ReapedAll, Handled, LoopTypes
  <2>6. CASE AcceptFails
    BY <2>6 DEF AcceptFails, Dispatch, LoopTypes
  <2> QED
    BY <2>1, <2>2, <2>3, <2>4, <2>5, <2>6
<1>4. ListenCovered'
  <2>1. CASE Terminate
    BY <2>1, <1>1, CoveredKept DEF Terminate, Raise, mainVars, netVars
  <2>2. CASE EpollWait
    BY <2>2, <1>1 DEF EpollWait, ListenCovered, netVars
  <2>3. CASE BatchDone
    BY <2>3, <1>1, CoveredKept DEF BatchDone, netVars
  <2>4. CASE TakeSignals
    BY <2>4, <1>1, CoveredKept DEF TakeSignals, Dispatch, netVars
  <2>5. CASE ReapedAll
    BY <2>5, <1>1, CoveredKept DEF ReapedAll, netVars
  <2>6. CASE AcceptFails
    BY <2>6, <1>1, CoveredKept DEF AcceptFails, Dispatch, netVars
  <2> QED
    BY <2>1, <2>2, <2>3, <2>4, <2>5, <2>6
<1>5. Lined' /\ Table' /\ Pipes' /\ Segments'
  BY <1>1, LinedKept, ChildrenKept, TableKept, PipesKept, SegmentsKept DEF netVars, childVars
<1> QED
  BY <1>2, <1>3, <1>4, <1>5

\* The head of the backlog is turned away or becomes the last user.
LEMMA ChatAccept == ASSUME ChatInv, Accept PROVE ChatInv'
<1> USE DEF ChatInv, Types
<1> DEFINE c == Head(backlog)
<1>1. UNCHANGED <<crowd, sent, wire, fin, heard, mpc, medges, sigs, taken, terminate, stop_server,
                  moved, cbatch, stop_child, cedges, up, down, share_mem>>
  BY DEF Accept
<1>2. /\ "listen" \in mbatch /\ mbatch' = mbatch \ {"listen"} /\ backlog' = Tail(backlog)
      /\ Turned(c) \/ (Len(users) < UserLimit /\ Forked(c))
  BY DEF Accept, Dispatch
<1>3. backlog \in Seq(Clients) /\ Len(backlog) \in Nat /\ Len(backlog) >= 1 /\ backlog # <<>>
  BY <1>2, LenProperties, EmptySeq DEF NetTypes, ListenCovered
<1>4. /\ c = backlog[1] /\ c \in Clients /\ backlog' \in Seq(Clients)
      /\ Len(backlog') = Len(backlog) - 1
      /\ \A k \in 1 .. Len(backlog) - 1 : backlog'[k] = backlog[k + 1]
  BY <1>2, <1>3, HeadTailProperties
<1>5. status[c] = "backlog" /\ cpc[c] = "none" /\ down[c] = <<>> /\ c \notin Children
  BY <1>3, <1>4 DEF Lined, Children
<1> HIDE DEF c
<1>6. \A k \in 1 .. Len(backlog') : backlog'[k] # c /\ backlog'[k] \in Clients
  BY <1>3, <1>4, ElementOfSeq DEF Lined
<1>7. ListenCovered'
  BY <1>1, <1>2, <1>3, <1>4 DEF ListenCovered
<1>8. HeardTypes' /\ LoopTypes' /\ SharedTypes'
  BY <1>1, <1>2 DEF HeardTypes, LoopTypes, SharedTypes
<1>9. \A d \in Clients : d # c => status'[d] = status[d] /\ cpc'[d] = cpc[d]
  BY <1>2, <1>4 DEF Turned, Forked, NetTypes, ChildTypes
<1>10. NetTypes' /\ status'[c] \notin {"new", "backlog"}
  BY <1>1, <1>2, <1>4 DEF Turned, Forked, NetTypes
<1>11. Lined'
  <2>1. \A k \in 1 .. Len(backlog') : status'[backlog'[k]] = "backlog"
    BY <1>3, <1>4, <1>6, <1>9 DEF Lined
  <2>2. \A k, l \in 1 .. Len(backlog') : backlog'[k] = backlog'[l] => k = l
    BY <1>3, <1>4 DEF Lined
  <2>3. \A d \in Clients :
          status'[d] \in {"new", "backlog"} => cpc'[d] = "none" /\ down'[d] = <<>>
    BY <1>1, <1>9, <1>10 DEF Lined
  <2> QED
    BY <2>1, <2>2, <2>3 DEF Lined
<1>12. CASE Turned(c)
  <2>1. UNCHANGED <<users, sub_process, cpc, idx>>
    BY <1>12 DEF Turned
  <2>2. TableTypes' /\ ChildTypes'
    BY <1>1, <2>1 DEF TableTypes, ChildTypes
  <2>3. Table' /\ Pipes' /\ Segments'
    BY <1>1, <2>1, ChildrenKept, TableKept, PipesKept, SegmentsKept
  <2> QED
    BY <1>7, <1>8, <1>10, <1>11, <2>2, <2>3
<1>13. CASE Len(users) < UserLimit /\ Forked(c)
  <2>1. /\ users' = Append(users, c) /\ sub_process' = [sub_process EXCEPT ![c] = Len(users)]
        /\ idx' = [idx EXCEPT ![c] = Len(users)] /\ cpc' = [cpc EXCEPT ![c] = "forked"]
    BY <1>13 DEF Forked
  <2>2. users \in Seq(Clients) /\ Len(users) \in Nat /\ Len(users) \in 0 .. UserLimit - 1
    BY <1>13, LenProperties, LimitNat DEF TableTypes
  <2>3. /\ users' \in Seq(Clients) /\ Len(users') = Len(users) + 1 /\ users'[Len(users) + 1] = c
        /\ \A i \in 1 .. Len(users) : users'[i] = users[i]
    BY <1>4, <2>1, <2>2, AppendProperties
  <2>4. TableTypes' /\ ChildTypes'
    BY <1>1, <2>1, <2>2, <2>3, LimitNat DEF TableTypes, ChildTypes
  <2>5. Children' = Children \cup {c}
    BY <1>4, <2>1 DEF Children, ChildTypes
  <2>6. \A d \in Children :
          d \in Clients /\ d # c /\ sub_process'[d] = sub_process[d] /\ idx'[d] = idx[d]
    BY <1>5, <2>1 DEF Children, TableTypes, ChildTypes
  <2>7. sub_process'[c] = Len(users) /\ idx'[c] = Len(users)
    BY <1>4, <2>1 DEF TableTypes, ChildTypes
  <2>8. Table'
    <3>1. \A i \in 1 .. Len(users') :
            users'[i] \in Children' /\ sub_process'[users'[i]] = i - 1
      BY <2>2, <2>3, <2>5, <2>6, <2>7 DEF Table
    <3>2. \A d \in Children' : \E i \in 1 .. Len(users') : users'[i] = d
      BY <2>2, <2>3, <2>5 DEF Table
    <3>3. Len(users') <= UserLimit
      BY <2>2, <2>3, LimitNat
    <3> QED
      BY <3>1, <3>2, <3>3 DEF Table
  <2>9. Pipes'
    BY <1>1, <2>5 DEF Pipes
  <2>10. Segments'
    <3> SUFFICES ASSUME ~moved' PROVE Segments'
      BY DEF Segments
    <3>1. ~moved
      BY <1>1
    <3>2. \A d \in Children' : idx'[d] = sub_process'[d]
      BY <3>1, <2>5, <2>6, <2>7 DEF Segments
    <3>3. \A d \in Clients, j \in 0 .. UserLimit - 1 :
            share_mem'[j] = d => cpc'[d] = "gone" \/ (d \in Children' /\ j = idx'[d])
      BY <3>1, <1>1, <1>5, <1>9, <2>5, <2>6 DEF Segments
    <3>4. \A d \in Children' : \A k \in 1 .. Len(down'[d]) : down'[d][k] # idx'[d]
      <4>1. Len(down'[c]) = 0
        BY <1>1, <1>5, EmptySeq
      <4> QED
        BY <3>1, <1>1, <2>5, <2>6, <4>1 DEF Segments
    <3>5. \A d \in Clients : d \notin heard'[d]
      BY <3>1, <1>1 DEF Segments
    <3> QED
      BY <3>2, <3>3, <3>4, <3>5 DEF Segments
  <2> QED
    BY <1>7, <1>8, <1>10, <1>11, <2>4, <2>8, <2>9, <2>10
<1> QED
  BY <1>2, <1>12, <1>13

\* The last user takes the place of the child that waitpid returned.
LEMMA ChatReap == ASSUME ChatInv, NEW c \in Clients, Reap(c) PROVE ChatInv'
<1> USE DEF ChatInv, Types
<1> DEFINE del == sub_process[c]
           n == Len(users)
<1>1. UNCHANGED <<netVars, heard, mpc, sigs, taken, terminate, stop_server, cbatch, stop_child,
                  cedges, down, share_mem>>
  BY DEF Reap
<1>2. /\ cpc[c] = "zombie" /\ cpc' = [cpc EXCEPT ![c] = "gone"]
      /\ mbatch' = mbatch \ {c} /\ medges' = medges \ {c}
      /\ up' = [up EXCEPT ![c] = 0] /\ idx' = [idx EXCEPT ![c] = 0]
  BY DEF Reap, Forget
<1>3. /\ users' = Front([users EXCEPT ![del + 1] = Last(users)])
      /\ sub_process' = [sub_process EXCEPT ![c] = -1, ![Last(users)] = del]
      /\ moved' = (moved \/ Last(users) # c)
  BY DEF Reap, Compact
<1>4. c \in Children /\ Children' = Children \ {c}
  BY <1>2 DEF Children, ChildTypes
<1>5. users \in Seq(Clients) /\ n \in Nat
  BY LenProperties DEF TableTypes
<1>6. del + 1 \in 1 .. n /\ users[del + 1] = c /\ del \in Nat /\ n >= 1
  <2>1. PICK i \in 1 .. n : users[i] = c
    BY <1>4 DEF Table
  <2>2. del = i - 1
    BY <2>1 DEF Table
  <2> QED
    BY <1>5, <2>1, <2>2
<1>7. /\ users' \in Seq(Clients) /\ Len(users') = n - 1 /\ Last(users) = users[n]
      /\ \A i \in 1 .. n - 1 : users'[i] = IF i = del + 1 THEN users[n] ELSE users[i]
  BY ZenonT(30), <1>3, <1>5, <1>6, SwapLast
<1>8. users[n] \in Children /\ sub_process[users[n]] = n - 1 /\ users[n] \in Clients
  BY <1>5, <1>6, ElementOfSeq DEF Table
<1>9. users[n] = c <=> del = n - 1
  BY <1>5, <1>6, <1>8
<1>10. n <= UserLimit /\ del \in 0 .. UserLimit - 1
  BY <1>5, <1>6, LimitNat DEF Table
<1>11. /\ sub_process' \in [Clients -> -1 .. UserLimit - 1]
       /\ sub_process'[users[n]] = del
       /\ \A d \in Clients : d # c /\ d # users[n] => sub_process'[d] = sub_process[d]
  <2>1. -1 \in -1 .. UserLimit - 1 /\ del \in -1 .. UserLimit - 1
    BY <1>10, LimitNat
  <2> DEFINE one == [sub_process EXCEPT ![c] = -1]
  <2>2. one \in [Clients -> -1 .. UserLimit - 1] /\ \A d \in Clients : d # c => one[d] = sub_process[d]
    BY <2>1 DEF TableTypes
  <2>3. sub_process' = [one EXCEPT ![users[n]] = del]
    BY <1>3, <1>7
  <2> HIDE DEF one, del
  <2> QED
    BY <1>8, <2>1, <2>2, <2>3
<1> HIDE DEF del, n
<1>12. NetTypes' /\ HeardTypes' /\ LoopTypes' /\ TableTypes' /\ ChildTypes' /\ SharedTypes'
  <2>1. NetTypes' /\ HeardTypes' /\ TableTypes'
    BY <1>1, <1>7, <1>11 DEF netVars, NetTypes, HeardTypes, TableTypes
  <2>2. LoopTypes'
    <3>1. moved' \in BOOLEAN
      BY <1>3 DEF LoopTypes
    <3> QED
      BY <1>1, <1>2, <3>1 DEF LoopTypes
  <2>3. ChildTypes'
    BY <1>1, <1>2, LimitNat DEF ChildTypes
  <2>4. SharedTypes'
    BY <1>1, <1>2 DEF SharedTypes
  <2> QED
    BY <2>1, <2>2, <2>3, <2>4
<1>13. Lined'
  BY <1>1, <1>2 DEF netVars, Lined, ChildTypes
<1>14. ListenCovered'
  BY <1>1, <1>2, CoveredKept DEF netVars
<1>15. Table'
  <2>1. ASSUME NEW i \in 1 .. Len(users')
        PROVE  users'[i] \in Children' /\ sub_process'[users'[i]] = i - 1
    <3>1. i \in 1 .. n /\ i \in 1 .. n - 1 /\ i # n
      BY <1>5, <1>7
    <3>2. users[i] \in Children /\ sub_process[users[i]] = i - 1
      BY <3>1 DEF Table, n
    <3>3. CASE i = del + 1
      <4>1. users'[i] = users[n] /\ users[n] # c
        BY <3>1, <3>3, <1>5, <1>6, <1>7, <1>9
      <4> QED
        BY <3>1, <3>3, <4>1, <1>4, <1>6, <1>8, <1>11
    <3>4. CASE i # del + 1
      <4>1. users'[i] = users[i] /\ users[i] # c /\ users[i] # users[n]
        BY <3>1, <3>2, <3>4, <1>5, <1>6, <1>7, <1>8 DEF del
      <4> QED
        BY <3>2, <4>1, <1>4, <1>11 DEF Children
    <3> QED
      BY <3>3, <3>4
  <2>2. ASSUME NEW d \in Children' PROVE \E i \in 1 .. Len(users') : users'[i] = d
    <3>1. d \in Children /\ d # c
      BY <1>4
    <3>2. PICK i \in 1 .. n : users[i] = d
      BY <3>1 DEF Table, n
    <3>3. CASE i = n
      <4>1. del + 1 \in 1 .. n - 1 /\ users'[del + 1] = d
        BY <1>5, <1>6, <1>7, <1>9, <3>1, <3>2, <3>3
      <4> QED
        BY <4>1, <1>7
    <3>4. CASE i # n
      <4>1. i \in 1 .. n - 1 /\ users'[i] = d
        BY <1>5, <1>6, <1>7, <3>1, <3>2, <3>4
      <4> QED
        BY <4>1, <1>7
    <3> QED
      BY <3>3, <3>4
  <2>3. Len(users') <= UserLimit
    BY <1>5, <1>7, <1>10, LimitNat
  <2> QED
    BY <2>1, <2>2, <2>3 DEF Table
<1>16. Pipes'
  BY <1>2, <1>4 DEF Pipes, SharedTypes
<1>17. Segments'
  <2> SUFFICES ASSUME ~moved' PROVE Segments'
    BY DEF Segments
  <2>1. ~moved /\ users[n] = c
    BY <1>3, <1>7
  <2>2. \A d \in Children' : d \in Children /\ d # c /\ d \in Clients
    BY <1>4 DEF Children
  <2>3. \A d \in Children' : idx'[d] = idx[d] /\ sub_process'[d] = sub_process[d]
    BY <1>2, <1>11, <2>1, <2>2 DEF ChildTypes
  <2>4. \A d \in Children' : idx'[d] = sub_process'[d]
    BY <2>1, <2>2, <2>3 DEF Segments
  <2>5. \A d \in Clients, j \in 0 .. UserLimit - 1 :
          share_mem'[j] = d => cpc'[d] = "gone" \/ (d \in Children' /\ j = idx'[d])
    BY <1>1, <1>2, <1>4, <2>1, <2>3 DEF Segments, ChildTypes
  <2>6. \A d \in Children' : \A k \in 1 .. Len(down'[d]) : down'[d][k] # idx'[d]
    BY <1>1, <2>1, <2>2, <2>3 DEF Segments
  <2>7. \A d \in Clients : d \notin heard'[d]
    BY <1>1, <2>1 DEF Segments
  <2> QED
    BY <2>4, <2>5, <2>6, <2>7 DEF Segments
<1> QED
  BY <1>12, <1>13, <1>14, <1>15, <1>16, <1>17

\* SIGTERM for the children changes no process to or from a child.
LEMMA ChatTerm == ASSUME ChatInv, HandleTerm PROVE ChatInv'
<1> USE DEF ChatInv, Types
<1>1. UNCHANGED <<netVars, heard, mbatch, users, sub_process, moved, cbatch, idx, cedges, up, down,
                  share_mem>>
  BY DEF HandleTerm
<1>2. /\ cpc' \in [Clients -> {"none", "forked", "closed", "check", "enter", "wait", "events",
                               "announce", "zombie", "gone"}]
      /\ \A c \in Clients : cpc'[c] = cpc[c] \/ (cpc[c] = "wait" /\ cpc'[c] = "check")
      /\ stop_child' \in [Clients -> BOOLEAN]
  <2>1. CASE users = <<>>
    BY <2>1 DEF HandleTerm, ChildTypes
  <2>2. CASE users # <<>>
    BY <2>2 DEF HandleTerm, KillAll, ChildTypes
  <2> QED
    BY <2>1, <2>2
<1>3. Children' = Children /\ \A c \in Clients : (cpc[c] = "gone" <=> cpc'[c] = "gone")
                                              /\ (cpc[c] = "none" <=> cpc'[c] = "none")
  BY <1>2 DEF Children
<1>4. medges' \in {medges, medges \cup {"sig"}} /\ sigs' \in {sigs, sigs \cup {"TERM"}}
  <2>1. CASE users = <<>>
    BY <2>1 DEF HandleTerm
  <2>2. CASE users # <<>>
    BY <2>2 DEF HandleTerm, KillAll, Raise
  <2> QED
    BY <2>1, <2>2
<1>5. LoopTypes'
  BY <1>1, <1>4 DEF HandleTerm, Handled, LoopTypes
<1>6. NetTypes' /\ HeardTypes' /\ TableTypes' /\ ChildTypes' /\ SharedTypes'
  BY <1>1, <1>2 DEF netVars, NetTypes, HeardTypes, TableTypes, ChildTypes, SharedTypes
<1>7. Lined'
  BY <1>1, <1>3 DEF netVars, Lined
<1>8. ListenCovered'
  BY <1>1, <1>4, CoveredKept DEF netVars
<1>9. Table' /\ Pipes'
  BY <1>1, <1>3, TableKept, PipesKept
<1>10. Segments'
  BY <1>1, <1>3 DEF Segments
<1> QED
  BY <1>5, <1>6, <1>7, <1>8, <1>9, <1>10

\* The index of a child's segment goes to the others, whose places differ.
LEMMA ChatRelay == ASSUME ChatInv, NEW c \in Clients, Relay(c) PROVE ChatInv'
<1> USE DEF ChatInv, Types
<1> DEFINE told == Listening(Others(c))
<1>1. UNCHANGED <<netVars, heard, mpc, medges, sigs, taken, users, sub_process, terminate,
                  stop_server, moved, childVars, share_mem>>
  BY DEF Relay
<1>2. mbatch' = mbatch \ {c} /\ up[c] > 0 /\ up' = [up EXCEPT ![c] = @ - 1]
  BY DEF Relay, Dispatch
<1>3. /\ down' = [d \in Clients |-> IF d \in told THEN Append(down[d], idx[c]) ELSE down[d]]
      /\ cedges' = [d \in Clients |-> IF d \in told THEN cedges[d] \cup {"pipe"} ELSE cedges[d]]
  BY DEF Relay, SendDown
<1>4. \A d \in told : d \in Children /\ d # c /\ d \in Clients
  <2>1. users \in Seq(Clients) /\ DOMAIN users = 1 .. Len(users)
    BY LenProperties DEF TableTypes
  <2> QED
    BY <2>1 DEF Listening, Others, Table, Children
<1> HIDE DEF told
<1>5. idx[c] \in 0 .. UserLimit - 1 /\ \A d \in Clients : down[d] \in Seq(0 .. UserLimit - 1)
  BY DEF ChildTypes, SharedTypes
<1>6. \A d \in Clients :
        /\ Append(down[d], idx[c]) \in Seq(0 .. UserLimit - 1)
        /\ Len(down[d]) \in Nat /\ Len(Append(down[d], idx[c])) = Len(down[d]) + 1
        /\ Append(down[d], idx[c])[Len(down[d]) + 1] = idx[c]
        /\ \A k \in 1 .. Len(down[d]) : Append(down[d], idx[c])[k] = down[d][k]
  BY <1>5, AppendProperties, LenProperties
<1>7. SharedTypes'
  <2>1. up' \in [Clients -> Nat]
    BY <1>2 DEF SharedTypes
  <2>2. down' \in [Clients -> Seq(0 .. UserLimit - 1)]
    BY <1>3, <1>5, <1>6
  <2> QED
    BY <1>1, <2>1, <2>2 DEF SharedTypes
<1>8. NetTypes' /\ HeardTypes' /\ LoopTypes' /\ TableTypes' /\ ChildTypes'
  BY <1>1, <1>2, <1>3
     DEF netVars, childVars, NetTypes, HeardTypes, LoopTypes, TableTypes, ChildTypes
<1>9. cpc' = cpc /\ Children' = Children
  BY <1>1, ChildrenKept DEF childVars
<1>10. Lined'
  <2>1. \A d \in Clients : cpc[d] = "none" => down'[d] = down[d]
    BY <1>3, <1>4 DEF Children
  <2> QED
    BY <1>1, <1>9, <2>1 DEF netVars, Lined
<1>11. ListenCovered' /\ Table'
  BY <1>1, <1>2, <1>9, CoveredKept, TableKept DEF netVars
<1>12. Pipes'
  BY <1>2, <1>9 DEF Pipes, SharedTypes
<1>13. Segments'
  <2> SUFFICES ASSUME ~moved' PROVE Segments'
    BY DEF Segments
  <2>1. ~moved /\ c \in Children
    BY <1>1, <1>2 DEF Pipes
  <2>2. ASSUME NEW d \in Children', NEW k \in 1 .. Len(down'[d]) PROVE down'[d][k] # idx'[d]
    <3>1. d \in Children /\ d \in Clients /\ idx' = idx
      BY <1>1, <1>9 DEF Children, childVars
    <3>2. CASE d \in told
      <4>1. idx[c] # idx[d]
        <5>1. idx[c] = sub_process[c] /\ idx[d] = sub_process[d] /\ d # c
          BY <2>1, <3>1, <3>2, <1>4 DEF Segments
        <5>2. PICK i, j \in 1 .. Len(users) : users[i] = c /\ users[j] = d
          BY <2>1, <3>1 DEF Table
        <5>3. sub_process[c] = i - 1 /\ sub_process[d] = j - 1 /\ i # j
          BY <5>1, <5>2 DEF Table
        <5> QED
          BY <5>1, <5>3
      <4>2. down'[d] = Append(down[d], idx[c])
        BY <1>3, <3>1, <3>2
      <4>3. \A l \in 1 .. Len(down[d]) : down[d][l] # idx[d]
        BY <2>1, <3>1 DEF Segments
      <4>4. k \in 1 .. Len(down[d]) \/ k = Len(down[d]) + 1
        BY <1>6, <3>1, <4>2
      <4> QED
        BY <1>6, <3>1, <4>1, <4>2, <4>3, <4>4
    <3>3. CASE d \notin told
      BY <1>3, <2>1, <3>1, <3>3 DEF Segments
    <3> QED
      BY <3>2, <3>3
  <2>3. \A d \in Children' : idx'[d] = sub_process'[d]
    BY <1>1, <1>9, <2>1 DEF Segments, childVars
  <2>4. \A d \in Clients, j \in 0 .. UserLimit - 1 :
          share_mem'[j] = d => cpc'[d] = "gone" \/ (d \in Children' /\ j = idx'[d])
    BY <1>1, <1>9, <2>1 DEF Segments, childVars
  <2>5. \A d \in Clients : d \notin heard'[d]
    BY <1>1, <2>1 DEF Segments
  <2> QED
    BY <2>2, <2>3, <2>4, <2>5 DEF Segments
<1> QED
  BY <1>7, <1>8, <1>10, <1>11, <1>12, <1>13

\* The steps of a child that only move it through its loop.
LEMMA ChatChildLoop ==
  ASSUME ChatInv, NEW c \in Clients,
         ClosePipes(c) \/ Install(c) \/ Check(c) \/ Enter(c) \/ ChildWait(c) \/ ChildBatchDone(c)
  PROVE  ChatInv'
<1> USE DEF ChatInv, Types
<1>1. UNCHANGED <<netVars, heard, mainVars, medges, sigs, stop_child, idx, up, down, share_mem>>
  BY DEF ClosePipes, Install, Check, Enter, ChildWait, ChildBatchDone
<1>2. \E to \in {"closed", "check", "enter", "wait", "events"} :
        /\ cpc' = [cpc EXCEPT ![c] = to]
        /\ cpc[c] \in {"forked", "closed", "check", "enter", "wait", "events"}
  BY DEF ClosePipes, Install, Check, Enter, ChildWait, ChildBatchDone, ChildGoto
<1>3. ChildTypes'
  <2>1. CASE ChildWait(c)
    BY <1>1, <1>2, <2>1 DEF ChildWait, ChildTypes
  <2>2. CASE ~ChildWait(c)
    BY <1>1, <1>2, <2>2 DEF ClosePipes, Install, Check, Enter, ChildBatchDone, ChildTypes
  <2> QED
    BY <2>1, <2>2
<1>4. NetTypes' /\ HeardTypes' /\ LoopTypes' /\ TableTypes' /\ SharedTypes'
  BY <1>1 DEF netVars, mainVars, NetTypes, HeardTypes, LoopTypes, TableTypes, SharedTypes
<1>5. Children' = Children /\ \A d \in Clients : (cpc[d] = "gone" <=> cpc'[d] = "gone")
                                              /\ (cpc[d] = "none" <=> cpc'[d] = "none")
  BY <1>2 DEF Children, ChildTypes
<1>6. Lined'
  BY <1>1, <1>5 DEF netVars, Lined
<1>7. ListenCovered' /\ Table' /\ Pipes'
  BY <1>1, <1>5, CoveredKept, TableKept, PipesKept DEF netVars, mainVars
<1>8. Segments'
  BY <1>1, <1>5 DEF Segments, mainVars
<1> QED
  BY <1>3, <1>4, <1>6, <1>7, <1>8

\* A child that ends leaves its place, and its client, for main to find.
LEMMA ChatExit == ASSUME ChatInv, NEW c \in Clients, Exit(c) PROVE ChatInv'
<1> USE DEF ChatInv, Types
<1>1. UNCHANGED <<crowd, backlog, sent, fin, heard, mainVars, cbatch, idx, up, share_mem>>
  BY DEF Exit
<1>2. cpc[c] = "check" /\ cpc' = [cpc EXCEPT ![c] = "zombie"]
  BY DEF Exit, ChildGoto
<1>3. /\ status' = [status EXCEPT ![c] = "closed"] /\ down' = [down EXCEPT ![c] = <<>>]
      /\ wire' = [wire EXCEPT ![c] = FALSE] /\ cedges' = [cedges EXCEPT ![c] = {}]
      /\ stop_child' = [stop_child EXCEPT ![c] = FALSE]
      /\ sigs' = sigs \cup {"CHLD"} /\ medges' = medges \cup {"sig"}
  BY DEF Exit, Raise
<1>4. <<>> \in Seq(0 .. UserLimit - 1) /\ Len(<<>>) = 0
  BY EmptySeq
<1>5. NetTypes' /\ HeardTypes' /\ LoopTypes' /\ TableTypes' /\ ChildTypes' /\ SharedTypes'
  BY <1>1, <1>2, <1>3, <1>4
     DEF mainVars, NetTypes, HeardTypes, LoopTypes, TableTypes, ChildTypes, SharedTypes
<1>6. Children' = Children /\ \A d \in Clients : (cpc[d] = "gone" <=> cpc'[d] = "gone")
                                              /\ (cpc[d] = "none" <=> cpc'[d] = "none")
  BY <1>2 DEF Children, ChildTypes
<1>7. status[c] \notin {"new", "backlog"}
  BY <1>2 DEF Lined
<1>8. Lined'
  <2>1. \A k \in 1 .. Len(backlog) : backlog[k] # c /\ backlog[k] \in Clients
    BY <1>7, ElementOfSeq DEF Lined, NetTypes
  <2>2. status'[c] = "closed"
    BY <1>3 DEF NetTypes
  <2>3. \A d \in Clients : d # c => status'[d] = status[d] /\ down'[d] = down[d]
    BY <1>3 DEF NetTypes, SharedTypes
  <2>4. backlog' = backlog
    BY <1>1
  <2> QED
    BY <1>6, <2>1, <2>2, <2>3, <2>4 DEF Lined
<1>9. ListenCovered' /\ Table' /\ Pipes'
  BY <1>1, <1>3, <1>6, CoveredKept, TableKept, PipesKept DEF mainVars
<1>10. Segments'
  <2> SUFFICES ASSUME ~moved' PROVE Segments'
    BY DEF Segments
  <2>1. ~moved
    BY <1>1 DEF mainVars
  <2>2. \A d \in Children' : \A k \in 1 .. Len(down'[d]) : down'[d][k] # idx'[d]
    <3>1. \A k \in 1 .. Len(down'[c]) : FALSE
      BY <1>3, <1>4 DEF SharedTypes
    <3>2. \A d \in Children : d \in Clients /\ (d # c => down'[d] = down[d])
      BY <1>3 DEF Children, SharedTypes
    <3> QED
      BY <1>1, <1>6, <2>1, <3>1, <3>2 DEF Segments
  <2> QED
    BY <1>1, <1>6, <2>1, <2>2 DEF Segments, mainVars
<1> QED
  BY <1>5, <1>8, <1>9, <1>10

\* recv writes into the segment of the child's own index.
LEMMA ChatRecv == ASSUME ChatInv, NEW c \in Clients, Recv(c) PROVE ChatInv'
<1> USE DEF ChatInv, Types
<1>1. UNCHANGED <<crowd, status, backlog, sent, fin, heard, mainVars, medges, sigs, idx, cedges, up,
                  down>>
  BY DEF Recv
<1>2. /\ cpc[c] = "events" /\ cbatch' = [cbatch EXCEPT ![c] = @ \ {"conn"}]
      /\ share_mem' = [share_mem EXCEPT ![idx[c]] = IF wire[c] THEN c ELSE None]
      /\ wire' = [wire EXCEPT ![c] = FALSE]
      /\ stop_child' = [stop_child EXCEPT ![c] = @ \/ (~wire[c] /\ fin[c])]
      /\ cpc' = [cpc EXCEPT ![c] = IF wire[c] THEN "announce" ELSE "events"]
  BY DEF Recv, ChildDispatch
<1>3. idx[c] \in 0 .. UserLimit - 1
  BY DEF ChildTypes
<1>4. ChildTypes'
  <2>1. stop_child' \in [Clients -> BOOLEAN]
    BY <1>2, Zenon DEF ChildTypes, NetTypes
  <2> QED
    BY <1>1, <1>2, <2>1 DEF ChildTypes
<1>5. SharedTypes'
  BY <1>1, <1>2 DEF SharedTypes
<1>6. NetTypes' /\ HeardTypes' /\ LoopTypes' /\ TableTypes'
  BY <1>1, <1>2 DEF mainVars, NetTypes, HeardTypes, LoopTypes, TableTypes
<1>7. Children' = Children /\ \A d \in Clients : (cpc[d] = "gone" <=> cpc'[d] = "gone")
                                              /\ (cpc[d] = "none" <=> cpc'[d] = "none")
  BY <1>2 DEF Children, ChildTypes
<1>8. Lined'
  BY <1>1, <1>7 DEF Lined
<1>9. ListenCovered' /\ Table' /\ Pipes'
  BY <1>1, <1>7, CoveredKept, TableKept, PipesKept DEF mainVars
<1>10. Segments'
  <2> SUFFICES ASSUME ~moved' PROVE Segments'
    BY DEF Segments
  <2>1. ~moved /\ c \in Children
    BY <1>1, <1>2 DEF mainVars, Children
  <2>2. ASSUME NEW d \in Clients, NEW j \in 0 .. UserLimit - 1, share_mem'[j] = d
        PROVE  cpc'[d] = "gone" \/ (d \in Children' /\ j = idx'[d])
    <3>1. CASE j = idx[c]
      BY <1>1, <1>2, <1>7, <2>1, <2>2, <3>1, LimitNat DEF SharedTypes
    <3>2. CASE j # idx[c]
      BY <1>1, <1>2, <1>7, <2>1, <2>2, <3>2 DEF SharedTypes, Segments
    <3> QED
      BY <3>1, <3>2
  <2> QED
    BY <1>1, <1>7, <2>1, <2>2 DEF Segments, mainVars
<1> QED
  BY <1>4, <1>5, <1>6, <1>8, <1>9, <1>10

LEMMA ChatAnnounce == ASSUME ChatInv, NEW c \in Clients, Announce(c) PROVE ChatInv'
<1> USE DEF ChatInv, Types
<1>1. UNCHANGED <<netVars, heard, mainVars, sigs, cbatch, stop_child, idx, cedges, down, share_mem>>
  BY DEF Announce
<1>2. /\ cpc[c] = "announce" /\ cpc' = [cpc EXCEPT ![c] = "events"]
      /\ up' = [up EXCEPT ![c] = @ + 1] /\ medges' = medges \cup {c}
  BY DEF Announce, ChildGoto
<1>3. NetTypes' /\ HeardTypes' /\ LoopTypes' /\ TableTypes' /\ ChildTypes' /\ SharedTypes'
  <2>1. NetTypes' /\ HeardTypes' /\ TableTypes' /\ LoopTypes'
    BY <1>1, <1>2 DEF netVars, mainVars, NetTypes, HeardTypes, TableTypes, LoopTypes
  <2>2. ChildTypes'
    BY <1>1, <1>2 DEF ChildTypes
  <2>3. SharedTypes'
    BY <1>1, <1>2 DEF SharedTypes
  <2> QED
    BY <2>1, <2>2, <2>3
<1>4. Children' = Children /\ \A d \in Clients : (cpc[d] = "gone" <=> cpc'[d] = "gone")
                                              /\ (cpc[d] = "none" <=> cpc'[d] = "none")
  BY <1>2 DEF Children, ChildTypes
<1>5. Lined' /\ Table' /\ Segments'
  BY <1>1, <1>4, TableKept DEF netVars, mainVars, Lined, Segments
<1>6. ListenCovered'
  BY <1>1, <1>2, LimitNat, CoveredKept DEF netVars, mainVars
<1>7. Pipes'
  BY <1>2, <1>4 DEF Pipes, Children, SharedTypes
<1> QED
  BY <1>3, <1>5, <1>6, <1>7

\* What a child sends its client is in a segment that is not its own.
LEMMA ChatForward == ASSUME ChatInv, NEW c \in Clients, Forward(c) PROVE ChatInv'
<1> USE DEF ChatInv, Types
<1>1. UNCHANGED <<netVars, mainVars, medges, sigs, cpc, idx, cedges, up, share_mem>>
  BY DEF Forward
<1>2. /\ cpc[c] = "events" /\ cbatch' = [cbatch EXCEPT ![c] = @ \ {"pipe"}]
      /\ stop_child' = [stop_child EXCEPT ![c] = @ \/ (down[c] = <<>> /\ mpc = "done")]
  BY DEF Forward, ChildDispatch
<1>3. c \in Children /\ Children' = Children
  BY <1>1, <1>2, ChildrenKept DEF Children
<1>4. NetTypes' /\ LoopTypes' /\ TableTypes' /\ ChildTypes'
  <2>1. stop_child' \in [Clients -> BOOLEAN]
    BY <1>2, Zenon DEF ChildTypes
  <2> QED
    BY <1>1, <1>2, <2>1 DEF netVars, mainVars, NetTypes, LoopTypes, TableTypes, ChildTypes
<1>5. ListenCovered' /\ Table' /\ Pipes'
  BY <1>1, <1>3, CoveredKept, TableKept, PipesKept DEF netVars, mainVars
<1>6. CASE down[c] = <<>>
  <2>1. UNCHANGED <<down, heard>>
    BY <1>6 DEF Forward, SendSegment
  <2> QED
    BY <1>1, <1>4, <1>5, <2>1, LinedKept, SegmentsKept DEF netVars, mainVars, HeardTypes, SharedTypes
<1>7. CASE down[c] # <<>>
  <2> DEFINE seg == Head(down[c])
  <2>1. /\ down' = [down EXCEPT ![c] = Tail(@)]
        /\ heard' = [heard EXCEPT ![c] = @ \cup ({share_mem[seg]} \ {None})]
    BY <1>7 DEF Forward, SendSegment
  <2>2. down[c] \in Seq(0 .. UserLimit - 1) /\ Len(down[c]) \in Nat \ {0}
    BY <1>7, EmptySeq DEF SharedTypes
  <2>3. /\ seg = down[c][1] /\ seg \in 0 .. UserLimit - 1
        /\ Tail(down[c]) \in Seq(0 .. UserLimit - 1) /\ Len(Tail(down[c])) = Len(down[c]) - 1
        /\ \A k \in 1 .. Len(Tail(down[c])) : Tail(down[c])[k] = down[c][k + 1]
    <3> DEFINE s == down[c]
               S == 0 .. UserLimit - 1
    <3>1. s \in Seq(S) /\ s # <<>>
      BY <1>7, <2>2
    <3> HIDE DEF s, S
    <3>2. /\ Head(s) = s[1] /\ Head(s) \in S /\ Tail(s) \in Seq(S) /\ Len(Tail(s)) = Len(s) - 1
          /\ \A k \in 1 .. Len(Tail(s)) : Tail(s)[k] = s[k + 1]
      BY <3>1, HeadTailProperties
    <3> QED
      BY <3>2 DEF s, S
  <2> HIDE DEF seg
  <2>4. share_mem[seg] \in Clients \cup {None}
    BY <2>3 DEF SharedTypes
  <2>5. HeardTypes' /\ SharedTypes'
    BY <1>1, <2>1, <2>3, <2>4 DEF HeardTypes, SharedTypes
  <2>6. Lined'
    <3>1. status[c] \notin {"new", "backlog"}
      BY <1>2 DEF Lined
    <3> QED
      BY <1>1, <2>1, <3>1 DEF Lined, netVars, SharedTypes
  <2>7. Segments'
    <3> SUFFICES ASSUME ~moved' PROVE Segments'
      BY DEF Segments
    <3>1. ~moved
      BY <1>1 DEF mainVars
    <3>2. \A k \in 1 .. Len(down[c]) : down[c][k] # idx[c]
      BY <3>1, <1>3 DEF Segments
    <3>3. seg # idx[c]
      BY <2>2, <2>3, <3>2
    <3>4. share_mem[seg] # c
      BY <1>2, <2>3, <3>1, <3>3 DEF Segments
    <3>5. \A d \in Clients : d \notin heard'[d]
      BY <2>1, <3>1, <3>4 DEF Segments, HeardTypes
    <3>6. \A k \in 1 .. Len(Tail(down[c])) : Tail(down[c])[k] # idx[c]
      BY <2>2, <2>3, <3>2
    <3>7. \A d \in Children : d \in Clients
      BY DEF Children
    <3>8. \A d \in Children' : \A k \in 1 .. Len(down'[d]) : down'[d][k] # idx'[d]
      BY <1>1, <1>3, <2>1, <3>1, <3>6, <3>7 DEF Segments, SharedTypes
    <3> QED
      BY <1>1, <1>3, <3>1, <3>5, <3>8 DEF Segments, mainVars
  <2> QED
    BY <1>4, <1>5, <2>5, <2>6, <2>7
<1> QED
  BY <1>6, <1>7

LEMMA ChatStutter == ChatInv /\ UNCHANGED vars => ChatInv'
<1> SUFFICES ASSUME ChatInv, UNCHANGED vars PROVE ChatInv'
  OBVIOUS
<1> USE DEF ChatInv, Types, vars, netVars, mainVars, childVars
<1>1. Types'
  BY DEF NetTypes, HeardTypes, LoopTypes, TableTypes, ChildTypes, SharedTypes
<1>2. Lined' /\ ListenCovered' /\ Table' /\ Pipes' /\ Segments'
  BY LinedKept, CoveredKept, ChildrenKept, TableKept, PipesKept, SegmentsKept
<1> QED
  BY <1>1, <1>2

LEMMA ChatNext == ChatInv /\ [Next]_vars => ChatInv'
<1> SUFFICES ASSUME ChatInv, [Next]_vars PROVE ChatInv'
  OBVIOUS
<1>1. CASE MainStep
  BY <1>1, ChatLoop, ChatAccept, ChatReap, ChatTerm, ChatRelay DEF MainStep
<1>2. CASE Terminate
  BY <1>2, ChatLoop
<1>3. ASSUME NEW c \in Clients, Connect(c) \/ Send(c) \/ Leave(c) PROVE ChatInv'
  BY <1>3, ChatConnect, ChatClient
<1>4. ASSUME NEW c \in Clients, ChildStep(c) PROVE ChatInv'
  BY <1>4, ChatChildLoop, ChatExit, ChatRecv, ChatAnnounce, ChatForward DEF ChildStep
<1>5. CASE UNCHANGED vars
  BY <1>5, ChatStutter
<1> QED
  BY <1>1, <1>2, <1>3, <1>4, <1>5 DEF Next

(* ---------------------------------- theorems --------------------------------- *)

LEMMA ChatAlways == Spec => []ChatInv
  BY ChatInit, ChatNext, PTL DEF Spec

LEMMA TableIsRight == ChatInv => TableRight
<1> SUFFICES ASSUME ChatInv PROVE TableRight
  OBVIOUS
<1>1. TypeOK
  BY TypesIsTypeOK DEF ChatInv
<1>2. DOMAIN users = 1 .. Len(users)
  BY LenProperties DEF ChatInv, Types, TableTypes
<1> QED
  BY <1>1, <1>2 DEF ChatInv, Table, TableRight

\* 5_1_server.cpp:216-283: for any number of clients and places, users holds each
\* child that is not reaped once and sub_process says where, through every order of
\* forks, ends of children and compactions.
THEOREM TableStaysRight == Spec => []TableRight
  BY ChatAlways, TableIsRight, PTL

\* 5_1_server.cpp:267-299: main makes up its mind to end only when no child is left
\* that it has not reaped.
THEOREM EndsWithoutChildren == Spec => StopsWithoutChildren
<1>1. ASSUME ChatInv, Next, ~stop_server, stop_server' PROVE Children = {}
  <2>1. users = <<>>
    <3>1. CASE MainStep
      BY <3>1, <1>1 DEF MainStep, EpollWait, BatchDone, Accept, AcceptFails, TakeSignals,
                        ReapedAll, HandleTerm, Reap, Relay
    <3>2. CASE Terminate
      BY <3>2, <1>1 DEF Terminate, mainVars
    <3>3. ASSUME NEW c \in Clients, Connect(c) \/ Send(c) \/ Leave(c) \/ ChildStep(c)
          PROVE  stop_server' = stop_server
      BY <3>3 DEF Connect, Send, Leave, ChildStep, ClosePipes, Install, Check, Enter, Exit,
                  ChildWait, ChildBatchDone, Recv, Announce, Forward, mainVars
    <3> QED
      BY <1>1, <3>1, <3>2, <3>3 DEF Next
  <2>2. Len(users) = 0
    BY <2>1, EmptySeq
  <2> QED
    BY <1>1, <2>2 DEF ChatInv, Table
<1>2. ChatInv /\ [Next]_vars => [~stop_server /\ stop_server' => Children = {}]_vars
  BY <1>1
<1> QED
  BY <1>2, ChatAlways, PTL DEF Spec, StopsWithoutChildren

\* 5_1_server.cpp:98-141, 275-283, 307-322: as long as no user was given another's place, a
\* client is never sent what it sent itself, although segments are used again and
\* indices wait in the pipes while children end.
THEOREM NobodyHearsHimself == Spec => []NoEcho
<1>1. ChatInv => NoEcho
  BY DEF ChatInv, Segments, NoEcho
<1> QED
  BY <1>1, ChatAlways, PTL
=============================================================================
