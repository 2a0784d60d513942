-------------------------- MODULE ChatServerProofs --------------------------
(***************************************************************************)
(* Theorems about ChatServer, for any number of connections and messages.  *)
(***************************************************************************)
EXTENDS ChatServer, FiniteSetTheorems, SequenceTheorems, TLAPS

(* The mutex is held by the thread that is in send_msg's loop, and only it *)
(* has an index in the array.                                              *)
Holder == \A t \in Clients : /\ pc[t] = "write" <=> mutex = t
                             /\ pc[t] # "write" => i[t] = 0

(* Threads are started in the order of accept.                             *)
NotYet == /\ main = "add" => accepted > 0
          /\ \A t \in Clients : t > accepted \/ (t = accepted /\ main = "add") => pc[t] = "none"

Reading == \A t \in Clients : pc[t] = "read" => on[t] # 0

(* A thread that sends has a message, and it was read from its client.     *)
Speaking == \A t \in Clients : pc[t] \in {"send", "write"} =>
              msg[t] \in Clients \X Nat /\ msg[t][2] <= read[msg[t][1]]

SInv == TypeOK /\ Holder /\ NotYet /\ Reading /\ Speaking /\ CountIsThreads

(* A step of thread t that is not a write.                                 *)
Thread(t) == Begin(t) \/ CallRead(t) \/ Read(t) \/ Leave(t) \/ Close(t) \/ Lock(t) \/ Unlock(t)

Live == {t \in Clients : pc[t] \in Places \ {"none", "close", "end"}}

USE ConnsAssumption, TalksAssumption DEF Clients

LEMMA Less == ASSUME NEW n \in Nat, NEW m \in 1 .. n
              PROVE  (IF m + 1 <= n THEN n - (m + 1) + 1 ELSE 0) = n - m
OBVIOUS

LEMMA RemoveOne ==
  ASSUME NEW S, NEW s \in Seq(S), NEW k \in 1 .. Len(s)
  PROVE  RemoveAt(s, k) \in Seq(S) /\ Len(RemoveAt(s, k)) = Len(s) - 1
<1> DEFINE A == SubSeq(s, 1, k - 1)
           B == SubSeq(s, k + 1, Len(s))
<1>1. Len(s) \in Nat /\ s \in [1 .. Len(s) -> S] /\ k \in Nat BY LenProperties
<1>2. A \in Seq(S) /\ Len(A) = k - 1
  <2>1. \A j \in 1 .. k - 1 : s[j] \in S BY <1>1
  <2>2. A \in Seq(S) /\ Len(A) = IF 1 <= k - 1 THEN k - 1 - 1 + 1 ELSE 0
    BY <1>1, <2>1, SubSeqProperties
  <2> HIDE DEF A
  <2> QED BY <1>1, <2>2
<1>3. B \in Seq(S) /\ Len(B) = Len(s) - k
  <2>1. \A j \in k + 1 .. Len(s) : s[j] \in S BY <1>1
  <2>2. B \in Seq(S) /\ Len(B) = IF k + 1 <= Len(s) THEN Len(s) - (k + 1) + 1 ELSE 0
    BY <1>1, <2>1, SubSeqProperties
  <2> HIDE DEF B
  <2>3. (IF k + 1 <= Len(s) THEN Len(s) - (k + 1) + 1 ELSE 0) = Len(s) - k BY <1>1, Less
  <2> QED BY <2>2, <2>3
<1>4. RemoveAt(s, k) = A \o B BY DEF RemoveAt
<1> HIDE DEF A, B
<1>5. A \o B \in Seq(S) /\ Len(A \o B) = Len(A) + Len(B) BY <1>2, <1>3, ConcatProperties
<1> QED BY <1>1, <1>2, <1>3, <1>4, <1>5

LEMMA ForgetOne ==
  ASSUME NEW S, NEW s \in Seq(S), Len(s) > 0, NEW f
  PROVE  Forget(s, f) \in Seq(S) /\ Len(Forget(s, f)) = Len(s) - 1
<1>1. Len(s) \in Nat /\ s \in [1 .. Len(s) -> S] BY LenProperties
<1>2. PICK at : Forget(s, f) = IF at \in 1 .. Len(s) - 1 THEN RemoveAt(s, at + 1) ELSE Front(s)
  BY DEF Forget
<1>3. CASE at \in 1 .. Len(s) - 1
  <2>1. at + 1 \in 1 .. Len(s) BY <1>1, <1>3
  <2> QED BY <1>2, <1>3, <2>1, RemoveOne
<1>4. CASE ~(at \in 1 .. Len(s) - 1)
  <2>1. \A j \in 1 .. Len(s) - 1 : s[j] \in S BY <1>1
  <2>2. /\ SubSeq(s, 1, Len(s) - 1) \in Seq(S)
        /\ Len(SubSeq(s, 1, Len(s) - 1)) = IF 1 <= Len(s) - 1 THEN Len(s) - 1 - 1 + 1 ELSE 0
    BY <1>1, <2>1, SubSeqProperties
  <2> QED BY <1>1, <1>2, <1>4, <2>2 DEF Front
<1> QED BY <1>3, <1>4

LEMMA LiveFinite == IsFiniteSet(Live) /\ Cardinality(Live) \in Nat
<1>1. IsFiniteSet(Clients) BY FS_Interval
<1>2. Live \in SUBSET Clients BY DEF Live
<1> QED BY <1>1, <1>2, FS_Subset, FS_CardinalityType

(* The steps that leave the number of live threads as it is.               *)
LEMMA LiveSame ==
  ASSUME NEW t \in Clients, pc \in [Clients -> Places], NEW l \in Places \ {"none", "close", "end"},
         pc[t] \in Places \ {"none", "close", "end"}, Goto(t, l)
  PROVE  Live' = Live
BY DEF Live, Goto

LEMMA SInitially == Init => SInv
<1> SUFFICES ASSUME Init PROVE SInv OBVIOUS
<1>1. TypeOK
  <2>1. said \in Talks /\ NoMsg \in {NoMsg} \cup (Clients \X Nat) BY DEF Init
  <2>2. <<>> \in Seq(Clients \X Nat) /\ <<>> \in Seq(0 .. Conns) OBVIOUS
  <2>3. Len(socks) = 0 BY DEF Init
  <2>4. msg \in [Clients -> {NoMsg} \cup (Clients \X Nat)] BY <2>1 DEF Init
  <2>5. /\ i \in [Clients -> 0 .. Len(socks)]
        /\ got \in [Clients -> Seq(Clients \X Nat)] /\ sent \in Seq(Clients \X Nat)
        /\ socks \in Seq(0 .. Conns)
    BY <2>2, <2>3 DEF Init
  <2>6. /\ file \in [0 .. Conns -> 0 .. Conns] /\ mutex \in 0 .. Conns
        /\ clnt_sock \in 0 .. Conns /\ accepted \in 0 .. Conns
        /\ sock \in [Clients -> 0 .. Conns] /\ on \in [Clients -> 0 .. Conns]
    BY DEF Init
  <2>7. /\ pc \in [Clients -> Places] /\ peer \in [Clients -> {"open", "closed", "reset"}]
        /\ read \in [Clients -> Nat] /\ since \in [Clients -> Nat]
    BY DEF Init, Places
  <2> QED BY <2>1, <2>4, <2>5, <2>6, <2>7 DEF Init, TypeOK
<1>2. CountIsThreads
  <2>1. Live = {} BY DEF Init, Live
  <2> QED BY <2>1, FS_EmptySet DEF Init, CountIsThreads, Live
<1> QED BY <1>1, <1>2 DEF Init, SInv, Holder, NotYet, Reading, Speaking

(* One step of the thread that leaves live threads as they are: the array  *)
(* has as many clients as before.                                          *)
LEMMA CountSame ==
  ASSUME CountIsThreads, Len(socks') = Len(socks), Live' = Live
  PROVE  CountIsThreads'
BY DEF CountIsThreads, Live

LEMMA SAccept ==
  ASSUME SInv, Accept, UNCHANGED alive PROVE SInv'
<1> USE DEF Accept, SInv, threads, array, history
<1>1. TypeOK'
  <2>1. accepted' \in 0 .. Conns /\ accepted' \in Clients /\ main' \in {"accept", "add"}
    BY DEF TypeOK
  <2>2. clnt_sock' \in 0 .. Conns /\ file' \in [0 .. Conns -> 0 .. Conns]
    <3>1. file \in [0 .. Conns -> 0 .. Conns] BY DEF TypeOK
    <3>2. 0 \in 0 .. Conns /\ accepted + 1 \in 0 .. Conns BY <2>1
    <3>3. CASE clnt_sock' = 0 /\ UNCHANGED file BY <3>1, <3>2, <3>3
    <3>4. ASSUME NEW f \in Clients,
                 clnt_sock' = f, file' = [file EXCEPT ![f] = accepted + 1]
          PROVE  clnt_sock' \in 0 .. Conns /\ file' \in [0 .. Conns -> 0 .. Conns]
      <4>1. f \in 0 .. Conns OBVIOUS
      <4> HIDE DEF Accept
      <4> QED BY <3>1, <3>2, <3>4, <4>1
    <3> QED BY <3>3, <3>4
  <2>3. peer' \in [Clients -> {"open", "closed", "reset"}] BY <2>1 DEF TypeOK
  <2> QED BY <2>1, <2>2, <2>3 DEF TypeOK
<1>2. Holder' BY DEF Holder
<1>3. NotYet' BY DEF NotYet, TypeOK
<1>4. Reading' BY DEF Reading
<1>5. Speaking' BY DEF Speaking, TypeOK
<1>6. CountIsThreads' BY DEF CountIsThreads
<1> QED BY <1>1, <1>2, <1>3, <1>4, <1>5, <1>6

LEMMA SAdd ==
  ASSUME SInv, Add, UNCHANGED alive PROVE SInv'
<1> USE DEF Add, SInv, clients, Goto
<1>1. /\ socks' \in Seq(0 .. Conns) /\ Len(socks') = Len(socks) + 1
      /\ Len(sent) \in Nat /\ Len(socks) \in Nat
  BY LenProperties, AppendProperties DEF TypeOK
<1>2. accepted \in Clients /\ pc[accepted] = "none" BY DEF NotYet, TypeOK
<1>3. TypeOK'
  <2>1. i' \in [Clients -> 0 .. Len(socks')]
    <3>1. i' = i /\ i \in [Clients -> 0 .. Len(socks)] BY DEF TypeOK
    <3> QED BY <1>1, <3>1
  <2>2. pc' \in [Clients -> Places] BY DEF TypeOK, Places
  <2>3. since' \in [Clients -> Nat] BY <1>1 DEF TypeOK
  <2> QED BY <1>1, <2>1, <2>2, <2>3 DEF TypeOK
<1>4. Holder' BY <1>2 DEF Holder, TypeOK
<1>5. NotYet'
  <2>1. accepted' = accepted /\ main' = "accept" /\ accepted \in Nat BY DEF TypeOK
  <2>2. \A u \in Clients : u > accepted => pc'[u] = "none"
    <3>1. \A u \in Clients : u > accepted => u # accepted /\ pc[u] = "none"
      BY <2>1 DEF NotYet
    <3>2. pc' = [pc EXCEPT ![accepted] = "start"] /\ pc \in [Clients -> Places] BY DEF TypeOK
    <3> HIDE DEF Add, SInv
    <3> QED BY <3>1, <3>2
  <2> QED BY <2>1, <2>2 DEF NotYet
<1>6. Reading' BY <1>2 DEF Reading, TypeOK
<1>7. Speaking' BY DEF Speaking, TypeOK
<1>8. CountIsThreads'
  <2>1. Live' = Live \cup {accepted} BY <1>2 DEF Live, TypeOK, Places
  <2>2. accepted \notin Live BY <1>2 DEF Live
  <2>3. Cardinality(Live') = Cardinality(Live) + 1 BY <2>1, <2>2, LiveFinite, FS_AddElement
  <2> QED BY <1>1, <2>3 DEF CountIsThreads, Live
<1> QED BY <1>3, <1>4, <1>5, <1>6, <1>7, <1>8

LEMMA SBegin ==
  ASSUME SInv, NEW t \in Clients, Begin(t), UNCHANGED alive PROVE SInv'
<1> USE DEF Begin, SInv, array, mains, clients, history, Goto
<1>1. TypeOK'
  <2>1. sock' \in [Clients -> 0 .. Conns] /\ pc' \in [Clients -> Places]
    BY DEF TypeOK, Places, mains
  <2> QED BY <2>1 DEF TypeOK, mains
<1>2. Holder' BY DEF Holder, TypeOK
<1>3. NotYet' BY DEF NotYet, TypeOK
<1>4. Reading' BY DEF Reading, TypeOK
<1>5. Speaking' BY DEF Speaking, TypeOK
<1>6. Live' = Live BY LiveSame DEF TypeOK, Places
<1>7. CountIsThreads' BY <1>6, CountSame
<1> QED BY <1>1, <1>2, <1>3, <1>4, <1>5, <1>7

LEMMA SCallRead ==
  ASSUME SInv, NEW t \in Clients, CallRead(t), UNCHANGED alive PROVE SInv'
<1> USE DEF CallRead, SInv, array, mains, clients, history, Goto
<1>1. TypeOK' BY DEF TypeOK, Places
<1>2. Holder' BY DEF Holder, TypeOK
<1>3. NotYet' BY DEF NotYet, TypeOK
<1>4. Reading' BY DEF Reading, TypeOK
<1>5. Speaking' BY DEF Speaking, TypeOK
<1>6. Live' = Live BY LiveSame DEF TypeOK, Places
<1>7. CountIsThreads' BY <1>6, CountSame
<1> QED BY <1>1, <1>2, <1>3, <1>4, <1>5, <1>7

LEMMA SRead ==
  ASSUME SInv, NEW t \in Clients, Read(t), UNCHANGED alive PROVE SInv'
<1> USE DEF Read, SInv, array, mains, clients, history, Goto
<1>1. on[t] \in Clients BY DEF TypeOK, Reading
<1>2. TypeOK'
  <2>1. on' \in [Clients -> 0 .. Conns] /\ pc' \in [Clients -> Places]
    <3>1. 0 \in 0 .. Conns OBVIOUS
    <3>2. on \in [Clients -> 0 .. Conns] /\ on' = [on EXCEPT ![t] = 0] BY DEF TypeOK
    <3>3. pc \in [Clients -> Places] BY DEF TypeOK
    <3> QED BY <3>1, <3>2, <3>3 DEF Places
  <2>2. read' \in [Clients -> Nat] /\ msg' \in [Clients -> {NoMsg} \cup (Clients \X Nat)]
    <3>1. read \in [Clients -> Nat] /\ msg \in [Clients -> {NoMsg} \cup (Clients \X Nat)]
      BY DEF TypeOK
    <3>2. <<on[t], read[on[t]] + 1>> \in Clients \X Nat BY <1>1, <3>1
    <3>3. \/ /\ read' = [read EXCEPT ![on[t]] = @ + 1]
             /\ msg' = [msg EXCEPT ![t] = <<on[t], read[on[t]] + 1>>]
          \/ UNCHANGED <<msg, read>>
      OBVIOUS
    <3> HIDE DEF Read, SInv
    <3>4. read' \in [Clients -> Nat]
      <4>1. read[on[t]] + 1 \in Nat BY <1>1, <3>1
      <4> QED BY <1>1, <3>1, <3>3, <4>1
    <3>5. msg' \in [Clients -> {NoMsg} \cup (Clients \X Nat)] BY <3>1, <3>2, <3>3
    <3> QED BY <3>4, <3>5
  <2> QED BY <2>1, <2>2 DEF TypeOK
<1>3. Holder' BY DEF Holder, TypeOK
<1>4. NotYet' BY DEF NotYet, TypeOK
<1>5. Reading' BY DEF Reading, TypeOK
<1>6. Speaking'
  <2>1. \A u \in Clients \ {t} : pc'[u] \in {"send", "write"} =>
           msg[u] \in Clients \X Nat /\ msg[u][2] <= read[msg[u][1]]
    BY DEF Speaking, TypeOK
  <2>2. /\ read \in [Clients -> Nat] /\ msg \in [Clients -> {NoMsg} \cup (Clients \X Nat)]
        /\ pc \in [Clients -> Places]
    BY DEF TypeOK
  <2>3. CASE /\ read' = [read EXCEPT ![on[t]] = @ + 1]
             /\ msg' = [msg EXCEPT ![t] = <<on[t], read[on[t]] + 1>>]
    <3>1. \A c \in Clients : read'[c] \in Nat /\ read[c] \in Nat /\ read[c] <= read'[c]
      BY <1>1, <2>2, <2>3
    <3>2. /\ msg'[t] = <<on[t], read[on[t]] + 1>> /\ read'[on[t]] = read[on[t]] + 1
          /\ \A u \in Clients \ {t} : msg'[u] = msg[u]
      BY <1>1, <2>2, <2>3
    <3>3. msg'[t] \in Clients \X Nat /\ msg'[t][2] <= read'[msg'[t][1]]
      BY <1>1, <3>1, <3>2
    <3>4. ASSUME NEW u \in Clients \ {t}, pc'[u] \in {"send", "write"}
          PROVE  msg'[u] \in Clients \X Nat /\ msg'[u][2] <= read'[msg'[u][1]]
      <4>1. msg[u] \in Clients \X Nat /\ msg[u][2] <= read[msg[u][1]] BY <2>1, <3>4
      <4>2. msg[u][1] \in Clients /\ msg[u][2] \in Nat BY <4>1
      <4> HIDE DEF Read, SInv
      <4> QED BY <3>1, <3>2, <4>1, <4>2
    <3> QED BY <3>3, <3>4 DEF Speaking
  <2>4. CASE pc'[t] = "leave" /\ UNCHANGED <<msg, read>>
    BY <2>1, <2>4 DEF Speaking
  <2> QED BY <2>2, <2>3, <2>4
<1>7. Live' = Live BY LiveSame DEF TypeOK, Places
<1>8. CountIsThreads' BY <1>7, CountSame
<1> QED BY <1>2, <1>3, <1>4, <1>5, <1>6, <1>8

LEMMA SLeave ==
  ASSUME SInv, NEW t \in Clients, Leave(t), UNCHANGED alive PROVE SInv'
<1> USE DEF Leave, SInv, mains, clients, Goto
<1>1. t \in Live BY DEF Live, Places
<1>2. Cardinality(Live) > 0 BY <1>1, LiveFinite, FS_EmptySet
<1>3. Len(socks) > 0 BY <1>2 DEF CountIsThreads, Live
<1>4. socks' \in Seq(0 .. Conns) /\ Len(socks') = Len(socks) - 1 BY <1>3, ForgetOne DEF TypeOK
<1>5. TypeOK'
  <2>1. \A u \in Clients : i[u] = 0 BY DEF Holder, TypeOK
  <2>2. Len(socks) \in Nat BY LenProperties DEF TypeOK
  <2>3. i' \in [Clients -> 0 .. Len(socks')]
    <3>1. i' = i /\ i \in [Clients -> 0 .. Len(socks)] BY DEF TypeOK
    <3>2. 0 \in 0 .. Len(socks') BY <1>3, <1>4, <2>2
    <3> QED BY <2>1, <3>1, <3>2
  <2>4. pc' \in [Clients -> Places] /\ since' \in [Clients -> Nat] BY DEF TypeOK, Places
  <2>5. sent' \in Seq(Clients \X Nat) OBVIOUS
  <2> QED BY <1>4, <2>3, <2>4, <2>5 DEF TypeOK
<1>6. Holder' BY DEF Holder, TypeOK
<1>7. NotYet' BY DEF NotYet, TypeOK
<1>8. Reading' BY DEF Reading, TypeOK
<1>9. Speaking' BY DEF Speaking, TypeOK
<1>10. CountIsThreads'
  <2>1. Live' = Live \ {t} BY DEF Live, TypeOK, Places
  <2>2. Cardinality(Live') = Cardinality(Live) - 1 BY <1>1, <2>1, LiveFinite, FS_RemoveElement
  <2> QED BY <1>4, <2>2 DEF CountIsThreads, Live
<1> QED BY <1>5, <1>6, <1>7, <1>8, <1>9, <1>10

LEMMA SClose ==
  ASSUME SInv, NEW t \in Clients, Close(t), UNCHANGED alive PROVE SInv'
<1> USE DEF Close, SInv, array, mains, clients, history, Goto
<1>1. TypeOK'
  <2>1. 0 \in 0 .. Conns OBVIOUS
  <2>2. /\ sock \in [Clients -> 0 .. Conns] /\ file \in [0 .. Conns -> 0 .. Conns]
        /\ pc \in [Clients -> Places]
    BY DEF TypeOK
  <2>3. sock' \in [Clients -> 0 .. Conns] /\ file' \in [0 .. Conns -> 0 .. Conns]
    BY <2>1, <2>2
  <2>4. pc' \in [Clients -> Places] BY <2>2 DEF Places
  <2> QED BY <2>3, <2>4 DEF TypeOK
<1>2. Holder' BY DEF Holder, TypeOK
<1>3. NotYet' BY DEF NotYet, TypeOK
<1>4. Reading' BY DEF Reading, TypeOK
<1>5. Speaking' BY DEF Speaking, TypeOK
<1>6. Live' = Live BY DEF Live, TypeOK, Places
<1>7. CountIsThreads' BY <1>6, CountSame
<1> QED BY <1>1, <1>2, <1>3, <1>4, <1>5, <1>7

LEMMA SLock ==
  ASSUME SInv, NEW t \in Clients, Lock(t), UNCHANGED alive PROVE SInv'
<1> USE DEF Lock, SInv, mains, clients, Goto
<1>1. TypeOK'
  <2>1. pc' \in [Clients -> Places] /\ mutex' \in 0 .. Conns BY DEF TypeOK, Places
  <2>2. msg[t] \in Clients \X Nat BY DEF Speaking
  <2>3. sent' \in Seq(Clients \X Nat) BY <2>2 DEF TypeOK
  <2> QED BY <2>1, <2>3 DEF TypeOK
<1>2. Holder'
  <2>1. \A u \in Clients : pc[u] # "write" /\ i[u] = 0 BY DEF Holder
  <2>2. pc' = [pc EXCEPT ![t] = "write"] /\ mutex' = t /\ i' = i /\ pc \in [Clients -> Places]
    BY DEF TypeOK
  <2> HIDE DEF Lock, SInv
  <2> QED BY <2>1, <2>2 DEF Holder
<1>3. NotYet' BY DEF NotYet, TypeOK
<1>4. Reading' BY DEF Reading, TypeOK
<1>5. Speaking' BY DEF Speaking, TypeOK
<1>6. Live' = Live BY LiveSame DEF TypeOK, Places
<1>7. CountIsThreads' BY <1>6, CountSame
<1> QED BY <1>1, <1>2, <1>3, <1>4, <1>5, <1>7

LEMMA SUnlock ==
  ASSUME SInv, NEW t \in Clients, Unlock(t), UNCHANGED alive PROVE SInv'
<1> USE DEF Unlock, SInv, mains, clients, history, Goto
<1>1. TypeOK'
  <2>1. pc' \in [Clients -> Places] /\ mutex' \in 0 .. Conns BY DEF TypeOK, Places
  <2>2. 0 \in 0 .. Len(socks) /\ socks' = socks BY LenProperties DEF TypeOK
  <2>3. i' \in [Clients -> 0 .. Len(socks')] BY <2>2 DEF TypeOK
  <2>4. msg' \in [Clients -> {NoMsg} \cup (Clients \X Nat)] BY DEF TypeOK
  <2> QED BY <2>1, <2>2, <2>3, <2>4 DEF TypeOK
<1>2. Holder'
  <2>1. \A u \in Clients \ {t} : pc[u] # "write" /\ i[u] = 0 BY DEF Holder
  <2>2. /\ pc' = [pc EXCEPT ![t] = "call"] /\ mutex' = 0 /\ i' = [i EXCEPT ![t] = 0]
        /\ pc \in [Clients -> Places] /\ i \in [Clients -> 0 .. Len(socks)]
    BY DEF TypeOK
  <2> HIDE DEF Unlock, SInv
  <2> QED BY <2>1, <2>2 DEF Holder
<1>3. NotYet' BY DEF NotYet, TypeOK
<1>4. Reading' BY DEF Reading, TypeOK
<1>5. Speaking' BY DEF Speaking, TypeOK
<1>6. Live' = Live BY LiveSame DEF TypeOK, Places
<1>7. CountIsThreads' BY <1>6, CountSame
<1> QED BY <1>1, <1>2, <1>3, <1>4, <1>5, <1>7

(* A message is written to the clients: no thread moves, the array stays.  *)
LEMMA SWrite ==
  ASSUME SInv, NEW t \in Clients, Write(t) PROVE SInv'
<1> USE DEF Write, SInv, mains, array, history
<1>1. msg[t] \in Clients \X Nat BY DEF Speaking
<1>2. i[t] \in 0 .. Len(socks) /\ Len(socks) \in Nat /\ i[t] < Len(socks)
  BY LenProperties DEF TypeOK, More
<1>3. socks[i[t] + 1] \in 0 .. Conns
  <2>1. socks \in [1 .. Len(socks) -> 0 .. Conns] BY LenProperties DEF TypeOK
  <2>2. i[t] + 1 \in 1 .. Len(socks) BY <1>2
  <2> QED BY <2>1, <2>2
<1>4. TypeOK'
  <2>1. i' \in [Clients -> 0 .. Len(socks')]
    <3>1. i[t] + 1 \in 0 .. Len(socks) BY <1>2
    <3>2. i \in [Clients -> 0 .. Len(socks)] BY DEF TypeOK
    <3>3. i' = [i EXCEPT ![t] = @ + 1] /\ socks' = socks OBVIOUS
    <3> HIDE DEF Write, SInv
    <3> QED BY <3>1, <3>2, <3>3
  <2> DEFINE f == socks[i[t] + 1]
  <2>2. End(f) # "none" => file[f] \in Clients
    <3>1. file[f] \in 0 .. Conns BY <1>3 DEF TypeOK
    <3> QED BY <3>1 DEF End
  <2>3. got' \in [Clients -> Seq(Clients \X Nat)]
    <3>1. got \in [Clients -> Seq(Clients \X Nat)] BY DEF TypeOK
    <3>2. ASSUME End(f) = "open", got' = [got EXCEPT ![file[f]] = Append(@, msg[t])]
          PROVE  got' \in [Clients -> Seq(Clients \X Nat)]
      <4>1. Append(got[file[f]], msg[t]) \in Seq(Clients \X Nat)
        BY <1>1, <2>2, <3>1, <3>2, AppendProperties
      <4> HIDE DEF f, Write, SInv
      <4> QED BY <2>2, <3>1, <3>2, <4>1
    <3> QED BY <3>1, <3>2 DEF Deliver
  <2>4. peer' \in [Clients -> {"open", "closed", "reset"}]
    <3>1. peer \in [Clients -> {"open", "closed", "reset"}] BY DEF TypeOK
    <3>2. \/ peer' = peer
          \/ \E p \in {"closed", "reset"} : peer' = [peer EXCEPT ![file[f]] = p]
      BY DEF Deliver
    <3> HIDE DEF f, Write, SInv
    <3> QED BY <3>1, <3>2
  <2>5. alive' \in BOOLEAN BY DEF Deliver, TypeOK
  <2> QED BY <2>1, <2>3, <2>4, <2>5 DEF TypeOK
<1>5. Holder'
  <2>1. \A u \in Clients \ {t} : i'[u] = i[u] BY DEF TypeOK
  <2> QED BY <2>1 DEF Holder
<1>6. NotYet' BY DEF NotYet
<1>7. Reading' BY DEF Reading
<1>8. Speaking' BY DEF Speaking
<1>9. CountIsThreads' BY DEF CountIsThreads
<1> QED BY <1>4, <1>5, <1>6, <1>7, <1>8, <1>9

LEMMA SQuit ==
  ASSUME SInv, NEW c \in Clients, Quit(c), UNCHANGED alive PROVE SInv'
<1> USE DEF Quit, SInv, threads, mains, array, history
<1>1. TypeOK' BY DEF TypeOK
<1>2. Holder' /\ NotYet' /\ Reading' /\ Speaking' /\ CountIsThreads'
  BY DEF Holder, NotYet, Reading, Speaking, CountIsThreads
<1> QED BY <1>1, <1>2

LEMMA SStutter == ASSUME SInv, UNCHANGED vars PROVE SInv'
<1> USE DEF SInv, vars, threads, mains, array, clients, history
<1>1. TypeOK' BY DEF TypeOK
<1>2. Holder' /\ NotYet' /\ Reading' /\ Speaking' /\ CountIsThreads'
  BY DEF Holder, NotYet, Reading, Speaking, CountIsThreads
<1> QED BY <1>1, <1>2

THEOREM Structure == Spec => []SInv
<1>1. ASSUME SInv, [Next]_vars PROVE SInv'
  <2>1. CASE UNCHANGED vars BY <1>1, <2>1, SStutter
  <2>2. CASE Accept /\ UNCHANGED alive BY <1>1, <2>2, SAccept
  <2>3. CASE Add /\ UNCHANGED alive BY <1>1, <2>3, SAdd
  <2>4. ASSUME NEW t \in Clients, Thread(t), UNCHANGED alive PROVE SInv'
    BY <1>1, <2>4, SBegin, SCallRead, SRead, SLeave, SClose, SLock, SUnlock DEF Thread
  <2>5. ASSUME NEW t \in Clients, Write(t) PROVE SInv' BY <1>1, <2>5, SWrite
  <2>6. ASSUME NEW c \in Clients, Quit(c), UNCHANGED alive PROVE SInv' BY <1>1, <2>6, SQuit
  <2> QED BY <1>1, <2>1, <2>2, <2>3, <2>4, <2>5, <2>6 DEF Next, Runs, Thread
<1> QED BY <1>1, SInitially, PTL DEF Spec

(* Every variable stays in its type; above all no thread's index runs past *)
(* the end of an array that another one shortens (send_msg's loop).        *)
THEOREM TypeCorrect == Spec => []TypeOK
<1>1. SInv => TypeOK BY DEF SInv
<1> QED BY <1>1, Structure, PTL

(* clnt_cnt is the number of the threads that have not left.               *)
THEOREM AlwaysCountIsThreads == Spec => []CountIsThreads
<1>1. SInv => CountIsThreads BY DEF SInv
<1> QED BY <1>1, Structure, PTL
----------------------------------------------------------------------------
(* Why there is one order: a message is numbered by its client, so what is *)
(* read is new; no two threads send the same one; it comes to no client    *)
(* before its thread has the mutex, and while it is written to them no     *)
(* other is.                                                               *)
Heard == \A c \in Clients : \A j \in DOMAIN got[c] : got[c][j][2] <= read[got[c][j][1]]

Sends(t) == pc[t] \in {"send", "write"}
Apart == \A t, u \in Clients : t # u /\ Sends(t) /\ Sends(u) => msg[t] # msg[u]

Fresh == \A t \in Clients : pc[t] = "send" =>
           \A c \in Clients : \A j \in DOMAIN got[c] : got[c][j] # msg[t]

Latest == \A t \in Clients : pc[t] = "write" =>
            \A c \in Clients : \A j, k \in DOMAIN got[c] :
              j < k /\ got[c][j] = msg[t] => got[c][k] = msg[t]

OInv == SInv /\ Heard /\ Apart /\ Fresh /\ Latest /\ OneOrder

LEMMA OInitially == Init => OInv
<1> SUFFICES ASSUME Init PROVE OInv OBVIOUS
<1>1. \A c \in Clients : got[c] = <<>> /\ pc[c] = "none" BY DEF Init
<1>2. \A c \in Clients : DOMAIN got[c] = {} BY <1>1
<1> QED BY <1>1, <1>2, SInitially DEF OInv, Heard, Apart, Sends, Fresh, Latest, OneOrder

(* The steps of which no client hears and that give no thread a message.   *)
LEMMA OQuiet ==
  ASSUME OInv, SInv', UNCHANGED <<got, read>>,
         \A t \in Clients : Sends(t)' => pc'[t] = pc[t] /\ msg'[t] = msg[t]
  PROVE  OInv'
<1>1. Heard' BY DEF OInv, Heard
<1>2. Apart' BY DEF OInv, Apart, Sends
<1>3. Fresh' BY DEF OInv, Fresh, Sends
<1>4. Latest' BY DEF OInv, Latest, Sends
<1>5. OneOrder' BY DEF OInv, OneOrder, Sees
<1> QED BY <1>1, <1>2, <1>3, <1>4, <1>5 DEF OInv

LEMMA ORead ==
  ASSUME OInv, SInv', NEW t \in Clients, Read(t) PROVE OInv'
<1> DEFINE c == on[t]
<1>1. /\ c \in Clients /\ read \in [Clients -> Nat]
      /\ msg \in [Clients -> {NoMsg} \cup (Clients \X Nat)] /\ pc \in [Clients -> Places]
      /\ got \in [Clients -> Seq(Clients \X Nat)]
  <2>1. c \in 0 .. Conns /\ c # 0 BY DEF Read, OInv, SInv, TypeOK, Reading
  <2>2. c \in Clients BY <2>1
  <2> HIDE DEF c
  <2> QED BY <2>2 DEF OInv, SInv, TypeOK
<1>2. got' = got /\ pc[t] = "read" BY DEF Read, clients
<1>3. CASE pc' = [pc EXCEPT ![t] = "leave"] /\ UNCHANGED <<msg, read>>
  BY <1>1, <1>2, <1>3, OQuiet DEF Sends
<1>4. CASE /\ pc' = [pc EXCEPT ![t] = "send"]
           /\ read' = [read EXCEPT ![c] = @ + 1]
           /\ msg' = [msg EXCEPT ![t] = <<c, read[c] + 1>>]
  <2> DEFINE m == <<c, read[c] + 1>>
  <2>1. m \in Clients \X Nat /\ m[1] = c /\ m[2] = read[c] + 1 BY <1>1
  <2>2. \A d \in Clients : read[d] \in Nat /\ read'[d] \in Nat /\ read[d] <= read'[d]
    BY <1>1, <1>4
  <2>3. /\ pc'[t] = "send" /\ msg'[t] = m
        /\ \A u \in Clients \ {t} : pc'[u] = pc[u] /\ msg'[u] = msg[u]
    BY <1>1, <1>4
  <2>4. \A d \in Clients : \A j \in DOMAIN got[d] : got[d][j] \in Clients \X Nat BY <1>1
  <2>5. \A d \in Clients : \A j \in DOMAIN got[d] : got[d][j] # m
    <3> SUFFICES ASSUME NEW d \in Clients, NEW j \in DOMAIN got[d], got[d][j] = m
                 PROVE  FALSE
      OBVIOUS
    <3>1. read[c] + 1 <= read[c] BY <2>1 DEF OInv, Heard
    <3> QED BY <1>1, <3>1
  <2>6. \A u \in Clients \ {t} : Sends(u)' => msg'[u] # m
    <3> SUFFICES ASSUME NEW u \in Clients \ {t}, Sends(u)', msg'[u] = m PROVE FALSE
      OBVIOUS
    <3>1. msg[u] = m /\ pc[u] \in {"send", "write"} BY <2>3 DEF Sends
    <3>2. read[c] + 1 <= read[c] BY <2>1, <3>1 DEF OInv, SInv, Speaking
    <3> QED BY <1>1, <3>2
  <2> HIDE DEF c, m
  <2>7. Heard'
    <3> SUFFICES ASSUME NEW d \in Clients, NEW j \in DOMAIN got[d]
                 PROVE  got[d][j][2] <= read'[got[d][j][1]]
      BY <1>2 DEF Heard
    <3>1. got[d][j][1] \in Clients /\ got[d][j][2] \in Nat BY <2>4
    <3>2. got[d][j][2] <= read[got[d][j][1]] BY DEF OInv, Heard
    <3> QED BY <2>2, <3>1, <3>2
  <2>8. Apart' BY <2>3, <2>6 DEF OInv, Apart, Sends
  <2>9. Fresh' BY <1>2, <2>3, <2>5 DEF OInv, Fresh
  <2>10. Latest' BY <1>2, <2>3 DEF OInv, Latest
  <2>11. OneOrder' BY <1>2 DEF OInv, OneOrder, Sees
  <2> QED BY <2>7, <2>8, <2>9, <2>10, <2>11 DEF OInv
<1> QED BY <1>3, <1>4 DEF Read, Goto

LEMMA OLock ==
  ASSUME OInv, SInv', NEW t \in Clients, Lock(t) PROVE OInv'
<1>1. got' = got /\ read' = read /\ msg' = msg BY DEF Lock, clients
<1>2. pc[t] = "send" /\ pc' = [pc EXCEPT ![t] = "write"] /\ pc \in [Clients -> Places]
  BY DEF Lock, Goto, OInv, SInv, TypeOK
<1>3. Heard' BY <1>1 DEF OInv, Heard
<1>4. Apart' BY <1>1, <1>2 DEF OInv, Apart, Sends
<1>5. Fresh' BY <1>1, <1>2 DEF OInv, Fresh
<1>6. Latest' BY <1>1, <1>2 DEF OInv, Fresh, Latest
<1>7. OneOrder' BY <1>1 DEF OInv, OneOrder, Sees
<1> QED BY <1>3, <1>4, <1>5, <1>6, <1>7 DEF OInv

LEMMA OWrite ==
  ASSUME OInv, SInv', NEW t \in Clients, Write(t) PROVE OInv'
<1> DEFINE m == msg[t]
           e == file[socks[i[t] + 1]]
<1>1. /\ pc[t] = "write" /\ pc' = pc /\ msg' = msg /\ read' = read
      /\ got \in [Clients -> Seq(Clients \X Nat)]
      /\ got' \in [Clients -> Seq(Clients \X Nat)]
  BY DEF Write, OInv, SInv, TypeOK, array
<1>2. \A u \in Clients : pc[u] = "write" => u = t
  BY <1>1 DEF OInv, SInv, Holder
<1>3. CASE got' = got BY <1>1, <1>3, OQuiet DEF Sends
<1>4. CASE got' = [got EXCEPT ![e] = Append(@, m)] /\ e \in Clients
  <2> DEFINE n == Len(got[e])
  <2>1. /\ n \in Nat /\ DOMAIN got[e] = 1 .. n /\ DOMAIN got'[e] = 1 .. n + 1
        /\ got'[e][n + 1] = m /\ \A j \in 1 .. n : got'[e][j] = got[e][j]
    BY <1>1, <1>4, LenProperties, AppendProperties
  <2>2. \A d \in Clients \ {e} : got'[d] = got[d] BY <1>1, <1>4
  <2>3. m \in Clients \X Nat /\ m[2] <= read[m[1]] BY <1>1 DEF OInv, SInv, Speaking
  <2> HIDE DEF m, e, n
  <2>4. \A d \in Clients : \A j \in DOMAIN got'[d] :
           \/ j \in DOMAIN got[d] /\ got'[d][j] = got[d][j]
           \/ d = e /\ j = n + 1 /\ got'[d][j] = m
    BY <2>1, <2>2
  <2>5. Heard' BY <1>1, <2>3, <2>4 DEF OInv, Heard
  <2>6. Apart' BY <1>1 DEF OInv, Apart, Sends
  <2>7. Fresh'
    <3>1. \A u \in Clients : pc[u] = "send" => msg[u] # m
      BY <1>1 DEF OInv, Apart, Sends, m
    <3> QED BY <1>1, <2>4, <3>1 DEF OInv, Fresh
  <2>8. \A d \in Clients : \A j, k \in DOMAIN got'[d] :
           j < k /\ got'[d][j] = m => got'[d][k] = m
    <3> SUFFICES ASSUME NEW d \in Clients, NEW j \in DOMAIN got'[d], NEW k \in DOMAIN got'[d],
                        j < k, got'[d][j] = m, got'[d][k] # m
                 PROVE  FALSE
      OBVIOUS
    <3>1. k \in DOMAIN got[d] /\ got'[d][k] = got[d][k] BY <2>4
    <3>2. j \in DOMAIN got[d] /\ got'[d][j] = got[d][j]
      <4>1. CASE d = e BY <2>1, <3>1, <4>1
      <4>2. CASE d # e BY <2>2, <4>2
      <4> QED BY <4>1, <4>2
    <3> QED BY <1>1, <3>1, <3>2 DEF OInv, Latest, m
  <2>9. Latest' BY <1>1, <1>2, <2>8 DEF Latest, m
  <2>10. OneOrder'
    <3> SUFFICES ASSUME NEW c \in Clients, NEW d \in Clients,
                        NEW j \in DOMAIN got'[c], NEW k \in DOMAIN got'[c],
                        NEW p \in DOMAIN got'[d], NEW q \in DOMAIN got'[d],
                        j < k, got'[c][j] # got'[c][k], p < q,
                        got'[d][p] = got'[c][k], got'[d][q] = got'[c][j]
                 PROVE  FALSE
      BY DEF OneOrder, Sees
    <3>1. got'[c][j] # m /\ got'[d][p] # m BY <2>8
    <3>2. /\ j \in DOMAIN got[c] /\ got'[c][j] = got[c][j]
          /\ k \in DOMAIN got[c] /\ got'[c][k] = got[c][k]
          /\ p \in DOMAIN got[d] /\ got'[d][p] = got[d][p]
          /\ q \in DOMAIN got[d] /\ got'[d][q] = got[d][q]
      BY <2>4, <3>1
    <3> QED BY <3>2 DEF OInv, OneOrder, Sees
  <2> QED BY <2>5, <2>6, <2>7, <2>9, <2>10 DEF OInv
<1>5. got' = got \/ (got' = [got EXCEPT ![e] = Append(@, m)] /\ e \in Clients)
  <2>1. CASE End(socks[i[t] + 1]) # "open" BY <2>1 DEF Write, Deliver
  <2>2. CASE End(socks[i[t] + 1]) = "open"
    <3>1. i[t] \in 0 .. Len(socks) /\ i[t] < Len(socks) /\ Len(socks) \in Nat
      BY LenProperties DEF OInv, SInv, TypeOK, Write, More
    <3>2. socks \in [1 .. Len(socks) -> 0 .. Conns] BY LenProperties DEF OInv, SInv, TypeOK
    <3>3. i[t] + 1 \in 1 .. Len(socks) BY <3>1
    <3>4. e \in 0 .. Conns BY <3>2, <3>3 DEF OInv, SInv, TypeOK
    <3>5. file[socks[i[t] + 1]] # 0 BY <2>2 DEF End
    <3>6. e \in Clients BY <3>4, <3>5
    <3>7. got' = [got EXCEPT ![e] = Append(@, m)] BY <2>2 DEF Write, Deliver
    <3> QED BY <3>6, <3>7
  <2> QED BY <2>1, <2>2
<1> QED BY <1>3, <1>4, <1>5

(* No two clients see two messages in different orders (send_msg's mutex). *)
THEOREM AlwaysOneOrder == Spec => []OneOrder
<1>1. ASSUME OInv, SInv', [Next]_vars PROVE OInv'
  <2>1. pc \in [Clients -> Places] /\ msg \in [Clients -> {NoMsg} \cup (Clients \X Nat)]
    BY <1>1 DEF OInv, SInv, TypeOK
  <2>2. CASE UNCHANGED vars
    BY <1>1, <2>2, OQuiet DEF vars, threads, clients
  <2>3. CASE Accept
    BY <1>1, <2>3, OQuiet DEF Accept, threads
  <2>4. CASE Add
    BY <1>1, <2>1, <2>4, OQuiet DEF Add, clients, Goto, Sends
  <2>5. ASSUME NEW t \in Clients, Thread(t) PROVE OInv'
    <3> USE <1>1, <2>1 DEF clients, Goto, Sends
    <3>1. CASE Begin(t) BY <3>1, OQuiet DEF Begin
    <3>2. CASE CallRead(t) BY <3>2, OQuiet DEF CallRead
    <3>3. CASE Read(t) BY <3>3, ORead
    <3>4. CASE Leave(t) BY <3>4, OQuiet DEF Leave
    <3>5. CASE Close(t) BY <3>5, OQuiet DEF Close
    <3>6. CASE Lock(t) BY <3>6, OLock
    <3>7. CASE Unlock(t) BY <3>7, OQuiet DEF Unlock
    <3> QED BY <2>5, <3>1, <3>2, <3>3, <3>4, <3>5, <3>6, <3>7 DEF Thread
  <2>6. ASSUME NEW t \in Clients, Write(t) PROVE OInv' BY <1>1, <2>6, OWrite
  <2>7. ASSUME NEW c \in Clients, Quit(c) PROVE OInv'
    BY <1>1, <2>7, OQuiet DEF Quit, threads
  <2> QED BY <1>1, <2>2, <2>3, <2>4, <2>5, <2>6, <2>7 DEF Next, Runs, Thread
<1>2. OInv => OneOrder BY DEF OInv
<1> QED BY <1>1, <1>2, OInitially, Structure, PTL DEF Spec
----------------------------------------------------------------------------
(* Why nothing is missed before the first thread leaves: descriptors are   *)
(* not used again, so that slot c is connection c's, and while a message   *)
(* is written the clients before the index have it and the others do not.  *)

(* The clients that were added, in the order of accept.                    *)
Added == IF main = "add" THEN accepted - 1 ELSE accepted

(* A slot means the connection it was filled for, or none that is open.    *)
IsSock(f, c) == (f = 0 /\ peer[c] = "reset") \/ (f \in Clients /\ file[f] = c)

InOrder ==
  /\ \A t \in Clients : pc[t] \notin {"close", "end"}
  /\ Len(socks) = Added
  /\ \A c \in 1 .. Added : IsSock(socks[c], c)
  /\ main = "add" => IsSock(clnt_sock, accepted)
  /\ file[0] = 0

(* Who has got all of what was broadcast up to the n-th message.           *)
Has(c, n) ==
  /\ Len(got[c]) = n - since[c]
  /\ \A j \in 1 .. Len(got[c]) : got[c][j] = sent[since[c] + j]

Told ==
  /\ \A c \in Clients : c > Added => got[c] = <<>>
  /\ \A c \in 1 .. Added : since[c] <= Len(sent)
  /\ mutex = 0 => \A c \in 1 .. Added : peer[c] = "open" => Has(c, Len(sent))
  /\ mutex # 0 => /\ Len(sent) > 0 /\ sent[Len(sent)] = msg[mutex]
                  /\ \A c \in 1 .. Added :
                       /\ since[c] < Len(sent)
                       /\ peer[c] = "open" =>
                            Has(c, IF c <= i[mutex] THEN Len(sent) ELSE Len(sent) - 1)

UInv == ~left => InOrder /\ Told

(* They are among the connections that were accepted.                      *)
LEMMA AddedType == SInv => /\ Added \in 0 .. Conns /\ Added \in Nat /\ accepted \in Nat
                           /\ Added <= accepted /\ accepted <= Conns
BY DEF Added, SInv, TypeOK, NotYet

(* Nobody was added yet.                                                   *)
LEMMA UInitially == Init => UInv
<1> SUFFICES ASSUME Init PROVE UInv OBVIOUS
<1>1. Added = 0 /\ Len(socks) = 0 /\ mutex = 0 /\ file[0] = 0 BY DEF Init, Added
<1>2. InOrder BY <1>1 DEF Init, InOrder
<1>3. Told BY <1>1 DEF Init, Told
<1> QED BY <1>2, <1>3 DEF UInv

(* The steps that write to no client and move no slot: a client's end may  *)
(* only get worse.                                                         *)
LEMMA UQuiet ==
  ASSUME SInv, UInv,
         UNCHANGED <<socks, mutex, main, clnt_sock, accepted, got, sent, since, left, file>>,
         \A t \in Clients : pc'[t] \in {"close", "end"} => left,
         \A c \in Clients : /\ peer'[c] = "open" => peer[c] = "open"
                            /\ peer[c] = "reset" => peer'[c] = "reset",
         mutex # 0 => i'[mutex] = i[mutex] /\ msg'[mutex] = msg[mutex]
  PROVE  UInv'
<1> SUFFICES ASSUME ~left PROVE InOrder' /\ Told' BY DEF UInv
<1>1. InOrder /\ Told BY DEF UInv
<1>2. Added' = Added /\ \A c \in 1 .. Added : c \in Clients BY AddedType DEF Added
<1>3. main = "add" => accepted \in Clients BY DEF SInv, TypeOK, NotYet
<1>4. InOrder' BY <1>1, <1>2, <1>3 DEF InOrder, IsSock
<1>5. Told' BY <1>1, <1>2 DEF Told, Has
<1> QED BY <1>4, <1>5

(* The descriptor that accept gives was free: it means no one else's slot. *)
LEMMA UAccept ==
  ASSUME SInv, UInv, Accept PROVE UInv'
<1> SUFFICES ASSUME ~left PROVE InOrder' /\ Told' BY DEF UInv, Accept, history
<1>1. InOrder /\ Told BY DEF UInv
<1>2. /\ accepted \in Nat /\ accepted + 1 \in Clients /\ main = "accept" /\ main' = "add"
      /\ accepted' = accepted + 1 /\ Added = accepted /\ Added' = accepted
      /\ UNCHANGED <<pc, i, msg, socks, mutex, got, sent, since>>
      /\ file \in [0 .. Conns -> 0 .. Conns] /\ peer \in [Clients -> {"open", "closed", "reset"}]
  <2>1. /\ accepted \in 0 .. Conns /\ accepted < Conns /\ main = "accept" /\ main' = "add"
        /\ accepted' = accepted + 1
    BY DEF Accept, SInv, TypeOK
  <2>2. accepted \in Nat /\ accepted + 1 \in Clients BY <2>1
  <2>3. Added = accepted /\ Added' = accepted BY <2>1, <2>2 DEF Added
  <2>4. UNCHANGED <<pc, i, msg, socks, mutex, got, sent, since>>
    BY DEF Accept, threads, array, history
  <2>5. file \in [0 .. Conns -> 0 .. Conns] /\ peer \in [Clients -> {"open", "closed", "reset"}]
    BY DEF SInv, TypeOK
  <2> QED BY <2>1, <2>2, <2>3, <2>4, <2>5
<1>3. \A c \in 1 .. Added : c \in Clients /\ c # accepted + 1 BY <1>2
<1>4. CASE clnt_sock' = 0 /\ peer' = [peer EXCEPT ![accepted + 1] = "reset"] /\ UNCHANGED file
  <2>1. peer'[accepted + 1] = "reset" /\ \A c \in 1 .. Added : peer'[c] = peer[c]
    BY <1>2, <1>3, <1>4
  <2>2. InOrder' BY <1>1, <1>2, <1>3, <1>4, <2>1 DEF InOrder, IsSock
  <2>3. Told' BY <1>1, <1>2, <2>1 DEF Told, Has
  <2> QED BY <2>2, <2>3
<1>5. ASSUME NEW f \in Clients, file[f] = 0, clnt_sock' = f,
             file' = [file EXCEPT ![f] = accepted + 1], UNCHANGED peer
      PROVE  InOrder' /\ Told'
  <2>1. /\ file'[f] = accepted + 1 /\ file'[0] = 0
        /\ \A g \in Clients : file[g] # 0 => file'[g] = file[g]
    BY <1>1, <1>2, <1>5 DEF InOrder
  <2>2. InOrder'
    <3>1. ASSUME NEW c \in 1 .. Added PROVE IsSock(socks[c], c)'
      <4>1. IsSock(socks[c], c) /\ c # 0 BY <1>1 DEF InOrder
      <4> QED BY <1>2, <1>5, <2>1, <4>1 DEF IsSock
    <3>2. IsSock(clnt_sock, accepted)' BY <1>2, <1>5, <2>1 DEF IsSock
    <3> QED BY <1>1, <1>2, <2>1, <3>1, <3>2 DEF InOrder
  <2>3. Told' BY <1>1, <1>2, <1>5 DEF Told, Has
  <2> QED BY <2>2, <2>3
<1> QED BY <1>4, <1>5 DEF Accept

(* The new client has missed all that was said.                            *)
LEMMA UAdd ==
  ASSUME SInv, UInv, Add PROVE UInv'
<1> SUFFICES ASSUME ~left PROVE InOrder' /\ Told' BY DEF UInv, Add
<1>1. InOrder /\ Told BY DEF UInv
<1> DEFINE a == accepted
<1>2. /\ a \in Clients /\ main = "add" /\ main' = "accept" /\ accepted' = a
      /\ Added = a - 1 /\ Added' = a /\ mutex = 0 /\ mutex' = 0
      /\ socks' = Append(socks, clnt_sock) /\ since' = [since EXCEPT ![a] = Len(sent)]
      /\ UNCHANGED <<peer, got, sent, file>> /\ pc' = [pc EXCEPT ![a] = "start"]
  BY DEF Add, Added, SInv, TypeOK, NotYet, clients, Goto
<1>3. /\ socks \in Seq(0 .. Conns) /\ clnt_sock \in 0 .. Conns /\ since \in [Clients -> Nat]
      /\ sent \in Seq(Clients \X Nat) /\ pc \in [Clients -> Places]
      /\ Len(sent) \in Nat
  BY LenProperties DEF SInv, TypeOK
<1>4. Len(socks) = a - 1 BY <1>1, <1>2 DEF InOrder
<1>5. /\ Len(socks') = a /\ socks'[a] = clnt_sock
      /\ \A c \in 1 .. a - 1 : socks'[c] = socks[c]
  BY <1>2, <1>3, <1>4, AppendProperties
<1> HIDE DEF a
<1>6. InOrder'
  <2>1. ASSUME NEW c \in 1 .. a PROVE IsSock(socks[c], c)'
    <3>1. CASE c = a
      <4>1. IsSock(clnt_sock, a) BY <1>1, <1>2 DEF InOrder, a
      <4> QED BY <1>2, <1>5, <3>1, <4>1 DEF IsSock
    <3>2. CASE c \in 1 .. a - 1
      <4>1. IsSock(socks[c], c) BY <1>1, <1>2, <3>2 DEF InOrder
      <4> QED BY <1>2, <1>5, <3>2, <4>1 DEF IsSock
    <3> QED
      <4>1. a \in Nat /\ c \in 1 .. a BY <1>2
      <4>2. c = a \/ c \in 1 .. a - 1 BY <4>1
      <4> QED BY <3>1, <3>2, <4>2
  <2>2. \A t \in Clients : pc'[t] \notin {"close", "end"}
    BY <1>1, <1>2, <1>3 DEF InOrder
  <2>3. file'[0] = 0 /\ Len(socks') = Added' BY <1>1, <1>2, <1>5 DEF InOrder
  <2> QED BY <1>2, <2>1, <2>2, <2>3 DEF InOrder
<1>7. Told'
  <2>1. since'[a] = Len(sent) /\ \A c \in 1 .. a - 1 : since'[c] = since[c]
    BY <1>2, <1>3
  <2>2. got[a] = <<>> /\ \A c \in 1 .. a : c = a \/ c \in 1 .. a - 1 BY <1>1, <1>2 DEF Told
  <2>3. ASSUME NEW c \in 1 .. a PROVE since'[c] <= Len(sent) /\ (peer[c] = "open" => Has(c, Len(sent))')
    <3>1. CASE c = a BY <1>2, <1>3, <2>1, <2>2, <3>1 DEF Has
    <3>2. CASE c \in 1 .. a - 1 BY <1>1, <1>2, <2>1, <3>2 DEF Told, Has
    <3> QED BY <2>2, <3>1, <3>2
  <2>4. \A c \in Clients : c > a => got[c] = <<>> BY <1>1, <1>2 DEF Told
  <2> QED BY <1>2, <2>3, <2>4 DEF Told
<1> QED BY <1>6, <1>7

(* One more message is due to everybody.                                   *)
LEMMA ULock ==
  ASSUME SInv, UInv, NEW t \in Clients, Lock(t) PROVE UInv'
<1> SUFFICES ASSUME ~left PROVE InOrder' /\ Told' BY DEF UInv, Lock
<1>1. InOrder /\ Told BY DEF UInv
<1>2. /\ mutex = 0 /\ mutex' = t /\ sent' = Append(sent, msg[t]) /\ t # 0
      /\ UNCHANGED <<msg, i, socks, main, clnt_sock, accepted, peer, got, file, since>>
      /\ pc' = [pc EXCEPT ![t] = "write"] /\ pc[t] = "send" /\ Added' = Added
  BY DEF Lock, Goto, Added, mains, clients
<1>3. /\ sent \in Seq(Clients \X Nat) /\ pc \in [Clients -> Places] /\ msg[t] \in Clients \X Nat
      /\ Len(sent) \in Nat /\ since \in [Clients -> Nat] /\ i[t] = 0
      /\ got \in [Clients -> Seq(Clients \X Nat)]
  BY <1>2, LenProperties DEF SInv, TypeOK, Speaking, Holder
<1>4. /\ Len(sent') = Len(sent) + 1 /\ sent'[Len(sent')] = msg[t]
      /\ \A j \in 1 .. Len(sent) : sent'[j] = sent[j]
  BY <1>2, <1>3, AppendProperties
<1>5. InOrder' BY <1>1, <1>2, <1>3 DEF InOrder, IsSock
<1>6. Told'
  <2>1. ASSUME NEW c \in 1 .. Added
        PROVE  /\ since[c] < Len(sent')
               /\ peer[c] = "open" => Has(c, Len(sent) - 1)' /\ ~(c <= i'[t])
    <3>1. c \in Clients /\ since[c] \in Nat /\ since[c] <= Len(sent)
      BY <1>1, <1>3, AddedType DEF Told
    <3>2. ~(c <= i'[t]) BY <1>2, <1>3, <3>1
    <3>3. ASSUME peer[c] = "open" PROVE Has(c, Len(sent) - 1)'
      <4>1. Has(c, Len(sent)) BY <1>1, <1>2, <3>3 DEF Told
      <4>2. Len(got[c]) = Len(sent) - since[c]
            /\ \A j \in 1 .. Len(got[c]) : got[c][j] = sent[since[c] + j]
        BY <4>1 DEF Has
      <4>3. ASSUME NEW j \in 1 .. Len(got[c]) PROVE got[c][j] = sent'[since[c] + j]
        <5>0. since[c] \in Nat /\ Len(sent) \in Nat /\ j \in 1 .. Len(sent) - since[c]
          BY <1>3, <3>1, <4>2
        <5>1. since[c] + j \in 1 .. Len(sent) BY <5>0
        <5> QED BY <1>4, <4>2, <5>1
      <4>4. Len(got[c]) = Len(sent') - 1 - since[c]
        <5>1. /\ since[c] \in Nat /\ Len(sent) \in Nat /\ Len(sent') = Len(sent) + 1
              /\ Len(got[c]) = Len(sent) - since[c]
          BY <1>3, <1>4, <3>1, <4>2
        <5> QED BY <5>1
      <4>5. got' = got /\ since' = since BY <1>2
      <4> QED BY <4>3, <4>4, <4>5 DEF Has
    <3> QED BY <1>3, <1>4, <3>1, <3>2, <3>3
  <2>2. \A c \in Clients : c > Added => got[c] = <<>> BY <1>1 DEF Told
  <2>3. \A c \in 1 .. Added : since[c] <= Len(sent')
    <3>1. \A c \in 1 .. Added : c \in Clients /\ since[c] \in Nat
      <4>1. \A c \in 1 .. Added : c \in Clients BY AddedType
      <4>2. since \in [Clients -> Nat] BY <1>3
      <4> QED BY <4>1, <4>2
    <3>2. Len(sent') \in Nat BY <1>3, <1>4
    <3> QED BY <2>1, <3>1, <3>2
  <2>4. Len(sent') > 0 /\ mutex' # 0 BY <1>2, <1>3, <1>4
  <2>5. /\ mutex' = t /\ msg' = msg /\ got' = got /\ since' = since /\ peer' = peer
        /\ Added' = Added /\ sent'[Len(sent')] = msg[t]
    BY <1>2, <1>4
  <2> QED BY <2>1, <2>2, <2>3, <2>4, <2>5 DEF Told
<1> QED BY <1>5, <1>6

(* It has come to everybody.                                               *)
LEMMA UUnlock ==
  ASSUME SInv, UInv, NEW t \in Clients, Unlock(t) PROVE UInv'
<1> SUFFICES ASSUME ~left PROVE InOrder' /\ Told' BY DEF UInv, Unlock, history
<1>1. InOrder /\ Told BY DEF UInv
<1>2. /\ mutex = t /\ t # 0 /\ mutex' = 0 /\ ~(i[t] < Len(socks))
      /\ UNCHANGED <<socks, main, clnt_sock, accepted, peer, got, file, sent, since>>
      /\ pc' = [pc EXCEPT ![t] = "call"] /\ pc \in [Clients -> Places] /\ Added' = Added
  <2>1. pc[t] = "write" /\ pc \in [Clients -> Places] /\ mutex = t
    BY DEF Unlock, SInv, Holder, TypeOK
  <2> QED BY <2>1 DEF Unlock, More, Goto, Added, mains, clients, history
<1>3. InOrder' BY <1>1, <1>2 DEF InOrder, IsSock
<1>4. \A c \in 1 .. Added : c <= i[t]
  <2>1. Len(socks) = Added /\ i[t] \in Nat /\ Added \in Nat
    BY <1>1, AddedType, LenProperties DEF InOrder, SInv, TypeOK
  <2> QED BY <1>2, <2>1
<1>5. Told' BY <1>1, <1>2, <1>4 DEF Told, Has
<1> QED BY <1>3, <1>5

(* The slot that is written to is the connection's own.                    *)
LEMMA UWrite ==
  ASSUME SInv, SInv', UInv, NEW t \in Clients, Write(t) PROVE UInv'
<1> SUFFICES ASSUME ~left PROVE InOrder' /\ Told' BY DEF UInv, Write, history
<1>1. InOrder /\ Told BY DEF UInv
<1>0. PICK c : c = i[t] + 1 OBVIOUS
<1> DEFINE f == socks[c]
<1>2. /\ mutex = t /\ t # 0 /\ i' = [i EXCEPT ![t] = @ + 1]
      /\ UNCHANGED <<pc, socks, mutex, main, clnt_sock, accepted, file, sent, since, msg>>
      /\ Added' = Added /\ i \in [Clients -> 0 .. Len(socks)]
      /\ got \in [Clients -> Seq(Clients \X Nat)] /\ since \in [Clients -> Nat]
      /\ peer \in [Clients -> {"open", "closed", "reset"}]
      /\ msg[t] \in Clients \X Nat /\ sent \in Seq(Clients \X Nat) /\ Len(sent) \in Nat
      /\ pc[t] = "write"
  <2>1. pc[t] = "write" /\ mutex = t BY DEF Write, SInv, Holder
  <2>2. /\ i \in [Clients -> 0 .. Len(socks)]
        /\ got \in [Clients -> Seq(Clients \X Nat)] /\ since \in [Clients -> Nat]
        /\ peer \in [Clients -> {"open", "closed", "reset"}]
        /\ msg[t] \in Clients \X Nat /\ sent \in Seq(Clients \X Nat) /\ Len(sent) \in Nat
    BY <2>1, LenProperties DEF SInv, TypeOK, Speaking
  <2>3. /\ i' = [i EXCEPT ![t] = @ + 1]
        /\ UNCHANGED <<pc, socks, mutex, main, clnt_sock, accepted, file, sent, since, msg>>
    BY DEF Write, mains, array, history
  <2>4. t # 0 /\ Added' = Added BY <2>3 DEF Added
  <2> QED BY <2>1, <2>2, <2>3, <2>4
<1>3. /\ c \in 1 .. Added /\ c \in Clients /\ Added \in Nat /\ i[t] \in Nat /\ i'[t] = c
  <2>1. Len(socks) = Added /\ i[t] \in Nat /\ i[t] < Len(socks)
    <3>1. Len(socks) = Added /\ i[t] < Len(socks) BY <1>1 DEF InOrder, Write, More
    <3>2. i[t] \in 0 .. Len(socks) BY <1>2
    <3> QED BY <3>1, <3>2, AddedType
  <2>2. c \in 1 .. Added /\ c \in Clients BY <1>0, <2>1, AddedType
  <2>3. i'[t] = c BY <1>0, <1>2
  <2> QED BY <2>1, <2>2, <2>3, AddedType
<1>4. IsSock(f, c) /\ since[c] < Len(sent)
      /\ (peer[c] = "open" => Has(c, Len(sent) - 1))
  BY <1>1, <1>2, <1>3 DEF InOrder, Told
<1>5. Deliver(msg[t], f) BY <1>0 DEF Write
<1>6. CASE f = 0 /\ peer[c] = "reset" 
  <2>1. got' = got /\ peer' = peer BY <1>1, <1>5, <1>6 DEF Deliver, End, InOrder
  <2>2. InOrder' BY <1>1, <1>2, <2>1 DEF InOrder, IsSock
  <2>3. \A d \in 1 .. Added : peer[d] = "open" => (d <= i'[t] <=> d <= i[t])
    BY <1>0, <1>3, <1>6
  <2>4. Told' BY <1>1, <1>2, <2>1, <2>3 DEF Told, Has
  <2> QED BY <2>2, <2>4
<1>7. CASE f \in Clients /\ file[f] = c
  <2>0. End(f) = peer[c] BY <1>3, <1>7 DEF End
  <2>1. CASE peer[c] # "open"
    <3>1. got' = got /\ \A d \in Clients : /\ peer'[d] = "open" => peer[d] = "open"
                                           /\ peer[d] = "reset" => peer'[d] = "reset"
      BY <1>2, <1>5, <1>7, <2>0, <2>1 DEF Deliver
    <3>2. InOrder'
      <4>1. ASSUME NEW d \in 1 .. Added PROVE IsSock(socks[d], d)'
        <5>1. IsSock(socks[d], d) /\ d \in Clients BY <1>1, AddedType DEF InOrder
        <5>2. socks' = socks /\ file' = file BY <1>2
        <5> QED BY <3>1, <5>1, <5>2 DEF IsSock
      <4>2. main = "add" => IsSock(clnt_sock, accepted)'
        <5>1. main = "add" => accepted \in Clients BY DEF SInv, TypeOK, NotYet
        <5> QED BY <1>1, <1>2, <3>1, <5>1 DEF InOrder, IsSock
      <4> QED BY <1>1, <1>2, <4>1, <4>2 DEF InOrder
    <3>3. \A d \in 1 .. Added : peer[d] = "open" => (d <= i'[t] <=> d <= i[t])
      BY <1>0, <1>3, <2>1
    <3>4. \A d \in 1 .. Added : d \in Clients BY AddedType
    <3>5. Told' BY <1>1, <1>2, <3>1, <3>3, <3>4 DEF Told, Has
    <3> QED BY <3>2, <3>5
  <2>2. CASE peer[c] = "open"
    <3>1. got' = [got EXCEPT ![c] = Append(@, msg[t])] /\ peer' = peer
      BY <1>5, <1>7, <2>0, <2>2 DEF Deliver
    <3>2. InOrder' BY <1>1, <1>2, <3>1 DEF InOrder, IsSock
    <3> HIDE DEF f
    <3>3. /\ Len(got[c]) \in Nat /\ Len(got'[c]) = Len(got[c]) + 1
          /\ got'[c][Len(got[c]) + 1] = msg[t]
          /\ \A j \in 1 .. Len(got[c]) : got'[c][j] = got[c][j]
          /\ \A d \in Clients \ {c} : got'[d] = got[d]
      BY <1>2, <1>3, <3>1, AppendProperties, LenProperties
    <3>4. Has(c, Len(sent))'
      <4>1. Len(got[c]) = Len(sent) - 1 - since[c] /\ since[c] \in Nat
            /\ \A j \in 1 .. Len(got[c]) : got[c][j] = sent[since[c] + j]
        BY <1>2, <1>3, <1>4, <2>2 DEF Has
      <4>2. sent[Len(sent)] = msg[t] BY <1>1, <1>2 DEF Told
      <4>0. Len(sent) \in Nat BY <1>2
      <4>7. /\ Len(got[c]) \in Nat /\ Len(got'[c]) = Len(got[c]) + 1
            /\ Len(got[c]) = Len(sent) - 1 - since[c] /\ since[c] \in Nat
        BY <3>3, <4>1
      <4>3. Len(got'[c]) = Len(sent) - since[c] BY <4>0, <4>7
      <4>4. since[c] + (Len(got[c]) + 1) = Len(sent) BY <4>0, <4>7
      <4>5. ASSUME NEW j \in 1 .. Len(got'[c]) PROVE got'[c][j] = sent[since[c] + j]
        <5>1. CASE j = Len(got[c]) + 1 BY <3>3, <4>2, <4>4, <5>1
        <5>2. CASE j # Len(got[c]) + 1
          <6>1. j \in 1 .. Len(got[c]) BY <3>3, <5>2
          <6> QED BY <3>3, <4>1, <6>1
        <5> QED BY <5>1, <5>2
      <4>6. sent' = sent /\ since' = since BY <1>2
      <4> QED BY <4>3, <4>5, <4>6 DEF Has
    <3>5. ASSUME NEW d \in 1 .. Added, peer[d] = "open"
          PROVE  Has(d, IF d <= i[t] THEN Len(sent) ELSE Len(sent) - 1)'
      <4>0. sent' = sent /\ since' = since /\ i[t] \in Nat /\ i'[t] = c /\ c = i[t] + 1 /\ d \in Nat
        BY <1>0, <1>2, <1>3, AddedType
      <4>1. CASE d = c
        <5>1. d <= i'[t] BY <4>0, <4>1
        <5> QED BY <3>4, <4>0, <4>1, <5>1
      <4>2. CASE d # c
        <5>1. d \in Clients \ {c} /\ (d <= i'[t] <=> d <= i[t])
          BY <4>0, <4>2, AddedType
        <5>2. Has(d, IF d <= i[t] THEN Len(sent) ELSE Len(sent) - 1)
          BY <1>1, <1>2, <3>5 DEF Told
        <5>3. got'[d] = got[d] BY <3>3, <5>1
        <5> QED BY <4>0, <5>1, <5>2, <5>3 DEF Has
      <4> QED BY <4>1, <4>2
    <3>6. \A d \in Clients : d > Added => got'[d] = <<>>
      <4>1. \A d \in Clients : d > Added => got[d] = <<>> /\ d # c BY <1>1, <1>3 DEF Told
      <4> QED BY <3>3, <4>1
    <3>7. /\ Added' = Added /\ mutex' = mutex /\ mutex = t /\ t # 0 /\ sent' = sent /\ since' = since
          /\ msg' = msg /\ peer' = peer
      BY <1>2, <3>1
    <3>8. Told' BY <1>1, <3>5, <3>6, <3>7 DEF Told
    <3> QED BY <3>2, <3>8
  <2> QED BY <2>1, <2>2
<1> QED BY <1>4, <1>6, <1>7 DEF IsSock

(* Until the first thread leaves, every client that is still there has got *)
(* all of what was broadcast since it was added, and nothing else.         *)
THEOREM AlwaysUntilOneLeaves == Spec => []UntilOneLeaves
<1>1. ASSUME SInv, SInv', UInv, [Next]_vars PROVE UInv'
  <2> USE <1>1
  <2>0. /\ pc \in [Clients -> Places] /\ peer \in [Clients -> {"open", "closed", "reset"}]
        /\ \A t \in Clients : pc[t] \in {"close", "end"} => left
        /\ \A t \in Clients : pc[t] = "write" <=> mutex = t
        /\ i \in [Clients -> 0 .. Len(socks)] /\ msg \in [Clients -> {NoMsg} \cup (Clients \X Nat)]
        /\ mutex \in 0 .. Conns
    BY DEF SInv, TypeOK, UInv, InOrder, Holder
  <2>1. CASE UNCHANGED vars
    BY <2>0, <2>1, UQuiet DEF vars, threads, array, mains, clients, history
  <2>2. CASE Accept BY <2>2, UAccept
  <2>3. CASE Add BY <2>3, UAdd
  <2>4. ASSUME NEW t \in Clients, Begin(t) \/ CallRead(t) \/ Read(t) PROVE UInv'
    <3>1. /\ UNCHANGED <<socks, mutex, main, clnt_sock, accepted, got, sent, since, left, file,
                         peer, i>>
          /\ pc[t] \in {"start", "call", "read"}
          /\ pc' \in {[pc EXCEPT ![t] = l] : l \in {"call", "read", "send", "leave"}}
          /\ \A u \in Clients : u # t => msg'[u] = msg[u]
      BY <2>0, <2>4 DEF Begin, CallRead, Read, Goto, array, mains, clients, history
    <3>2. \A u \in Clients : pc'[u] \in {"close", "end"} => pc[u] \in {"close", "end"}
      BY <2>0, <3>1
    <3>3. mutex # 0 => mutex \in Clients /\ mutex # t BY <2>0, <3>1
    <3> QED BY <2>0, <3>1, <3>2, <3>3, UQuiet
  <2>5. ASSUME NEW t \in Clients, Leave(t) PROVE UInv' BY <2>5 DEF Leave, UInv
  <2>6. ASSUME NEW t \in Clients, Close(t) PROVE UInv'
    BY <2>0, <2>6 DEF Close, UInv, history
  <2>7. ASSUME NEW t \in Clients, Lock(t) PROVE UInv' BY <2>7, ULock
  <2>8. ASSUME NEW t \in Clients, Unlock(t) PROVE UInv' BY <2>8, UUnlock
  <2>9. ASSUME NEW t \in Clients, Write(t) PROVE UInv' BY <2>9, UWrite
  <2>10. ASSUME NEW c \in Clients, Quit(c) PROVE UInv'
    <3>1. \A d \in Clients : /\ peer'[d] = "open" => peer[d] = "open"
                             /\ peer[d] = "reset" => peer'[d] = "reset"
      BY <2>0, <2>10 DEF Quit
    <3> QED BY <2>0, <2>10, <3>1, UQuiet DEF Quit, threads, array, mains, history
  <2> QED BY <2>1, <2>2, <2>3, <2>4, <2>5, <2>6, <2>7, <2>8, <2>9, <2>10 DEF Next, Runs
<1>2. SInv /\ UInv => UntilOneLeaves
  <2> SUFFICES ASSUME SInv, UInv, ~left, mutex = 0,
                      NEW c \in 1 .. Added, peer[c] = "open"
               PROVE  got[c] = SubSeq(sent, since[c] + 1, Len(sent))
    BY DEF UntilOneLeaves, Added
  <2>1. c \in Clients BY AddedType
  <2>2. /\ got[c] \in Seq(Clients \X Nat) /\ sent \in Seq(Clients \X Nat) /\ since[c] \in Nat
        /\ Len(sent) \in Nat
    BY <2>1, LenProperties DEF SInv, TypeOK
  <2>3. Has(c, Len(sent)) /\ since[c] <= Len(sent) BY DEF UInv, Told
  <2> DEFINE s == SubSeq(sent, since[c] + 1, Len(sent))
  <2>4. \A j \in since[c] + 1 .. Len(sent) : sent[j] \in Clients \X Nat
    BY <2>2
  <2>5. /\ s \in Seq(Clients \X Nat)
        /\ Len(s) = IF since[c] + 1 <= Len(sent) THEN Len(sent) - (since[c] + 1) + 1 ELSE 0
        /\ \A j \in 1 .. Len(sent) - (since[c] + 1) + 1 : s[j] = sent[since[c] + 1 + j - 1]
    <3>1. since[c] + 1 \in Int /\ Len(sent) \in Int BY <2>2
    <3> QED BY <2>4, <3>1, SubSeqProperties
  <2> HIDE DEF s
  <2>6. Len(s) = Len(sent) - since[c] /\ Len(sent) - since[c] \in Nat
    <3>1. since[c] \in Nat /\ Len(sent) \in Nat BY <2>2
    <3>2. (IF since[c] + 1 <= Len(sent) THEN Len(sent) - (since[c] + 1) + 1 ELSE 0)
            = Len(sent) - since[c]
      BY <2>3, <3>1
    <3> QED BY <2>3, <2>5, <3>1, <3>2
  <2>7. Len(got[c]) = Len(s) BY <2>3, <2>6 DEF Has
  <2>8. \A j \in 1 .. Len(s) : s[j] = sent[since[c] + j]
    <3> SUFFICES ASSUME NEW j \in 1 .. Len(s) PROVE s[j] = sent[since[c] + j] OBVIOUS
    <3>1. j \in 1 .. Len(sent) - (since[c] + 1) + 1 BY <2>2, <2>6
    <3>2. since[c] + 1 + j - 1 = since[c] + j BY <2>2
    <3> QED BY <2>5, <3>1, <3>2
  <2>9. \A j \in 1 .. Len(s) : got[c][j] = s[j] BY <2>3, <2>7, <2>8 DEF Has
  <2> QED BY <2>2, <2>5, <2>7, <2>9, SeqEqual DEF s
<1> QED BY <1>1, <1>2, UInitially, Structure, PTL DEF Spec
=============================================================================
