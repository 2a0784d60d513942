-------------------------- MODULE SpiFlashProofs --------------------------
(***************************************************************************)
(* Theorems about SpiFlash, for any number of users, any size of the chip  *)
(* and of its sectors.                                                     *)
(***************************************************************************)
EXTENDS SpiFlash, Integers, TLAPS

Job == [op : {"none", "status", "erase", "read", "write"}, first : Nat, n : Nat, at : Nat]

TypeOK ==
  /\ pc \in [Procs -> {"out", "regs", "enable", "command", "poll", "back"}]
  /\ job \in [Procs -> Job]
  /\ ret \in [Procs -> {"none", "ok", "EINVAL"}]
  /\ regs \subseteq Bits /\ registered \in BOOLEAN
  /\ busy \in BOOLEAN /\ wel \in BOOLEAN
  /\ doing \in [op : {"none", "status", "erase", "read", "write"}, at : Nat,
                by : Procs \cup {NoOne}]
  /\ protect \subseteq Bits
  /\ DOMAIN seen = Procs
  /\ alone \in Users \cup {NoOne}

(* A call that erases or writes has whole sectors, or pages, left to do.   *)
Within ==
  \A p \in Users :
    /\ pc[p] # "regs"
    /\ pc[p] # "out" => job[p].op \in {"erase", "read", "write"}
    /\ job[p].op = "read" => pc[p] \in {"out", "command", "back"}
    /\ pc[p] \in {"enable", "command", "poll"} /\ job[p].op # "read" =>
         /\ isAligned(job[p])
         /\ job[p].at % Size(job[p]) = 0 /\ job[p].at < job[p].n

(* What the chip is busy with is the command of one that waits for it.     *)
Own ==
  busy => /\ doing.by \in Procs /\ pc[doing.by] = "poll"
          /\ doing.op = job[doing.by].op /\ doing.at = job[doing.by].at

(* The write enable latch waits for a command of a call in progress.       *)
Latch == wel /\ ~busy => \E p \in Procs : pc[p] = "command" /\ job[p].op # "read"

(* probe clears the protection in two rounds, alone with the chip.         *)
Cleared == protect \cap {"bp", "cmp"} = {}

Probing ==
  /\ job[Probe].op = "status" /\ job[Probe].n = 2
  /\ pc[Probe] # "out" /\ (pc[Probe] # "back" => job[Probe].at \in {0, 1})
  /\ pc[Probe] = "back" => Cleared
  /\ registered => pc[Probe] = "back"

Before ==
  ~registered =>
    /\ \A p \in Users : pc[p] = "out"
    /\ "srp1" \notin protect
    /\ pc[Probe] # "poll" => ~busy
    /\ pc[Probe] = "regs" => ~wel
    /\ pc[Probe] = "command" => wel
    /\ pc[Probe] \in {"enable", "command", "poll"} =>
         /\ regs \subseteq protect
         /\ job[Probe].at = 1 => regs \cap {"bp", "cmp"} = {}
    /\ pc[Probe] = "poll" /\ ~busy => protect = regs

FInv == TypeOK /\ Within /\ Own /\ Latch /\ Probing /\ Before

USE UsersAssumption, PagesAssumption DEF Procs

(* Arithmetic of whole sectors.                                            *)
LEMMA Division ==
  ASSUME NEW S \in Nat \ {0}, NEW n \in Nat, n % S = 0
  PROVE  n = (n \div S) * S /\ n \div S \in Nat
BY SMT

LEMMA Multiples ==
  ASSUME NEW S \in Nat \ {0}, NEW k \in Nat, NEW m \in Nat, k * S < m * S
  PROVE  k * S + S <= m * S
BY SMT

LEMMA NoRest == ASSUME NEW S \in Nat \ {0}, NEW k \in Nat PROVE (k * S) % S = 0
BY SMT

(* A whole sector fits before the end, and leads to a boundary again.      *)
LEMMA Aligned ==
  ASSUME NEW S \in Nat \ {0}, NEW n \in Nat, NEW a \in Nat,
         n % S = 0, a % S = 0, a < n
  PROVE  a + S <= n /\ (a + S) % S = 0
<1>1. PICK m \in Nat : n = m * S BY Division
<1>2. PICK k \in Nat : a = k * S BY Division
<1>3. a + S <= n BY <1>1, <1>2, Multiples
<1>4. a + S = (k + 1) * S BY <1>2
<1>5. (a + S) % S = 0
  <2>1. k + 1 \in Nat OBVIOUS
  <2>2. ((k + 1) * S) % S = 0 BY <2>1, NoRest
  <2> QED BY <1>4, <2>2
<1> QED BY <1>3, <1>5

(* A step is a sector or a single page.                                    *)
LEMMA SizeType == \A c : Size(c) \in Nat \ {0} /\ (c.op # "erase" => Size(c) = 1)
BY DEF Size

(* The next step of a call stays inside it.                                *)
LEMMA Fits ==
  ASSUME TypeOK, Within, NEW p \in Users,
         pc[p] \in {"enable", "command", "poll"}, job[p].op # "read"
  PROVE  /\ job[p].at + Size(job[p]) <= job[p].n
         /\ (job[p].at + Size(job[p])) % Size(job[p]) = 0
<1>1. /\ job[p].at \in Nat /\ job[p].n \in Nat /\ job[p].op \in {"erase", "write"}
      /\ job[p].at < job[p].n /\ job[p].at % Size(job[p]) = 0
      /\ job[p].n % SectorPages = 0
  BY DEF TypeOK, Within, Job, isAligned
<1>2. CASE job[p].op = "erase"
  <2>1. Size(job[p]) = SectorPages BY <1>2 DEF Size
  <2> QED BY <1>1, <2>1, Aligned
<1>3. CASE job[p].op = "write"
  <2>1. Size(job[p]) = 1 BY <1>3 DEF Size
  <2>2. \A x \in Nat : x % 1 = 0 OBVIOUS
  <2> QED BY <1>1, <2>1, <2>2
<1> QED BY <1>1, <1>2, <1>3

(* At first probe has the chip for itself.                                 *)
LEMMA FInitially == Init => FInv
<1> SUFFICES ASSUME Init PROVE FInv OBVIOUS
<1> USE DEF Init
<1>1. TypeOK
  <2>1. job \in [Procs -> Job] BY DEF Nothing, Job
  <2>2. doing \in [op : {"none", "status", "erase", "read", "write"}, at : Nat,
                   by : Procs \cup {NoOne}]
    OBVIOUS
  <2> QED BY <2>1, <2>2 DEF TypeOK, Bits
<1>2. Within BY DEF Within, Nothing
<1>3. Own /\ Latch BY DEF Own, Latch
<1>4. Probing BY DEF Probing, Nothing
<1>5. Before BY DEF Before, Bits
<1> QED BY <1>1, <1>2, <1>3, <1>4, <1>5 DEF FInv

(* Every variable keeps its type.                                          *)
LEMMA TypeStep == TypeOK /\ [Next]_vars => TypeOK'
<1> SUFFICES ASSUME TypeOK, [Next]_vars PROVE TypeOK' OBVIOUS
<1> USE DEF TypeOK, calls, chip, history
<1>1. CASE ReadRegs
  <2>1. regs' \subseteq Bits BY <1>1 DEF ReadRegs
  <2> QED BY <1>1, <2>1 DEF ReadRegs
<1>2. CASE Register BY <1>2 DEF Register
<1>3. ASSUME NEW p \in Users, NEW c \in Calls, Call(p, c) PROVE TypeOK'
  <2>1. c \in Job
    <3>1. c \in [op : {"erase", "read", "write"}, first : AllPages, n : 1 .. Pages, at : {0}]
      BY DEF Calls
    <3> QED BY <3>1 DEF Job, AllPages
  <2>2. job' \in [Procs -> Job] BY <1>3, <2>1 DEF Call
  <2>3. \E l \in {"command", "enable", "back"} : pc' = [pc EXCEPT ![p] = l]
    BY <1>3 DEF Call
  <2>4. \E r \in {"ok", "EINVAL"} : ret' = [ret EXCEPT ![p] = r] BY <1>3 DEF Call
  <2>5. alone' \in Users \cup {NoOne} BY <1>3 DEF Call
  <2>6. DOMAIN seen' = Procs /\ UNCHANGED <<regs, registered, chip>> BY <1>3 DEF Call
  <2> QED BY <2>2, <2>3, <2>4, <2>5, <2>6
<1>4. ASSUME NEW p \in Procs, WriteEnable(p) PROVE TypeOK' BY <1>4 DEF WriteEnable
<1>5. ASSUME NEW p \in Procs, Command(p) PROVE TypeOK'
  <2>1. job[p].op \in {"none", "status", "erase", "read", "write"} /\ job[p].at \in Nat
    BY DEF Job
  <2>2. doing' \in [op : {"none", "status", "erase", "read", "write"}, at : Nat,
                    by : Procs \cup {NoOne}]
    BY <1>5, <2>1 DEF Command
  <2> QED BY <1>5, <2>2 DEF Command
<1>6. ASSUME NEW p \in Procs, Poll(p) PROVE TypeOK'
  <2>1. job[p].at + Size(job[p]) \in Nat BY SizeType DEF Job
  <2>2. job' \in [Procs -> Job] BY <1>6, <2>1 DEF Poll, Advance, Job
  <2>3. \E l \in {"back", "regs", "enable"} : pc' = [pc EXCEPT ![p] = l]
    BY <1>6 DEF Poll, Advance
  <2> QED BY <1>6, <2>2, <2>3 DEF Poll
<1>7. ASSUME NEW p \in Procs, ReadData(p) PROVE TypeOK' BY <1>7 DEF ReadData
<1>8. ASSUME NEW p \in Procs, Return(p) PROVE TypeOK'
  <2>1. job' \in [Procs -> Job] BY <1>8 DEF Return, Nothing, Job
  <2> QED BY <1>8, <2>1 DEF Return
<1>9. CASE BusyEnds
  <2>1. doing' \in [op : {"none", "status", "erase", "read", "write"}, at : Nat,
                    by : Procs \cup {NoOne}]
    BY <1>9 DEF BusyEnds
  <2> QED BY <1>9, <2>1 DEF BusyEnds
<1>10. CASE UNCHANGED vars BY <1>10 DEF vars
<1> QED BY <1>1, <1>2, <1>3, <1>4, <1>5, <1>6, <1>7, <1>8, <1>9, <1>10 DEF Next, Step

(* Where a command is accepted: the protection is clear, or probe clears   *)
(* it.                                                                     *)
LEMMA Accepted ==
  ASSUME FInv, NEW p \in Procs, pc[p] = "command", job[p].op # "read", wel, ~busy
  PROVE  Accepts(job[p].op)
<1>1. CASE p = Probe BY <1>1 DEF FInv, Probing, Before, Accepts
<1>2. CASE p \in Users
  <2>1. registered BY <1>2 DEF FInv, Before
  <2>2. Cleared BY <2>1 DEF FInv, Probing
  <2>3. job[p].op # "status" BY <1>2 DEF FInv, Within
  <2> QED BY <2>2, <2>3 DEF Accepts, Cleared
<1> QED BY <1>1, <1>2

(* No step breaks it.                                                      *)
LEMMA FStep == FInv /\ [Next]_vars => FInv'
<1> SUFFICES ASSUME FInv, [Next]_vars PROVE FInv' OBVIOUS
<1> USE DEF FInv, calls, chip, history
<1>0. /\ TypeOK' /\ Probe \in Procs /\ Probe \notin Users /\ Users \subseteq Procs
      /\ pc \in [Procs -> {"out", "regs", "enable", "command", "poll", "back"}]
      /\ job \in [Procs -> Job]
  BY TypeStep DEF TypeOK
<1>1. CASE ReadRegs
  <2>1. pc[Probe] = "regs" /\ ~registered /\ ~busy /\ ~wel
    BY <1>1 DEF ReadRegs, Probing, Before
  <2>2. \A p \in Users : pc'[p] = pc[p] /\ pc'[Probe] = "enable" BY <1>0, <1>1 DEF ReadRegs
  <2>3. Within' BY <1>1, <2>2 DEF ReadRegs, Within
  <2>4. Own' /\ Latch' BY <1>1, <2>1 DEF ReadRegs, Own, Latch
  <2>5. Probing' BY <1>1, <2>1, <2>2, <1>0 DEF ReadRegs, Probing
  <2>6. Before'
    <3>1. regs' \subseteq protect /\ (job[Probe].at = 1 => regs' \cap {"bp", "cmp"} = {})
      BY <1>1 DEF ReadRegs
    <3> QED BY <1>0, <1>1, <2>1, <2>2, <3>1 DEF ReadRegs, Before
  <2> QED BY <1>0, <2>3, <2>4, <2>5, <2>6
<1>2. CASE Register
  <2>1. Within' /\ Own' /\ Latch' BY <1>2 DEF Register, Within, Own, Latch
  <2>2. Probing' /\ Before' BY <1>2 DEF Register, Probing, Before, Cleared
  <2> QED BY <1>0, <2>1, <2>2
<1>3. ASSUME NEW p \in Users, NEW c \in Calls, Call(p, c) PROVE FInv'
  <2>1. /\ registered /\ pc[p] = "out" /\ job' = [job EXCEPT ![p] = c]
        /\ UNCHANGED <<registered, regs, busy, wel, doing, protect>>
    BY <1>3 DEF Call
  <2>2. /\ pc' \in {[pc EXCEPT ![p] = l] : l \in {"command", "enable", "back"}}
        /\ c.op = "read" => pc'[p] = "command"
        /\ c.op # "read" => pc'[p] = "back" \/ (pc'[p] = "enable" /\ isAligned(c))
    BY <1>0, <1>3 DEF Call
  <2>3. \A q \in Procs \ {p} : pc'[q] = pc[q] /\ job'[q] = job[q]
    BY <1>0, <2>1, <2>2
  <2>4. Within'
    <3>1. /\ c.op \in {"erase", "read", "write"} /\ c.at = 0 /\ c.n \in Nat /\ c.n > 0
      BY DEF Calls
    <3>2. c.at % Size(c) = 0
      <4>1. \A S \in Nat \ {0} : 0 % S = 0
        <5> TAKE S \in Nat \ {0}
        <5>1. (0 * S) % S = 0 BY NoRest
        <5> QED BY <5>1
      <4> QED BY <3>1, <4>1, SizeType
    <3>3. job'[p] = c BY <1>0, <2>1
    <3>4. pc'[p] \in {"command", "enable", "back"} BY <1>0, <2>2
    <3> QED BY <1>0, <2>2, <2>3, <3>1, <3>2, <3>3, <3>4 DEF Within
  <2>5. Own' BY <2>1, <2>3 DEF Own
  <2>6. Latch' BY <2>1, <2>3 DEF Latch
  <2>7. Probing' /\ Before' BY <1>0, <2>1, <2>3 DEF Probing, Before, Cleared
  <2> QED BY <1>0, <2>4, <2>5, <2>6, <2>7
<1>4. ASSUME NEW p \in Procs, WriteEnable(p) PROVE FInv'
  <2>1. /\ pc[p] = "enable" /\ pc' = [pc EXCEPT ![p] = "command"] /\ wel' = (wel \/ ~busy)
        /\ UNCHANGED <<job, ret, registered, regs, busy, doing, protect>>
    BY <1>4 DEF WriteEnable
  <2>2. job[p].op # "read" /\ pc'[p] = "command" /\ \A q \in Procs \ {p} : pc'[q] = pc[q]
    BY <1>0, <2>1 DEF Within, Probing
  <2>3. Within' BY <1>0, <2>1, <2>2 DEF Within
  <2>4. Own' BY <1>0, <2>1, <2>2 DEF Own
  <2>5. Latch' BY <2>1, <2>2 DEF Latch
  <2>6. Probing' BY <1>0, <2>1, <2>2 DEF Probing, Cleared
  <2>7. Before'
    <3>1. CASE p = Probe BY <1>0, <2>1, <2>2, <3>1 DEF Before
    <3>2. CASE p \in Users BY <2>1, <3>2 DEF Before
    <3> QED BY <3>1, <3>2
  <2> QED BY <1>0, <2>3, <2>4, <2>5, <2>6, <2>7
<1>5. ASSUME NEW p \in Procs, Command(p) PROVE FInv'
  <2>1. /\ pc[p] = "command" /\ job[p].op # "read" /\ pc' = [pc EXCEPT ![p] = "poll"]
        /\ UNCHANGED <<job, ret, registered, regs, wel, protect>>
        /\ pc'[p] = "poll" /\ \A q \in Procs \ {p} : pc'[q] = pc[q]
    BY <1>0, <1>5 DEF Command
  <2>2. Within' BY <1>0, <2>1 DEF Within
  <2>3. Own'
    <3>1. CASE Accepts(job[p].op) BY <1>0, <1>5, <2>1, <3>1 DEF Command, Own
    <3>2. CASE ~Accepts(job[p].op) BY <1>5, <2>1, <3>2 DEF Command, Own
    <3> QED BY <3>1, <3>2
  <2>4. wel /\ ~busy => busy' BY <1>5, <2>1, Accepted DEF Command
  <2>5. Latch' BY <1>5, <2>1, <2>4 DEF Command, Latch
  <2>6. Probing' BY <1>0, <2>1 DEF Probing, Cleared
  <2>7. Before'
    <3>1. CASE p = Probe BY <1>0, <2>1, <2>4, <3>1 DEF Before
    <3>2. CASE p \in Users BY <2>1, <3>2 DEF Before
    <3> QED BY <3>1, <3>2
  <2> QED BY <1>0, <2>2, <2>3, <2>5, <2>6, <2>7
<1>6. ASSUME NEW p \in Procs, Poll(p) PROVE FInv'
  <2> DEFINE k == Size(job[p])
  <2>1. /\ pc[p] = "poll" /\ ~busy /\ job' = [job EXCEPT ![p].at = @ + k]
        /\ UNCHANGED <<ret, registered, regs, busy, wel, doing, protect>>
        /\ pc' = [pc EXCEPT ![p] = IF job[p].at + k >= job[p].n THEN "back"
                                   ELSE IF p = Probe THEN "regs" ELSE "enable"]
    BY <1>6 DEF Poll, Advance
  <2>2. /\ \A q \in Procs \ {p} : pc'[q] = pc[q] /\ job'[q] = job[q]
        /\ pc'[p] = IF job[p].at + k >= job[p].n THEN "back"
                    ELSE IF p = Probe THEN "regs" ELSE "enable"
        /\ job'[p] = [job[p] EXCEPT !.at = @ + k] /\ job[p] \in Job
    BY <1>0, <2>1
  <2>3. /\ job'[p].op = job[p].op /\ job'[p].n = job[p].n /\ job'[p].first = job[p].first
        /\ job'[p].at = job[p].at + k
    BY <2>2 DEF Job
  <2>4. Within'
    <3> SUFFICES ASSUME NEW q \in Users
                 PROVE  /\ pc'[q] # "regs"
                        /\ pc'[q] # "out" => job'[q].op \in {"erase", "read", "write"}
                        /\ job'[q].op = "read" => pc'[q] \in {"out", "command", "back"}
                        /\ pc'[q] \in {"enable", "command", "poll"} /\ job'[q].op # "read" =>
                             /\ isAligned(job'[q])
                             /\ job'[q].at % Size(job'[q]) = 0 /\ job'[q].at < job'[q].n
      BY DEF Within
    <3>1. CASE q # p BY <2>2, <3>1, <1>0 DEF Within
    <3>2. CASE q = p
      <4>1. job[p].op \in {"erase", "write"} /\ isAligned(job[p])
        BY <2>1, <3>2 DEF Within
      <4>2. (job[p].at + k) % k = 0 BY <2>1, <3>2, <4>1, Fits
      <4>3. Size(job'[p]) = k /\ isAligned(job'[p])
        BY <2>3, <4>1 DEF Size, isAligned
      <4>4. pc'[p] = "back" \/ (pc'[p] = "enable" /\ job'[p].at < job'[p].n)
        <5>1. p # Probe BY <3>2, <1>0
        <5>2. job[p].at + k \in Nat /\ job[p].n \in Nat BY <2>2, SizeType DEF Job
        <5> QED BY <2>2, <2>3, <5>1, <5>2
      <4> QED BY <2>3, <3>2, <4>1, <4>2, <4>3, <4>4
    <3> QED BY <3>1, <3>2
  <2>5. Own' BY <2>1 DEF Own
  <2>6. Latch' BY <2>1, <2>2 DEF Latch
  <2>7. Probing' /\ Before'
    <3>1. CASE p = Probe
      <4>1. k = 1 /\ job[p].n = 2 /\ job[p].at \in {0, 1} /\ ~registered
        BY <2>1, <3>1, SizeType DEF Probing
      <4>2. /\ job'[p].at = job[p].at + 1
            /\ \/ pc'[p] = "regs" /\ job[p].at = 0
               \/ pc'[p] = "back" /\ job[p].at = 1
        <5>1. job'[p].at = job[p].at + 1 BY <2>3, <4>1
        <5>2. pc'[p] = IF job[p].at + 1 >= 2 THEN "back" ELSE "regs"
          BY <2>2, <3>1, <4>1
        <5>3. job[p].at = 0 \/ job[p].at = 1 BY <3>1, <4>1
        <5>4. CASE job[p].at = 0 BY <5>1, <5>2, <5>4
        <5>5. CASE job[p].at = 1 BY <5>1, <5>2, <5>5
        <5> QED BY <5>3, <5>4, <5>5
      <4>3. protect = regs /\ "srp1" \notin protect /\ \A q \in Users : pc[q] = "out"
        BY <2>1, <3>1, <4>1 DEF Before
      <4>4. job[p].at = 1 => Cleared BY <2>1, <3>1, <4>1, <4>3 DEF Before, Cleared
      <4>5. ~wel
        <5>1. \A q \in Procs : pc[q] # "command" BY <2>1, <3>1, <4>3
        <5> QED BY <2>1, <5>1 DEF Latch
      <4>6. Probing' BY <2>1, <2>3, <3>1, <4>1, <4>2, <4>4 DEF Probing, Cleared
      <4>7. \A q \in Users : pc'[q] = "out" BY <1>0, <2>2, <3>1, <4>3
      <4>8. Before' BY <2>1, <3>1, <4>2, <4>3, <4>5, <4>7 DEF Before
      <4> QED BY <4>6, <4>8
    <3>2. CASE p \in Users
      <4>1. registered BY <2>1, <3>2 DEF Before
      <4>2. pc'[Probe] = pc[Probe] /\ job'[Probe] = job[Probe] BY <1>0, <2>2, <3>2
      <4> QED BY <2>1, <4>1, <4>2 DEF Probing, Before, Cleared
    <3> QED BY <3>1, <3>2
  <2> QED BY <1>0, <2>4, <2>5, <2>6, <2>7
<1>7. ASSUME NEW p \in Procs, ReadData(p) \/ Return(p) PROVE FInv'
  <2>1. /\ p \in Users /\ registered /\ pc[p] \in {"command", "back"}
        /\ pc[p] = "command" => job[p].op = "read"
        /\ pc' \in {[pc EXCEPT ![p] = l] : l \in {"back", "out"}}
        /\ pc'[p] \in {"back", "out"} /\ (pc'[p] = "back" => job' = job)
        /\ job' \in {job, [job EXCEPT ![p] = Nothing]}
        /\ UNCHANGED <<registered, regs, busy, wel, doing, protect>>
    <3>1. CASE ReadData(p)
      <4>1. p \in Users /\ registered BY <3>1 DEF ReadData, Probing, Before
      <4> QED BY <1>0, <3>1, <4>1 DEF ReadData
    <3>2. CASE Return(p)
      <4>1. p \in Users /\ registered BY <3>2 DEF Return, Before
      <4> QED BY <1>0, <3>2, <4>1 DEF Return
    <3> QED BY <1>7, <3>1, <3>2
  <2>2. \A q \in Procs \ {p} : pc'[q] = pc[q] /\ job'[q] = job[q] BY <1>0, <2>1
  <2>3. Within'
    <3>1. pc'[p] = "back" => job'[p] = job[p] BY <2>1
    <3> QED BY <1>0, <2>1, <2>2, <3>1 DEF Within
  <2>4. Own' BY <2>1, <2>2 DEF Own
  <2>5. Latch' BY <2>1, <2>2 DEF Latch
  <2>6. Probing' /\ Before'
    <3>1. pc'[Probe] = pc[Probe] /\ job'[Probe] = job[Probe] BY <1>0, <2>1, <2>2
    <3> QED BY <2>1, <3>1 DEF Probing, Before, Cleared
  <2> QED BY <1>0, <2>3, <2>4, <2>5, <2>6
<1>8. CASE BusyEnds
  <2>1. /\ busy /\ busy' = FALSE /\ wel' = FALSE
        /\ protect' = IF doing.op = "status" THEN regs ELSE protect
        /\ UNCHANGED <<pc, job, ret, regs, registered>>
    BY <1>8 DEF BusyEnds
  <2>2. Within' /\ Own' /\ Latch' BY <2>1 DEF Within, Own, Latch
  <2>3. /\ doing.by \in Procs /\ pc[doing.by] = "poll" /\ doing.op = job[doing.by].op
    BY <2>1 DEF Own
  <2>4. CASE registered
    <3>1. doing.by \in Users BY <2>3, <2>4 DEF Probing
    <3>2. doing.op # "status" BY <2>3, <3>1 DEF Within
    <3>3. Probing' /\ Before' BY <2>1, <2>4, <3>2 DEF Probing, Before, Cleared
    <3> QED BY <1>0, <2>2, <3>3
  <2>5. CASE ~registered
    <3>1. doing.by = Probe /\ protect' = regs /\ pc[Probe] = "poll"
      BY <2>1, <2>3, <2>5 DEF Probing, Before
    <3>2. Probing' BY <2>1, <2>5, <3>1 DEF Probing
    <3>3. Before' BY <2>1, <2>5, <3>1 DEF Before
    <3> QED BY <1>0, <2>2, <3>2, <3>3
  <2> QED BY <2>4, <2>5
<1>9. CASE UNCHANGED vars
  BY <1>0, <1>9 DEF vars, Within, Own, Latch, Probing, Before, Cleared
<1> QED BY <1>1, <1>2, <1>3, <1>4, <1>5, <1>6, <1>7, <1>8, <1>9 DEF Next, Step

(* So it holds in every state.                                             *)
LEMMA FAlways == Spec => []FInv
BY FInitially, FStep, PTL DEF Spec

(* However calls overlapped, with none in progress the chip is idle and    *)
(* its write enable latch is clear.                                        *)
THEOREM AlwaysRestsDisabled == Spec => []RestsDisabled
<1>1. FInv => RestsDisabled
  BY DEF FInv, Own, Latch, Probing, RestsDisabled
<1> QED BY <1>1, FAlways, PTL

(* A page changes only while a call that covers it waits for the chip,     *)
(* however many calls overlap and whatever the size of the sectors.        *)
THEOREM AlwaysChangesInsideCalls == Spec => ChangesInsideCalls
<1> DEFINE A == \A pg \in AllPages : cell'[pg] # cell[pg] =>
                  \E p \in Users : /\ pc[p] = "poll"
                                   /\ job[p].op \in {"erase", "write"} /\ pg \in Covers(job[p])
<1>1. ASSUME FInv, [Next]_vars PROVE [A]_vars
  <2> SUFFICES ASSUME NEW pg \in AllPages, cell'[pg] # cell[pg]
               PROVE  \E p \in Users : /\ pc[p] = "poll" /\ job[p].op \in {"erase", "write"}
                                       /\ pg \in Covers(job[p])
    OBVIOUS
  <2>1. BusyEnds
    BY <1>1 DEF Next, Step, ReadRegs, Register, Call, WriteEnable, Command, Poll, ReadData,
                Return, vars, chip, calls, history
  <2>2. cell'[pg] = Done(pg) /\ busy BY <2>1 DEF BusyEnds
  <2> DEFINE p == doing.by
  <2>3. /\ p \in Procs /\ pc[p] = "poll" /\ doing.op = job[p].op /\ doing.at = job[p].at
    BY <1>1, <2>2 DEF FInv, Own
  <2>4. doing.op \in {"erase", "write"} BY <2>2 DEF Done
  <2>5. p \in Users BY <1>1, <2>3, <2>4 DEF FInv, Probing
  <2>6. /\ job[p].first \in Nat /\ job[p].n \in Nat /\ job[p].at \in Nat
    BY <1>1, <2>3 DEF FInv, TypeOK, Job
  <2>7. job[p].at + Size(job[p]) <= job[p].n BY <1>1, <2>3, <2>4, <2>5, Fits DEF FInv
  <2>8. CASE doing.op = "erase"
    <3>1. pg \in job[p].first + job[p].at .. job[p].first + job[p].at + SectorPages - 1
      BY <2>2, <2>3, <2>8 DEF Done
    <3>2. Size(job[p]) = SectorPages BY <2>3, <2>8 DEF Size
    <3>3. pg \in Covers(job[p]) BY <2>6, <2>7, <3>1, <3>2 DEF Covers
    <3> QED BY <2>3, <2>5, <2>8, <3>3
  <2>9. CASE doing.op = "write"
    <3>1. pg = job[p].first + job[p].at BY <2>2, <2>3, <2>9 DEF Done
    <3>2. Size(job[p]) = 1 BY <2>3, <2>9 DEF Size
    <3>3. pg \in Covers(job[p]) BY <2>6, <2>7, <3>1, <3>2 DEF Covers
    <3> QED BY <2>3, <2>5, <2>9, <3>3
  <2> QED BY <2>4, <2>8, <2>9
<1>2. ChangesInsideCalls <=> [][A]_vars BY DEF ChangesInsideCalls
<1> HIDE DEF A
<1> QED BY <1>1, <1>2, FAlways, PTL DEF Spec
----------------------------------------------------------------------------
(* A call that no other one overlaps: how far it has got, and what the     *)
(* pages are by then.                                                      *)
Reached == job[alone].at + (IF pc[alone] = "poll" /\ ~busy THEN Size(job[alone]) ELSE 0)

Changed(pg) ==
  /\ ret[alone] = "ok" /\ job[alone].op # "read"
  /\ pg \in job[alone].first .. job[alone].first + Reached - 1

Expected(pg) ==
  IF ~Changed(pg) THEN before[pg]
  ELSE IF job[alone].op = "erase" THEN Erased
  ELSE Program(before[pg], <<alone, pg - job[alone].first>>)

Going ==
  /\ registered /\ alone \in Users /\ pc[alone] # "out"
  /\ \A q \in Users \ {alone} : pc[q] = "out"
  /\ ret[alone] # "none" /\ (pc[alone] # "back" => ret[alone] = "ok")
  /\ pc[alone] = "enable" => ~busy
  /\ pc[alone] = "command" => ~busy /\ (job[alone].op # "read" => wel)
  /\ pc[alone] = "back" /\ ret[alone] = "ok" =>
       IF job[alone].op # "read" THEN job[alone].at = job[alone].n
       ELSE \A pg \in Covers(job[alone]) \cap AllPages :
              seen[alone][pg - job[alone].first] = before[pg]

Alone == alone # NoOne => Going /\ \A pg \in AllPages : cell[pg] = Expected(pg)

(* The pages, as long as the call has got no further.                      *)
LEMMA SameSoFar ==
  ASSUME Alone, alone # NoOne, UNCHANGED <<alone, before, cell, ret>>,
         Reached' = Reached,
         job'[alone].op = job[alone].op /\ job'[alone].first = job[alone].first
  PROVE  \A pg \in AllPages : cell'[pg] = Expected(pg)'
BY DEF Alone, Expected, Changed

(* Every step of the call, and of the chip for it, gets it on as it should.*)
LEMMA AloneStep == FInv /\ FInv' /\ Alone /\ [Next]_vars => Alone'
<1> SUFFICES ASSUME FInv, FInv', Alone, [Next]_vars, alone' # NoOne
             PROVE  Going' /\ \A pg \in AllPages : cell'[pg] = Expected(pg)'
  BY DEF Alone
<1> USE DEF calls, chip, history
<1>0. /\ pc \in [Procs -> {"out", "regs", "enable", "command", "poll", "back"}]
      /\ job \in [Procs -> Job] /\ ret \in [Procs -> {"none", "ok", "EINVAL"}]
      /\ DOMAIN seen = Procs /\ Probe \notin Users /\ busy \in BOOLEAN
      /\ pc' \in [Procs -> {"out", "regs", "enable", "command", "poll", "back"}]
      /\ alone \in Users \cup {NoOne} /\ NoOne \notin Users
  BY DEF FInv, TypeOK
<1>1. ASSUME NEW p \in Users, NEW c \in Calls, Call(p, c)
      PROVE  Going' /\ \A pg \in AllPages : cell'[pg] = Expected(pg)'
  <2>1. /\ registered /\ pc[p] = "out" /\ job' = [job EXCEPT ![p] = c]
        /\ ~Overlaps(p) /\ alone' = p /\ before' = cell
        /\ UNCHANGED <<registered, busy, wel, cell>>
    BY <1>1 DEF Call
  <2>2. /\ pc'[p] = CASE c.op = "read" -> "command"
                      [] c.op # "read" /\ isAligned(c) -> "enable"
                      [] OTHER -> "back"
        /\ ret'[p] = (IF c.op = "read" \/ isAligned(c) THEN "ok" ELSE "EINVAL")
        /\ \A q \in Users \ {p} : pc'[q] = pc[q]
        /\ job'[p] = c
    BY <1>0, <1>1, <2>1 DEF Call
  <2>3. c.op \in {"erase", "read", "write"} /\ c.at = 0 /\ c.first \in Nat
    BY DEF Calls, AllPages
  <2>4. ~busy
    <3>1. \A q \in Procs : pc[q] # "poll"
      BY <2>1 DEF Overlaps, FInv, Probing
    <3> QED BY <3>1 DEF FInv, Own
  <2>5. Going' BY <2>1, <2>2, <2>3, <2>4 DEF Going, Overlaps
  <2>6. Reached' = 0 BY <2>1, <2>2, <2>3 DEF Reached
  <2>7. \A pg \in AllPages : ~Changed(pg)'
    BY <2>1, <2>2, <2>3, <2>6 DEF Changed, AllPages
  <2> QED BY <2>1, <2>5, <2>7 DEF Expected
<1>2. ASSUME NEW p \in Procs, Step(p)
      PROVE  Going' /\ \A pg \in AllPages : cell'[pg] = Expected(pg)'
  <2>1. alone' = alone /\ before' = before
    BY <1>2 DEF Step, WriteEnable, Command, Poll, ReadData, Return
  <2>2. Going BY <2>1 DEF Alone
  <2>3. p = alone /\ ~Return(p) /\ registered' = registered /\ cell' = cell /\ ret' = ret
    <3>1. ~Return(p) BY <2>1, <2>2, <1>0 DEF Return, Going
    <3>2. pc[p] \in {"enable", "command", "poll"}
      BY <1>2, <3>1 DEF Step, WriteEnable, Command, Poll, ReadData
    <3>3. p # Probe BY <2>2, <3>2 DEF Going, FInv, Probing
    <3>4. p = alone BY <2>2, <3>2, <3>3 DEF Going
    <3> QED BY <1>2, <3>1, <3>4 DEF Step, WriteEnable, Command, Poll, ReadData
  <2>4. \A q \in Users \ {p} : pc'[q] = pc[q]
    BY <1>0, <1>2, <2>3 DEF Step, WriteEnable, Command, Poll, Advance, ReadData
  <2>5. p \in Users /\ job[p] \in Job /\ job[p].op \in {"erase", "read", "write"}
    BY <1>0, <2>2, <2>3 DEF Going, FInv, Within
  <2>6. CASE WriteEnable(p)
    <3>1. pc[p] = "enable" /\ pc'[p] = "command" /\ job' = job /\ wel' /\ busy' = busy /\ ~busy
      BY <1>0, <2>2, <2>3, <2>6 DEF WriteEnable, Going, FInv, TypeOK
    <3>2. Going' BY <2>1, <2>2, <2>3, <2>4, <3>1 DEF Going
    <3>3. Reached' = Reached BY <2>1, <2>3, <3>1 DEF Reached
    <3> QED BY <2>1, <2>3, <3>1, <3>2, <3>3, SameSoFar
  <2>7. CASE Command(p)
    <3>1. /\ pc[p] = "command" /\ pc'[p] = "poll" /\ job' = job /\ job[p].op # "read"
          /\ wel /\ ~busy
      BY <1>0, <2>2, <2>3, <2>7 DEF Command, Going
    <3>2. busy' = TRUE BY <2>7, <3>1, Accepted DEF Command
    <3>3. Going' BY <2>1, <2>2, <2>3, <2>4, <3>1 DEF Going
    <3>4. Reached' = Reached BY <2>1, <2>3, <3>1, <3>2 DEF Reached
    <3> QED BY <2>1, <2>3, <3>1, <3>3, <3>4, SameSoFar
  <2>8. CASE Poll(p)
    <3> DEFINE k == Size(job[p])
    <3>1. /\ pc[p] = "poll" /\ ~busy /\ busy' = busy /\ p # Probe
          /\ pc'[p] = IF job[p].at + k >= job[p].n THEN "back" ELSE "enable"
          /\ job'[p] = [job[p] EXCEPT !.at = @ + k]
      BY <1>0, <2>5, <2>8 DEF Poll, Advance
    <3>2. /\ job'[p].op = job[p].op /\ job'[p].n = job[p].n
          /\ job'[p].first = job[p].first /\ job'[p].at = job[p].at + k
      BY <2>5, <3>1 DEF Job
    <3>3. job[p].op # "read" /\ job[p].at + k <= job[p].n
          /\ job[p].at + k \in Nat /\ job[p].n \in Nat
      <4>1. job[p].op # "read" BY <2>5, <3>1 DEF FInv, Within
      <4> QED BY <2>5, <3>1, <4>1, Fits, SizeType DEF FInv, Job
    <3>4. pc'[p] = "back" => job'[p].at = job'[p].n BY <3>1, <3>2, <3>3
    <3>5. Going' BY <2>1, <2>2, <2>3, <2>4, <3>1, <3>2, <3>3, <3>4 DEF Going
    <3>6. Reached' = Reached BY <2>1, <2>3, <3>1, <3>2, <3>3 DEF Reached
    <3> QED BY <2>1, <2>3, <3>2, <3>5, <3>6, SameSoFar
  <2>9. CASE ReadData(p)
    <3>1. /\ pc[p] = "command" /\ pc'[p] = "back" /\ job' = job /\ job[p].op = "read"
          /\ busy' = busy /\ ~busy
          /\ seen'[p] = [i \in 0 .. job[p].n - 1 |-> cell[job[p].first + i]]
      BY <1>0, <2>2, <2>3, <2>9 DEF ReadData, Going
    <3>2. \A pg \in AllPages : cell[pg] = before[pg]
      BY <2>1, <2>3, <3>1 DEF Alone, Expected, Changed
    <3>3. ASSUME NEW pg \in Covers(job[p]) \cap AllPages
          PROVE  seen'[p][pg - job[p].first] = before[pg]
      <4>1. job[p].first \in Nat /\ job[p].n \in Nat /\ pg \in Int
        BY <2>5 DEF Job, Covers
      <4>2. pg - job[p].first \in 0 .. job[p].n - 1 /\ job[p].first + (pg - job[p].first) = pg
        BY <4>1 DEF Covers
      <4> QED BY <3>1, <3>2, <4>2
    <3>4. Going' BY <2>1, <2>2, <2>3, <2>4, <3>1, <3>3 DEF Going
    <3>5. Reached' = Reached BY <2>1, <2>3, <3>1 DEF Reached
    <3> QED BY <2>1, <2>3, <3>1, <3>4, <3>5, SameSoFar
  <2> QED BY <1>2, <2>3, <2>6, <2>7, <2>8, <2>9 DEF Step
<1>3. CASE BusyEnds
  <2> DEFINE p == alone
             first == job[p].first
             at == job[p].at
  <2>1. /\ busy /\ ~busy' /\ cell' = [pg \in AllPages |-> Done(pg)]
        /\ UNCHANGED <<pc, job, ret, registered, seen, alone, before>>
    BY <1>3 DEF BusyEnds
  <2>2. Going BY <2>1 DEF Alone
  <2>3. doing.by = p /\ pc[p] = "poll" /\ doing.op = job[p].op /\ doing.at = at
    BY <2>1, <2>2 DEF Going, FInv, Own, Probing
  <2>4. /\ job[p].op \in {"erase", "write"} /\ first \in Nat /\ at \in Nat
        /\ ret[p] = "ok"
    BY <1>0, <2>2, <2>3 DEF Going, FInv, Within, Job
  <2>5. Going' BY <2>1, <2>2, <2>3 DEF Going
  <2>6. Reached = at /\ Reached' = at + Size(job[p])
    BY <2>1, <2>3, <2>4 DEF Reached
  <2>7. ASSUME NEW pg \in AllPages PROVE cell'[pg] = Expected(pg)'
    <3>1. pg \in Nat /\ cell[pg] = Expected(pg) /\ cell'[pg] = Done(pg)
      BY <2>1 DEF AllPages, Alone
    <3>2. Changed(pg) <=> pg \in first .. first + at - 1 BY <2>4, <2>6 DEF Changed
    <3>3. Changed(pg)' <=> pg \in first .. first + at + Size(job[p]) - 1
      BY <2>1, <2>4, <2>6, SizeType DEF Changed
    <3>4. CASE job[p].op = "erase"
      <4>1. Size(job[p]) = SectorPages BY <3>4 DEF Size
      <4>2. Done(pg) = IF pg \in first + at .. first + at + SectorPages - 1 THEN Erased
                       ELSE cell[pg]
        BY <2>3, <3>4 DEF Done
      <4>3. Changed(pg)' <=> Changed(pg) \/ pg \in first + at .. first + at + SectorPages - 1
        BY <2>4, <3>1, <3>2, <3>3, <4>1
      <4>4. Expected(pg)' = IF Changed(pg)' THEN Erased ELSE before[pg]
        BY <2>1, <3>4 DEF Expected
      <4>5. Expected(pg) = IF Changed(pg) THEN Erased ELSE before[pg]
        BY <3>4 DEF Expected
      <4> QED BY <3>1, <4>2, <4>3, <4>4, <4>5
    <3>5. CASE job[p].op = "write"
      <4>1. Size(job[p]) = 1 BY <3>5 DEF Size
      <4>2. Done(pg) = IF pg = first + at THEN Program(cell[pg], <<p, at>>) ELSE cell[pg]
        BY <2>3, <3>5 DEF Done
      <4>3. Changed(pg)' <=> Changed(pg) \/ pg = first + at
        BY <2>4, <3>1, <3>2, <3>3, <4>1
      <4>4. Expected(pg)' = IF Changed(pg)' THEN Program(before[pg], <<p, pg - first>>)
                            ELSE before[pg]
        BY <2>1, <3>5 DEF Expected, Program
      <4>5. Expected(pg) = IF Changed(pg) THEN Program(before[pg], <<p, pg - first>>)
                           ELSE before[pg]
        BY <3>5 DEF Expected
      <4>6. pg = first + at => ~Changed(pg) /\ pg - first = at
        BY <2>4, <3>2
      <4> QED BY <3>1, <4>2, <4>3, <4>4, <4>5, <4>6
    <3> QED BY <2>4, <3>4, <3>5
  <2> QED BY <2>5, <2>7
<1>4. CASE ReadRegs \/ Register
  <2>1. ~registered /\ alone' = alone
    BY <1>4 DEF ReadRegs, Register, FInv, Probing
  <2> QED BY <2>1 DEF Alone, Going
<1>5. CASE UNCHANGED vars
  BY <1>5 DEF vars, Alone, Going, Expected, Changed, Reached
<1> QED BY <1>1, <1>2, <1>3, <1>4, <1>5 DEF Next

(* A call that no other one overlaps does what it was asked to, and only   *)
(* that, whatever calls overlapped before it.                              *)
THEOREM AlwaysAloneWorks == Spec => []AloneWorks
<1>1. Init => Alone BY DEF Init, Alone
<1>2. FInv /\ Alone => AloneWorks
  <2> SUFFICES ASSUME FInv, Alone, alone # NoOne, pc[alone] = "back", NEW pg \in AllPages
               PROVE  LET c == job[alone] IN
                      CASE ret[alone] = "EINVAL" \/ pg \notin Covers(c) -> cell[pg] = before[pg]
                        [] OTHER ->
                           CASE c.op = "read" -> cell[pg] = before[pg]
                                                 /\ seen[alone][pg - c.first] = cell[pg]
                             [] c.op = "erase" -> cell[pg] = Erased
                             [] c.op = "write" ->
                                  cell[pg] = Program(before[pg], <<alone, pg - c.first>>)
    BY DEF AloneWorks
  <2>1. Going /\ cell[pg] = Expected(pg) BY DEF Alone
  <2>2. /\ ret[alone] \in {"ok", "EINVAL"} /\ job[alone] \in Job
        /\ job[alone].op \in {"erase", "read", "write"}
    BY <2>1 DEF Going, FInv, TypeOK, Within
  <2>3. Reached = job[alone].at BY <2>2 DEF Reached, Job
  <2>4. CASE ret[alone] = "EINVAL" \/ job[alone].op = "read"
    BY <2>1, <2>2, <2>4 DEF Going, Expected, Changed
  <2>5. CASE ret[alone] = "ok" /\ job[alone].op \in {"erase", "write"}
    <3>1. Changed(pg) <=> pg \in Covers(job[alone])
      BY <2>1, <2>2, <2>3, <2>5 DEF Going, Changed, Covers
    <3> QED BY <2>1, <2>2, <2>5, <3>1 DEF Expected
  <2> QED BY <2>2, <2>4, <2>5
<1> QED BY <1>1, <1>2, AloneStep, FAlways, PTL DEF Spec
============================================================================
