---------------------------- MODULE ServiceProofs ----------------------------
(***************************************************************************)
(* The exhibit fetches and the daemon, for any number of filings, rates,   *)
(* ring sizes and lives: a filing's job is in one place until it ends and  *)
(* each of its pages asked for at most twice, within the host's rate; the  *)
(* journal is in order and complete behind the engine over shutdowns and   *)
(* crashes, and no filing that was saved is lost.                          *)
(* The blocking HTTP client repeats only a request that nothing answered,  *)
(* and no wake-up of a consumer thread is lost.                            *)
(***************************************************************************)
EXTENDS ExhibitJobs, Daemon, HttpClient, Waker, FiniteSetTheorems, SequenceTheorems, TLAPS

-----------------------------------------------------------------------------
(* The inductive invariant of the exhibit fetches *)

JobRec == [id : Job, stage : {0, 1, 10, 11}]
In(s) == {s[i] : i \in 1 .. Len(s)}
Distinct(s) == \A i, j \in 1 .. Len(s) : i # j => s[i].id # s[j].id

JobsType ==
  /\ q \in Seq(JobRec) /\ inflight \in BOOLEAN /\ (inflight => cur \in JobRec)
  /\ outcome \in [Job -> {"none", "open", "overflow", "error", "no exhibit", "fetched"}]
  /\ tries \in [Job -> [{0, 1} -> Nat]]
  /\ tokens \in Nat /\ elapsed \in Nat /\ sent \in [1 .. Window -> Nat]

\* An open job is queued, once, or in flight, and a request in flight is what
\* the connection waits for.
OnePlace ==
  /\ inflight <=> conn = "waiting"
  /\ Distinct(q)
  /\ inflight => \A r \in In(q) : r.id # cur.id
  /\ \A jid \in Job : outcome[jid] = "open" <=> (\E r \in In(q) : r.id = jid) \/ (inflight /\ cur.id = jid)

\* The mark of a retry counts the requests sent for the page a job is at.
Sent(job) == IF job.stage >= 10 THEN 1 ELSE 0
Asked(job, n) == /\ tries[job.id][job.stage % 10] = n
                 /\ job.stage % 10 = 0 => tries[job.id][1] = 0
MarksCount ==
  /\ \A jid \in Job : outcome[jid] = "none" => tries[jid][0] = 0 /\ tries[jid][1] = 0
  /\ \A r \in In(q) : Asked(r, Sent(r))
  /\ inflight => Asked(cur, Sent(cur) + 1)
  /\ RetriedOnce

\* What was sent and what the bucket holds were in it, or came since.
Level == \A k \in 1 .. Window : Token * sent[k] + refilled <= Burst + k * Refill

JobsIInv == JobsType /\ OnePlace /\ MarksCount /\ Level

-----------------------------------------------------------------------------
(* The token bucket *)

LEMMA MinOfTwo ==
  ASSUME NEW a \in Int, NEW b \in Int
  PROVE  Min({a, b}) = IF a <= b THEN a ELSE b
<1> DEFINE m == IF a <= b THEN a ELSE b
<1>1. m \in {a, b} /\ \A y \in {a, b} : m <= y
  OBVIOUS
<1>2. \A x \in {a, b} : (\A y \in {a, b} : x <= y) => x = m
  OBVIOUS
<1> QED BY <1>1, <1>2 DEF Min

LEMMA MaxOfTwo ==
  ASSUME NEW a \in Int, NEW b \in Int
  PROVE  Max({a, b}) = IF a >= b THEN a ELSE b
<1> DEFINE m == IF a >= b THEN a ELSE b
<1>1. m \in {a, b} /\ \A y \in {a, b} : m >= y
  OBVIOUS
<1>2. \A x \in {a, b} : (\A y \in {a, b} : x >= y) => x = m
  OBVIOUS
<1> QED BY <1>1, <1>2 DEF Max

LEMMA Products ==
  ASSUME NEW b \in Nat
  PROVE  \A a, c \in Nat : a * b \in Nat /\ (c + 1) * b = c * b + b /\ (a <= c + 1 => a * b <= c * b + b)
<1> SUFFICES ASSUME NEW a \in Nat, NEW c \in Nat
             PROVE  a * b \in Nat /\ (c + 1) * b = c * b + b /\ (a <= c + 1 => a * b <= c * b + b)
  OBVIOUS
<1>1. a * b \in Nat /\ (c + 1) * b = c * b + b
  OBVIOUS
<1>2. ASSUME a <= c + 1 PROVE a * b <= (c + 1) * b
  <2>1. PICK d \in Nat : c + 1 = a + d
    <3>1. c + 1 - a \in Nat
      BY <1>2
    <3> QED BY <3>1
  <2>2. (a + d) * b = a * b + d * b
    OBVIOUS
  <2>3. d * b \in Nat
    OBVIOUS
  <2> QED BY <2>1, <2>2, <2>3, <1>1
<1> QED BY <1>1, <1>2

LEMMA BurstType == Burst \in Nat /\ Burst >= 2 /\ Token = 2
<1>1. Min({Refill, 4 * Token}) = IF Refill <= 8 THEN Refill ELSE 8
  BY MinOfTwo, JobsAssumption DEF Token
<1>2. Burst = IF 2 >= Min({Refill, 4 * Token}) THEN 2 ELSE Min({Refill, 4 * Token})
  BY <1>1, MaxOfTwo, JobsAssumption DEF Burst, Token
<1> QED BY <1>1, <1>2, JobsAssumption DEF Token

LEMMA RefilledIs ==
  ASSUME JobsType
  PROVE  /\ elapsed * Refill \in Nat /\ refilled \in Nat /\ refilled <= Burst
         /\ refilled = IF Burst <= tokens + elapsed * Refill THEN Burst ELSE tokens + elapsed * Refill
<1>0. tokens \in Nat /\ elapsed \in Nat
  BY DEF JobsType
<1>1. tokens \in Nat /\ elapsed \in Nat /\ elapsed * Refill \in Nat
  BY <1>0, Products, JobsAssumption
<1>2. refilled = IF Burst <= tokens + elapsed * Refill THEN Burst ELSE tokens + elapsed * Refill
  BY <1>1, BurstType, MinOfTwo DEF refilled
<1> QED BY <1>1, <1>2, BurstType

\* A request takes a token out of the bucket.
LEMMA TakeKeeps ==
  ASSUME JobsType, Level, take
  PROVE  /\ tokens' \in Nat /\ elapsed' \in Nat /\ sent' \in [1 .. Window -> Nat]
         /\ Level'
<1>1. /\ refilled >= 2 /\ tokens' = refilled - 2 /\ elapsed' = 0 /\ sent' = [k \in 1 .. Window |-> sent[k] + 1]
  BY BurstType DEF take
<1>2. refilled \in Nat /\ refilled <= Burst /\ sent \in [1 .. Window -> Nat]
  BY RefilledIs DEF JobsType
<1>3. tokens' \in Nat /\ elapsed' \in Nat /\ sent' \in [1 .. Window -> Nat] /\ elapsed' * Refill = 0
  BY <1>1, <1>2, JobsAssumption
<1>4. refilled' = refilled - 2
  <2>1. refilled' = Min({Burst, tokens' + elapsed' * Refill})
    BY DEF refilled
  <2>2. tokens' + elapsed' * Refill \in Int
    BY <1>3
  <2>3. refilled' = IF Burst <= tokens' + elapsed' * Refill THEN Burst ELSE tokens' + elapsed' * Refill
    BY <2>1, <2>2, BurstType, MinOfTwo
  <2> QED BY <2>3, <1>1, <1>2, <1>3, BurstType
<1>5. ASSUME NEW k \in 1 .. Window PROVE Token * sent'[k] + refilled' <= Burst + k * Refill
  <2>1. sent[k] \in Nat /\ sent'[k] = sent[k] + 1 /\ k \in Nat /\ k * Refill \in Nat
    BY <1>1, <1>2, JobsAssumption
  <2>2. 2 * sent[k] + refilled <= Burst + k * Refill
    BY BurstType DEF Level
  <2> QED BY <2>1, <2>2, <1>2, <1>4, BurstType
<1> QED BY <1>3, <1>5 DEF Level

\* A tick brings at most Refill.
LEMMA TickKeeps ==
  ASSUME JobsType, Level, Tick
  PROVE  /\ tokens' \in Nat /\ elapsed' \in Nat /\ sent' \in [1 .. Window -> Nat]
         /\ Level'
<1>1. /\ tokens' = tokens /\ elapsed' = Min({elapsed + 1, 2 * Burst})
      /\ sent' = [k \in 1 .. Window |-> IF k = 1 THEN 0 ELSE sent[k - 1]]
  BY DEF Tick
<1>2. tokens \in Nat /\ elapsed \in Nat /\ sent \in [1 .. Window -> Nat]
  BY DEF JobsType
<1>3. elapsed' \in Nat /\ elapsed' <= elapsed + 1
  BY <1>1, <1>2, BurstType, MinOfTwo
<1>4. \A k \in 1 .. Window : k - 1 \in Int /\ (k # 1 => k - 1 \in 1 .. Window)
  BY JobsAssumption
<1>5. sent' \in [1 .. Window -> Nat]
  BY <1>1, <1>2, <1>4
<1>6. elapsed * Refill \in Nat /\ elapsed' * Refill \in Nat /\ elapsed' * Refill <= elapsed * Refill + Refill
  BY <1>2, <1>3, Products, JobsAssumption
<1>7. refilled' \in Nat /\ refilled' <= Burst /\ refilled' <= refilled + Refill /\ refilled \in Nat
  <2>1. refilled' = Min({Burst, tokens' + elapsed' * Refill})
    BY DEF refilled
  <2>2. refilled' = IF Burst <= tokens' + elapsed' * Refill THEN Burst ELSE tokens' + elapsed' * Refill
    BY <2>1, <1>1, <1>2, <1>6, BurstType, MinOfTwo
  <2>3. refilled = (IF Burst <= tokens + elapsed * Refill THEN Burst ELSE tokens + elapsed * Refill) /\ refilled \in Nat
    BY RefilledIs
  <2> QED BY <2>2, <2>3, <1>1, <1>2, <1>6, BurstType, JobsAssumption
<1>8. ASSUME NEW k \in 1 .. Window PROVE Token * sent'[k] + refilled' <= Burst + k * Refill
  <2>1. CASE k = 1
    <3>1. sent'[k] = 0 /\ k * Refill = Refill
      BY <2>1, <1>1, JobsAssumption
    <3>2. Token * sent'[k] = 0
      BY <3>1, BurstType
    <3>3. refilled' <= Burst + Refill
      BY <1>7, BurstType, JobsAssumption
    <3> QED BY <3>1, <3>2, <3>3, <1>7
  <2>2. CASE k # 1
    <3>1. PICK j \in 1 .. Window : j = k - 1
      BY <2>2, <1>4
    <3>2. sent'[k] = sent[j] /\ sent[j] \in Nat
      BY <3>1, <2>2, <1>1, <1>2
    <3>3. 2 * sent[j] + refilled <= Burst + j * Refill
      BY BurstType DEF Level
    <3>4. k * Refill = j * Refill + Refill /\ j * Refill \in Nat
      <4>1. j \in Nat /\ k = j + 1
        BY <3>1
      <4> QED BY <4>1, Products, JobsAssumption
    <3> QED BY <3>2, <3>3, <3>4, <1>7, BurstType, JobsAssumption
  <2> QED BY <2>1, <2>2
<1> QED BY <1>1, <1>2, <1>3, <1>5, <1>8 DEF Level

-----------------------------------------------------------------------------
(* The queue of jobs *)

LEMMA JobTail ==
  ASSUME NEW s \in Seq(JobRec), s # <<>>, Distinct(s)
  PROVE  /\ Head(s) \in JobRec /\ Head(s) \in In(s) /\ Tail(s) \in Seq(JobRec) /\ Distinct(Tail(s))
         /\ \A r : r \in In(Tail(s)) <=> r \in In(s) /\ r.id # Head(s).id
<1>1. /\ Head(s) \in JobRec /\ Tail(s) \in Seq(JobRec) /\ Len(Tail(s)) = Len(s) - 1
      /\ \A i \in 1 .. Len(Tail(s)) : Tail(s)[i] = s[i + 1]
  BY HeadTailProperties
<1>2. Len(s) \in Nat \ {0} /\ Head(s) = s[1]
  BY EmptySeq
<1>3. Distinct(Tail(s))
  BY <1>1, <1>2 DEF Distinct
<1>4. ASSUME NEW r, r \in In(Tail(s)) PROVE r \in In(s) /\ r.id # Head(s).id
  <2>1. PICK i \in 1 .. Len(Tail(s)) : r = Tail(s)[i]
    BY <1>4 DEF In
  <2>2. r = s[i + 1] /\ i + 1 \in 1 .. Len(s) /\ i + 1 # 1 /\ 1 \in 1 .. Len(s)
    BY <2>1, <1>1, <1>2
  <2> QED BY <2>2, <1>2 DEF In, Distinct
<1>5. ASSUME NEW r, r \in In(s), r.id # Head(s).id PROVE r \in In(Tail(s))
  <2>1. PICK i \in 1 .. Len(s) : r = s[i]
    BY <1>5 DEF In
  <2>2. i # 1
    BY <2>1, <1>2, <1>5
  <2>3. PICK j \in 1 .. Len(Tail(s)) : j + 1 = i
    <3>1. i - 1 \in 1 .. Len(Tail(s)) /\ (i - 1) + 1 = i
      BY <2>2, <1>1, <1>2
    <3> QED BY <3>1
  <2> QED BY <2>1, <2>3, <1>1 DEF In
<1>6. Head(s) \in In(s)
  BY <1>2 DEF In
<1> QED BY <1>1, <1>3, <1>4, <1>5, <1>6

LEMMA JobAppend ==
  ASSUME NEW s \in Seq(JobRec), NEW x \in JobRec, Distinct(s), \A r \in In(s) : r.id # x.id
  PROVE  Append(s, x) \in Seq(JobRec) /\ Distinct(Append(s, x)) /\ In(Append(s, x)) = In(s) \cup {x}
<1> DEFINE t == Append(s, x)
<1>1. /\ t \in Seq(JobRec) /\ Len(t) = Len(s) + 1 /\ Len(s) \in Nat
      /\ (\A i \in 1 .. Len(s) : t[i] = s[i]) /\ t[Len(s) + 1] = x
  BY AppendProperties, LenProperties
<1> HIDE DEF t
<1>2. \A i \in 1 .. Len(t) : i \in 1 .. Len(s) \/ i = Len(s) + 1
  BY <1>1
<1>3. \A i \in 1 .. Len(s) : s[i].id # x.id
  BY DEF In
<1>4. Distinct(t)
  <2> SUFFICES ASSUME NEW i \in 1 .. Len(t), NEW j \in 1 .. Len(t), i # j PROVE t[i].id # t[j].id
    BY DEF Distinct
  <2> QED BY <1>1, <1>2, <1>3 DEF Distinct
<1>5. \A r : r \in In(t) <=> r \in In(s) \/ r = x
  <2>1. ASSUME NEW r, r \in In(t) PROVE r \in In(s) \/ r = x
    BY <2>1, <1>1, <1>2 DEF In
  <2>2. ASSUME NEW r \in In(s) PROVE r \in In(t)
    <3>1. PICK i \in 1 .. Len(s) : r = s[i]
      BY DEF In
    <3>2. i \in 1 .. Len(t) /\ r = t[i]
      BY <3>1, <1>1
    <3> QED BY <3>2 DEF In
  <2>3. x \in In(t)
    <3>1. Len(s) + 1 \in 1 .. Len(t)
      BY <1>1
    <3> QED BY <3>1, <1>1 DEF In
  <2> QED BY <2>1, <2>2, <2>3
<1> QED BY <1>1, <1>4, <1>5 DEF t

LEMMA JobPush ==
  ASSUME NEW s \in Seq(JobRec), NEW x \in JobRec, Distinct(s), \A r \in In(s) : r.id # x.id
  PROVE  <<x>> \o s \in Seq(JobRec) /\ Distinct(<<x>> \o s) /\ In(<<x>> \o s) = In(s) \cup {x}
<1> DEFINE t == <<x>> \o s
<1>1. <<x>> \in Seq(JobRec) /\ Len(<<x>>) = 1 /\ <<x>>[1] = x /\ Len(s) \in Nat
  BY LenProperties
<1>2. /\ t \in Seq(JobRec) /\ Len(t) = 1 + Len(s)
      /\ \A i \in 1 .. 1 + Len(s) : t[i] = IF i <= 1 THEN <<x>>[i] ELSE s[i - 1]
  BY <1>1, ConcatProperties
<1> HIDE DEF t
<1>3. t[1] = x /\ \A i \in 1 .. Len(s) : i + 1 \in 1 .. Len(t) /\ t[i + 1] = s[i]
  BY <1>1, <1>2
<1>4. \A i \in 1 .. Len(t) : i = 1 \/ \E j \in 1 .. Len(s) : i = j + 1
  <2> SUFFICES ASSUME NEW i \in 1 .. Len(t), i # 1 PROVE \E j \in 1 .. Len(s) : i = j + 1
    OBVIOUS
  <2>1. i - 1 \in 1 .. Len(s) /\ i = (i - 1) + 1
    BY <1>1, <1>2
  <2> QED BY <2>1
<1>5. \A i \in 1 .. Len(s) : s[i].id # x.id
  BY DEF In
<1>6. Distinct(t)
  <2> SUFFICES ASSUME NEW i \in 1 .. Len(t), NEW j \in 1 .. Len(t), i # j PROVE t[i].id # t[j].id
    BY DEF Distinct
  <2>1. CASE i = 1
    BY <2>1, <1>3, <1>4, <1>5
  <2>2. CASE j = 1
    BY <2>2, <1>3, <1>4, <1>5
  <2>3. CASE i # 1 /\ j # 1
    <3>1. PICK a \in 1 .. Len(s) : i = a + 1
      BY <2>3, <1>4
    <3>2. PICK b \in 1 .. Len(s) : j = b + 1
      BY <2>3, <1>4
    <3>3. a # b
      BY <3>1, <3>2
    <3> QED BY <3>1, <3>2, <3>3, <1>3 DEF Distinct
  <2> QED BY <2>1, <2>2, <2>3
<1>7. \A r : r \in In(t) <=> r \in In(s) \/ r = x
  <2>1. ASSUME NEW r, r \in In(t) PROVE r \in In(s) \/ r = x
    <3>1. PICK i \in 1 .. Len(t) : r = t[i]
      BY <2>1 DEF In
    <3>2. CASE i = 1
      BY <3>1, <3>2, <1>3
    <3>3. CASE i # 1
      <4>1. PICK j \in 1 .. Len(s) : i = j + 1
        BY <3>3, <1>4
      <4>2. r = s[j]
        BY <3>1, <4>1, <1>3
      <4> QED BY <4>2 DEF In
    <3> QED BY <3>2, <3>3
  <2>2. ASSUME NEW r \in In(s) PROVE r \in In(t)
    <3>1. PICK i \in 1 .. Len(s) : r = s[i]
      BY DEF In
    <3> QED BY <3>1, <1>3 DEF In
  <2>3. x \in In(t)
    <3>1. 1 \in 1 .. Len(t)
      BY <1>1, <1>2
    <3> QED BY <3>1, <1>3 DEF In
  <2> QED BY <2>1, <2>2, <2>3
<1> QED BY <1>2, <1>6, <1>7 DEF t

LEMMA JobFront ==
  ASSUME NEW s \in Seq(JobRec), Distinct(s), Len(s) >= 1
  PROVE  /\ SubSeq(s, 1, Len(s) - 1) \in Seq(JobRec) /\ Distinct(SubSeq(s, 1, Len(s) - 1))
         /\ s[Len(s)] \in In(s) /\ s[Len(s)] \in JobRec
         /\ \A r : r \in In(SubSeq(s, 1, Len(s) - 1)) <=> r \in In(s) /\ r.id # s[Len(s)].id
<1> DEFINE t == SubSeq(s, 1, Len(s) - 1)
<1>1. Len(s) \in Nat /\ \A i \in 1 .. Len(s) : s[i] \in JobRec
  BY LenProperties, ElementOfSeq
<1>2. Len(s) - 1 \in Int /\ \A i \in 1 .. Len(s) - 1 : s[i] \in JobRec
  BY <1>1
<1>3. t \in Seq(JobRec) /\ Len(t) = (IF 1 <= Len(s) - 1 THEN Len(s) - 1 - 1 + 1 ELSE 0) /\ \A i \in 1 .. Len(s) - 1 - 1 + 1 : t[i] = s[1 + i - 1]
  BY <1>2, SubSeqProperties
<1> HIDE DEF t
<1>4. Len(t) = Len(s) - 1 /\ \A i \in 1 .. Len(s) - 1 : t[i] = s[i]
  <2>1. Len(t) = Len(s) - 1
    <3>1. PICK n \in Nat : n = Len(s)
      BY <1>1
    <3>2. Len(t) = IF 1 <= n - 1 THEN n - 1 - 1 + 1 ELSE 0
      BY <1>3, <3>1
    <3>3. n >= 1
      BY <3>1
    <3>4. Len(t) = n - 1
      BY <3>2, <3>3
    <3> QED BY <3>1, <3>4
  <2>2. ASSUME NEW i \in 1 .. Len(s) - 1 PROVE t[i] = s[i]
    <3>1. i \in 1 .. Len(s) - 1 - 1 + 1 /\ 1 + i - 1 = i
      BY <1>1
    <3> QED BY <3>1, <1>3
  <2> QED BY <2>1, <2>2
<1>5. Distinct(t)
  BY <1>1, <1>4 DEF Distinct
<1>6. Len(s) \in 1 .. Len(s) /\ s[Len(s)] \in In(s) /\ s[Len(s)] \in JobRec
  BY <1>1 DEF In
<1>7. ASSUME NEW r, r \in In(t) PROVE r \in In(s) /\ r.id # s[Len(s)].id
  <2>1. PICK i \in 1 .. Len(s) - 1 : r = s[i]
    BY <1>7, <1>4 DEF In
  <2>2. i \in 1 .. Len(s) /\ i # Len(s)
    BY <1>1
  <2> QED BY <2>1, <2>2, <1>6 DEF In, Distinct
<1>8. ASSUME NEW r, r \in In(s), r.id # s[Len(s)].id PROVE r \in In(t)
  <2>1. PICK i \in 1 .. Len(s) : r = s[i]
    BY <1>8 DEF In
  <2>2. i # Len(s)
    BY <2>1, <1>8
  <2>3. i \in 1 .. Len(t) /\ t[i] = s[i]
    BY <2>2, <1>1, <1>4
  <2> QED BY <2>1, <2>3 DEF In
<1> QED BY <1>3, <1>5, <1>6, <1>7, <1>8 DEF t

LEMMA JobIs ==
  ASSUME NEW r \in JobRec
  PROVE  /\ r.id \in Job /\ r.stage \in {0, 1, 10, 11} /\ r = [id |-> r.id, stage |-> r.stage]
         /\ r.stage % 10 \in {0, 1} /\ (r.stage % 10 = IF r.stage \in {0, 10} THEN 0 ELSE 1)
         /\ Sent(r) = (IF r.stage \in {0, 1} THEN 0 ELSE 1) /\ (r.stage >= 10 <=> r.stage \in {10, 11})
<1>1. r.id \in Job /\ r.stage \in {0, 1, 10, 11} /\ r = [id |-> r.id, stage |-> r.stage]
  BY DEF JobRec
<1>2. 0 % 10 = 0 /\ 1 % 10 = 1 /\ 10 % 10 = 0 /\ 11 % 10 = 1
  OBVIOUS
<1> QED BY <1>1, <1>2 DEF Sent

LEMMA QueuedType ==
  ASSUME q \in Seq(JobRec)
  PROVE  \A r \in In(q) : r \in JobRec
  BY ElementOfSeq DEF In

\* A step that sends nothing keeps the count, when what it queues is marked
\* with it.
LEMMA MarksKept ==
  ASSUME MarksCount, tries' = tries, \A jid \in Job : outcome'[jid] = "none" => outcome[jid] = "none",
         \A r \in In(q') : r \in In(q) \/ Asked(r, Sent(r)), inflight' => inflight /\ cur' = cur
  PROVE  MarksCount'
<1>1. \A r, n : Asked(r, n)' <=> Asked(r, n)
  BY DEF Asked
<1>2. \A r \in In(q') : Asked(r, Sent(r))'
  BY <1>1 DEF MarksCount, Asked, Sent
<1>3. inflight' => Asked(cur', Sent(cur') + 1)
  BY DEF MarksCount
<1>4. inflight' => (Asked(cur, Sent(cur) + 1))'
  BY <1>3 DEF Asked, Sent
<1> QED BY <1>2, <1>4 DEF MarksCount, RetriedOnce

LEMMA JobsStart == JobsInit => JobsIInv
<1> SUFFICES ASSUME JobsInit PROVE JobsIInv
  OBVIOUS
<1>1. q = <<>> /\ inflight = FALSE /\ conn = "down" /\ (\A jid \in Job : outcome[jid] = "none" /\ tries[jid][0] = 0 /\ tries[jid][1] = 0)
  BY DEF JobsInit
<1>2. q \in Seq(JobRec) /\ Len(q) = 0 /\ In(q) = {}
  <2>1. q \in Seq(JobRec) /\ Len(q) = 0
    BY <1>1, EmptySeq
  <2> QED BY <2>1 DEF In
<1>3. JobsType
  <2>1. inflight \in BOOLEAN
    BY <1>1, Zenon
  <2> QED BY <1>1, <1>2, <2>1, BurstType DEF JobsInit, JobsType
<1>4. OnePlace
  BY <1>1, <1>2 DEF OnePlace, Distinct
<1>5. MarksCount
  BY <1>1, <1>2 DEF MarksCount, RetriedOnce
<1>6. Level
  <2>1. refilled \in Nat /\ refilled <= Burst
    BY <1>3, RefilledIs
  <2> SUFFICES ASSUME NEW k \in 1 .. Window PROVE Token * sent[k] + refilled <= Burst + k * Refill
    BY DEF Level
  <2>2. sent[k] = 0 /\ k \in Nat /\ k * Refill \in Nat
    BY JobsAssumption, Products DEF JobsInit
  <2>3. Token * sent[k] = 0
    BY <2>2, BurstType
  <2>4. refilled <= Burst + k * Refill
    BY <2>1, <2>2, BurstType
  <2> QED BY <2>1, <2>3, <2>4
<1> QED BY <1>3, <1>4, <1>5, <1>6 DEF JobsIInv

\* The steps of the bucket and of the connection alone.
LEMMA QuietJobs ==
  ASSUME JobsType, OnePlace, MarksCount, q' = q, outcome' = outcome, tries' = tries, inflight' = inflight,
         inflight => cur' = cur, conn' = "waiting" <=> conn = "waiting",
         tokens' \in Nat, elapsed' \in Nat, sent' \in [1 .. Window -> Nat]
  PROVE  JobsType' /\ OnePlace' /\ MarksCount'
<1>1. JobsType'
  <2>1. inflight' \in BOOLEAN
    BY Zenon DEF JobsType
  <2> QED BY <2>1 DEF JobsType
<1>2. OnePlace'
  BY DEF OnePlace, Distinct, In
<1>3. MarksCount'
  BY MarksKept
<1> QED BY <1>1, <1>2, <1>3

LEMMA SendJobKeeps ==
  ASSUME JobsIInv, SendJob
  PROVE  JobsIInv'
<1>a. JobsType /\ OnePlace /\ MarksCount /\ Level
  BY DEF JobsIInv
<1>b. PICK h : h = Head(q)
  OBVIOUS
<1>c. /\ ~ inflight /\ q # <<>> /\ take /\ cur' = h /\ q' = Tail(q) /\ inflight' = TRUE /\ conn' = "waiting"
      /\ tries' = [tries EXCEPT ![h.id][h.stage % 10] = tries[h.id][h.stage % 10] + 1] /\ outcome' = outcome
  BY <1>b DEF SendJob, Takes
<1>d. /\ h \in JobRec /\ h \in In(q) /\ q' \in Seq(JobRec) /\ Distinct(q')
      /\ \A r : r \in In(q') <=> r \in In(q) /\ r.id # h.id
  BY <1>a, <1>b, <1>c, JobTail DEF JobsType, OnePlace
<1>e. h.id \in Job /\ h.stage % 10 \in {0, 1} /\ Sent(h) \in {0, 1}
  BY <1>d, JobIs
<1>f. /\ tries' \in [Job -> [{0, 1} -> Nat]]
      /\ tries'[h.id][h.stage % 10] = tries[h.id][h.stage % 10] + 1
      /\ \A jid \in Job, k \in {0, 1} : jid # h.id \/ k # h.stage % 10 => tries'[jid][k] = tries[jid][k]
  <2>1. PICK a \in Job, b \in {0, 1} : a = h.id /\ b = h.stage % 10
    BY <1>e
  <2>2. tries \in [Job -> [{0, 1} -> Nat]] /\ tries' = [tries EXCEPT ![a] = [tries[a] EXCEPT ![b] = tries[a][b] + 1]]
    BY <2>1, <1>a, <1>c DEF JobsType
  <2>3. tries[a] \in [{0, 1} -> Nat] /\ tries[a][b] + 1 \in Nat
    BY <2>2
  <2>4. [tries[a] EXCEPT ![b] = tries[a][b] + 1] \in [{0, 1} -> Nat]
    BY <2>3
  <2>5. tries' \in [Job -> [{0, 1} -> Nat]]
    BY <2>2, <2>4
  <2>6. tries'[a] = [tries[a] EXCEPT ![b] = tries[a][b] + 1] /\ \A jid \in Job : jid # a => tries'[jid] = tries[jid]
    BY <2>2
  <2>7. tries'[a][b] = tries[a][b] + 1 /\ \A k \in {0, 1} : k # b => tries'[a][k] = tries[a][k]
    BY <2>3, <2>6
  <2> QED BY <2>1, <2>5, <2>6, <2>7
<1>1. tokens' \in Nat /\ elapsed' \in Nat /\ sent' \in [1 .. Window -> Nat] /\ Level'
  BY <1>a, <1>c, TakeKeeps
<1>2. JobsType'
  <2>1. inflight' \in BOOLEAN
    BY <1>c, Zenon
  <2> QED BY <2>1, <1>a, <1>c, <1>d, <1>f, <1>1 DEF JobsType
<1>3. OnePlace'
  <2>1. \A jid \in Job : outcome'[jid] = "open" <=> (\E r \in In(q') : r.id = jid) \/ cur'.id = jid
    BY <1>a, <1>c, <1>d DEF OnePlace
  <2> QED BY <2>1, <1>c, <1>d DEF OnePlace
<1>4. MarksCount'
  <2>1. outcome[h.id] = "open" /\ Asked(h, Sent(h))
    BY <1>a, <1>d, <1>e DEF OnePlace, MarksCount
  <2>2. \A jid \in Job : outcome'[jid] = "none" => tries'[jid][0] = 0 /\ tries'[jid][1] = 0
    <3>1. \A jid \in Job : outcome'[jid] = "none" => jid # h.id
      BY <2>1, <1>c
    <3> QED BY <3>1, <1>a, <1>c, <1>f DEF MarksCount
  <2>3. \A r \in In(q') : Asked(r, Sent(r))'
    <3> SUFFICES ASSUME NEW r \in In(q') PROVE Asked(r, Sent(r))'
      OBVIOUS
    <3>1. r \in In(q) /\ r.id # h.id
      BY <1>d
    <3>2. r.id \in Job /\ r.stage % 10 \in {0, 1}
      BY <3>1, <1>a, QueuedType, JobIs DEF JobsType
    <3>3. Asked(r, Sent(r))
      BY <3>1, <1>a DEF MarksCount
    <3> QED BY <3>1, <3>2, <3>3, <1>f DEF Asked, Sent
  <2>4. tries'[h.id][h.stage % 10] = Sent(h) + 1 /\ (h.stage % 10 = 0 => tries'[h.id][1] = 0)
    BY <2>1, <1>e, <1>f DEF Asked
  <2>5. Asked(cur, Sent(cur) + 1)'
    BY <2>4, <1>c DEF Asked, Sent
  <2>6. \A jid \in Job, k \in {0, 1} : tries'[jid][k] <= 2
    <3>1. Sent(h) + 1 <= 2
      BY <1>e
    <3>2. \A jid \in Job, k \in {0, 1} : tries[jid][k] <= 2
      BY <1>a DEF MarksCount, RetriedOnce
    <3> QED BY <3>1, <3>2, <2>4, <1>f
  <2> QED BY <2>2, <2>3, <2>5, <2>6 DEF MarksCount, RetriedOnce
<1> QED BY <1>1, <1>2, <1>3, <1>4 DEF JobsIInv

\* A job ends, out of the queue or out of flight.
LEMMA JobEnds ==
  ASSUME JobsType, OnePlace, MarksCount, NEW x \in JobRec, NEW how \in {"overflow", "error", "no exhibit", "fetched"},
         outcome' = [outcome EXCEPT ![x.id] = how], ~ inflight', inflight' \in BOOLEAN, conn' # "waiting", tries' = tries,
         q' \in Seq(JobRec), Distinct(q'), \A r : r \in In(q') <=> r \in In(q) /\ r.id # x.id,
         inflight => cur.id = x.id, tokens' \in Nat, elapsed' \in Nat, sent' \in [1 .. Window -> Nat]
  PROVE  JobsType' /\ OnePlace' /\ MarksCount'
<1>1. x.id \in Job /\ outcome'[x.id] = how /\ \A jid \in Job : jid # x.id => outcome'[jid] = outcome[jid]
  BY JobIs DEF JobsType
<1>2. JobsType'
  <2>1. outcome' \in [Job -> {"none", "open", "overflow", "error", "no exhibit", "fetched"}]
    BY <1>1 DEF JobsType
  <2> QED BY <2>1 DEF JobsType
<1>3. OnePlace'
  <2>1. ASSUME NEW jid \in Job PROVE outcome'[jid] = "open" <=> \E r \in In(q') : r.id = jid
    <3>1. CASE jid = x.id
      BY <3>1, <1>1
    <3>2. CASE jid # x.id
      <4>1. outcome'[jid] = outcome[jid] /\ ~ (inflight /\ cur.id = jid)
        BY <3>2, <1>1
      <4>2. (\E r \in In(q') : r.id = jid) <=> (\E r \in In(q) : r.id = jid)
        BY <3>2
      <4> QED BY <4>1, <4>2 DEF OnePlace
    <3> QED BY <3>1, <3>2
  <2> QED BY <2>1 DEF OnePlace
<1>4. MarksCount'
  <2>1. \A jid \in Job : outcome'[jid] = "none" => outcome[jid] = "none"
    BY <1>1
  <2> QED BY <2>1, MarksKept
<1> QED BY <1>2, <1>3, <1>4

\* The job in flight goes back to the head of the queue.
LEMMA JobReturns ==
  ASSUME JobsType, OnePlace, MarksCount, NEW x \in JobRec, inflight, x.id = cur.id, Asked(x, Sent(x)),
         q' = <<x>> \o q, outcome' = outcome, ~ inflight', inflight' \in BOOLEAN, conn' # "waiting", tries' = tries,
         tokens' \in Nat, elapsed' \in Nat, sent' \in [1 .. Window -> Nat]
  PROVE  JobsType' /\ OnePlace' /\ MarksCount'
<1>1. q \in Seq(JobRec) /\ Distinct(q) /\ \A r \in In(q) : r.id # x.id
  BY DEF JobsType, OnePlace
<1>2. q' \in Seq(JobRec) /\ Distinct(q') /\ In(q') = In(q) \cup {x}
  BY <1>1, JobPush
<1>3. JobsType'
  BY <1>2 DEF JobsType
<1>4. OnePlace'
  <2>1. \A jid \in Job : outcome'[jid] = "open" <=> \E r \in In(q') : r.id = jid
    BY <1>2 DEF OnePlace
  <2> QED BY <2>1, <1>2 DEF OnePlace
<1>5. MarksCount'
  <2>1. \A r \in In(q') : r \in In(q) \/ Asked(r, Sent(r))
    BY <1>2
  <2> QED BY <2>1, MarksKept
<1> QED BY <1>3, <1>4, <1>5

LEMMA BucketKept ==
  ASSUME JobsType, Level, UNCHANGED bucket
  PROVE  tokens' \in Nat /\ elapsed' \in Nat /\ sent' \in [1 .. Window -> Nat] /\ Level'
<1>1. tokens' = tokens /\ elapsed' = elapsed /\ sent' = sent
  BY DEF bucket
<1> QED BY <1>1 DEF JobsType, Level, refilled

LEMMA JobClosedKeeps ==
  ASSUME JobsIInv, JobClosed
  PROVE  JobsIInv'
<1>a. JobsType /\ OnePlace /\ MarksCount /\ Level
  BY DEF JobsIInv
<1>b. conn # "down" /\ conn' = "down" /\ inflight' = FALSE /\ cur' = cur /\ tries' = tries /\ UNCHANGED bucket
  BY DEF JobClosed
<1>c. tokens' \in Nat /\ elapsed' \in Nat /\ sent' \in [1 .. Window -> Nat] /\ Level'
  BY <1>a, <1>b, BucketKept
<1>d. inflight' \in BOOLEAN /\ ~ inflight' /\ conn' # "waiting"
  BY <1>b, Zenon
<1>1. CASE inflight /\ cur.stage < 10 /\ q' = <<RetryMark(cur)>> \o q /\ outcome' = outcome
  <2>1. cur \in JobRec /\ Asked(cur, Sent(cur) + 1)
    BY <1>1, <1>a DEF JobsType, MarksCount
  <2>2. PICK x : x = RetryMark(cur)
    OBVIOUS
  <2>3. x = [id |-> cur.id, stage |-> cur.stage + 10] /\ cur.stage \in {0, 1} /\ cur.id \in Job
    BY <2>1, <2>2, <1>1, JobIs DEF RetryMark
  <2>4. x \in JobRec /\ x.id = cur.id /\ x.stage = cur.stage + 10
    BY <2>3 DEF JobRec
  <2>5. Sent(cur) = 0 /\ Sent(x) = 1 /\ x.stage % 10 = cur.stage % 10
    BY <2>1, <2>3, <2>4, JobIs
  <2>6. Asked(x, Sent(x))
    BY <2>1, <2>4, <2>5 DEF Asked
  <2> QED BY <2>2, <2>4, <2>6, <1>1, <1>a, <1>b, <1>c, <1>d, JobReturns DEF JobsIInv
<1>2. CASE inflight /\ cur.stage >= 10 /\ Ends(cur.id, "error") /\ q' = q
  <2>1. PICK x \in JobRec : x = cur
    BY <1>2, <1>a DEF JobsType
  <2>2. \A r : r \in In(q') <=> r \in In(q) /\ r.id # x.id
    BY <2>1, <1>2, <1>a DEF OnePlace
  <2>3. q' \in Seq(JobRec) /\ Distinct(q') /\ outcome' = [outcome EXCEPT ![x.id] = "error"]
    BY <2>1, <1>2, <1>a DEF OnePlace, JobsType, Ends
  <2> QED BY <2>1, <2>2, <2>3, <1>a, <1>b, <1>c, <1>d, JobEnds DEF JobsIInv
<1>3. CASE ~ inflight /\ q' = q /\ outcome' = outcome
  <2>1. inflight' = inflight /\ (conn' = "waiting" <=> conn = "waiting")
    <3>1. inflight = FALSE
      BY <1>3, <1>a, Zenon DEF JobsType
    <3>2. conn # "waiting"
      BY <1>3, <1>a DEF OnePlace
    <3> QED BY <3>1, <3>2, <1>b
  <2> QED BY <2>1, <1>3, <1>a, <1>b, <1>c, QuietJobs DEF JobsIInv
<1> QED BY <1>1, <1>2, <1>3 DEF JobClosed

LEMMA JobResponseKeeps ==
  ASSUME JobsIInv, JobResponse
  PROVE  JobsIInv'
<1>a. JobsType /\ OnePlace /\ MarksCount /\ Level
  BY DEF JobsIInv
<1>b. conn = "waiting" /\ conn' \in {"ready", "down"} /\ inflight' = FALSE /\ cur' = cur /\ tries' = tries /\ UNCHANGED bucket
  BY DEF JobResponse
<1>c. tokens' \in Nat /\ elapsed' \in Nat /\ sent' \in [1 .. Window -> Nat] /\ Level'
  BY <1>a, <1>b, BucketKept
<1>d. inflight' \in BOOLEAN /\ ~ inflight' /\ conn' # "waiting"
  BY <1>b, Zenon
<1>e. inflight /\ cur \in JobRec /\ Asked(cur, Sent(cur) + 1)
  BY <1>a, <1>b DEF JobsType, OnePlace, MarksCount
<1>1. ASSUME NEW how \in {"overflow", "error", "no exhibit", "fetched"}, Ends(cur.id, how), q' = q PROVE JobsIInv'
  <2>1. PICK x \in JobRec : x = cur
    BY <1>e
  <2>2. \A r : r \in In(q') <=> r \in In(q) /\ r.id # x.id
    BY <2>1, <1>1, <1>a, <1>e DEF OnePlace
  <2>3. q' \in Seq(JobRec) /\ Distinct(q') /\ outcome' = [outcome EXCEPT ![x.id] = how]
    BY <2>1, <1>1, <1>a DEF OnePlace, JobsType, Ends
  <2> QED BY <2>1, <2>2, <2>3, <1>a, <1>b, <1>c, <1>d, JobEnds DEF JobsIInv
<1>2. CASE JobStage = 0 /\ q' = NextStage([cur EXCEPT !.stage = 1]) /\ outcome' = outcome
  <2>1. PICK x : x = [cur EXCEPT !.stage = 1]
    OBVIOUS
  <2>2. x = [id |-> cur.id, stage |-> 1] /\ cur.id \in Job
    BY <2>1, <1>e, JobIs
  <2>3. x \in JobRec /\ x.id = cur.id /\ x.stage = 1
    BY <2>2 DEF JobRec
  <2>4. Sent(x) = 0 /\ x.stage % 10 = 1
    BY <2>3, JobIs
  <2>5. tries[cur.id][1] = 0
    BY <1>2, <1>e DEF Asked, JobStage
  <2>6. Asked(x, Sent(x))
    BY <2>3, <2>4, <2>5 DEF Asked
  <2>7. q' = <<x>> \o q
    BY <2>1, <1>2 DEF NextStage
  <2> QED BY <2>3, <2>6, <2>7, <1>2, <1>a, <1>b, <1>c, <1>d, <1>e, JobReturns DEF JobsIInv
<1> QED BY <1>1, <1>2 DEF JobResponse

LEMMA BadHrefKeeps ==
  ASSUME JobsIInv, BadHref
  PROVE  JobsIInv'
<1>a. JobsType /\ OnePlace /\ MarksCount /\ Level
  BY DEF JobsIInv
<1>b. PICK x : x = Head(q)
  OBVIOUS
<1>c. /\ ~ inflight /\ q # <<>> /\ conn = "ready" /\ take /\ q' = Tail(q) /\ inflight' = inflight /\ conn' = conn
      /\ tries' = tries /\ outcome' = [outcome EXCEPT ![x.id] = "error"]
  BY <1>b DEF BadHref, Takes, Ends
<1>d. /\ x \in JobRec /\ q' \in Seq(JobRec) /\ Distinct(q')
      /\ \A r : r \in In(q') <=> r \in In(q) /\ r.id # x.id
  BY <1>a, <1>b, <1>c, JobTail DEF JobsType, OnePlace
<1>e. tokens' \in Nat /\ elapsed' \in Nat /\ sent' \in [1 .. Window -> Nat] /\ Level'
  BY <1>a, <1>c, TakeKeeps
<1>f. inflight' \in BOOLEAN /\ ~ inflight' /\ conn' # "waiting"
  <2>1. inflight' \in BOOLEAN /\ ~ inflight'
    BY <1>a, <1>c, Zenon DEF JobsType
  <2> QED BY <2>1, <1>c
<1> QED BY <1>a, <1>c, <1>d, <1>e, <1>f, JobEnds DEF JobsIInv

\* A filing is queued; with the queue full, the last one gives way.
LEMMA QueueKeeps ==
  ASSUME JobsIInv, NEW jid \in Job, maybe_queue_exhibit(jid)
  PROVE  JobsIInv'
<1>a. JobsType /\ OnePlace /\ MarksCount /\ Level
  BY DEF JobsIInv
<1>b. PICK s : s = q
  OBVIOUS
<1>c. /\ outcome[jid] = "none" /\ cur' = cur /\ inflight' = inflight /\ conn' = conn /\ tries' = tries /\ UNCHANGED bucket
      /\ q' = Append(IF Len(s) >= QueueMax THEN SubSeq(s, 1, Len(s) - 1) ELSE s, [id |-> jid, stage |-> 0])
      /\ outcome' = [j \in Job |-> CASE j = jid -> "open"
                                     [] Len(s) >= QueueMax /\ j = s[Len(s)].id -> "overflow"
                                     [] OTHER -> outcome[j]]
  BY <1>b DEF maybe_queue_exhibit
<1>d. s \in Seq(JobRec) /\ Distinct(s) /\ Len(s) \in Nat
  BY <1>a, <1>b, LenProperties DEF JobsType, OnePlace
<1>e. PICK x \in JobRec : x = [id |-> jid, stage |-> 0] /\ x.id = jid /\ x.stage = 0
  <2>1. PICK x : x = [id |-> jid, stage |-> 0]
    OBVIOUS
  <2>2. x \in JobRec /\ x.id = jid /\ x.stage = 0
    BY <2>1 DEF JobRec
  <2> QED BY <2>1, <2>2
<1>g. (\A r \in In(s) : r.id # jid) /\ (inflight => cur.id # jid)
  BY <1>a, <1>b, <1>c DEF OnePlace
<1>f. PICK t \in Seq(JobRec), gone \in Job \cup {0} :
        /\ q' = Append(t, x) /\ Distinct(t)
        /\ \A r : r \in In(t) <=> r \in In(s) /\ r.id # gone
        /\ gone = 0 \/ \E r \in In(s) : r.id = gone
        /\ \A j \in Job : outcome'[j] = IF j = jid THEN "open" ELSE IF j = gone THEN "overflow" ELSE outcome[j]
  <2>0. 0 \notin Job
    BY DEF Job
  <2>1. CASE Len(s) >= QueueMax
    <3>1. Len(s) > 0
      BY <2>1, <1>d, JobsAssumption
    <3>2. s # <<>>
      BY <3>1, <1>d, EmptySeq
    <3>3. PICK t : t = SubSeq(s, 1, Len(s) - 1)
      OBVIOUS
    <3>4. /\ t \in Seq(JobRec) /\ Distinct(t) /\ s[Len(s)] \in JobRec /\ s[Len(s)] \in In(s)
          /\ \A r : r \in In(t) <=> r \in In(s) /\ r.id # s[Len(s)].id
      BY <3>2, <3>3, <1>d, JobFront
    <3>5. s[Len(s)].id \in Job
      BY <3>4, JobIs
    <3>6. q' = Append(t, x)
      BY <2>1, <3>3, <1>c, <1>e
    <3>7. \A j \in Job : outcome'[j] = IF j = jid THEN "open" ELSE IF j = s[Len(s)].id THEN "overflow" ELSE outcome[j]
      <4>1. PICK last : last = s[Len(s)].id
        OBVIOUS
      <4>2. outcome' = [j \in Job |-> CASE j = jid -> "open" [] j = last -> "overflow" [] OTHER -> outcome[j]]
        BY <2>1, <4>1, <1>c
      <4>3. \A j \in Job : outcome'[j] = IF j = jid THEN "open" ELSE IF j = last THEN "overflow" ELSE outcome[j]
        <5>1. last # jid
          BY <4>1, <3>4, <1>g
        <5> QED BY <4>2, <5>1
      <4> QED BY <4>1, <4>3
    <3> QED BY <3>4, <3>5, <3>6, <3>7
  <2>2. CASE ~ Len(s) >= QueueMax
    <3>1. q' = Append(s, x)
      BY <2>2, <1>c, <1>e
    <3>2. \A j \in Job : outcome'[j] = IF j = jid THEN "open" ELSE IF j = 0 THEN "overflow" ELSE outcome[j]
      BY <2>0, <2>2, <1>c
    <3>3. \A r \in In(s) : r.id # 0
      BY <2>0, <1>a, <1>b, QueuedType, JobIs DEF JobsType
    <3>4. \A r : r \in In(s) <=> r \in In(s) /\ r.id # 0
      BY <3>3
    <3> QED BY <3>1, <3>2, <3>4, <1>d
  <2> QED BY <2>1, <2>2
<1>h. q' \in Seq(JobRec) /\ Distinct(q') /\ In(q') = In(t) \cup {x}
  BY <1>e, <1>f, <1>g, JobAppend
<1>i. tokens' \in Nat /\ elapsed' \in Nat /\ sent' \in [1 .. Window -> Nat] /\ Level'
  BY <1>a, <1>c, BucketKept
<1>1. JobsType'
  <2>1. outcome' \in [Job -> {"none", "open", "overflow", "error", "no exhibit", "fetched"}]
    <3>1. outcome' = [j \in Job |-> outcome'[j]]
      BY <1>c
    <3>2. \A j \in Job : outcome'[j] \in {"none", "open", "overflow", "error", "no exhibit", "fetched"}
      BY <1>f, <1>a DEF JobsType
    <3> QED BY <3>1, <3>2
  <2>2. inflight' \in BOOLEAN
    BY <1>a, <1>c, Zenon DEF JobsType
  <2> QED BY <2>1, <2>2, <1>a, <1>c, <1>h, <1>i DEF JobsType
<1>2. OnePlace'
  <2>1. ASSUME NEW j \in Job PROVE outcome'[j] = "open" <=> (\E r \in In(q') : r.id = j) \/ (inflight /\ cur.id = j)
    <3>1. CASE j = jid
      BY <3>1, <1>e, <1>f, <1>h
    <3>2. CASE j # jid /\ j = gone
      <4>1. ~ (inflight /\ cur.id = j)
        <5>1. PICK r \in In(s) : r.id = j
          BY <3>2, <1>f DEF Job
        <5> QED BY <5>1, <1>a, <1>b DEF OnePlace
      <4>2. \A r \in In(q') : r.id # j
        BY <3>2, <1>e, <1>f, <1>h
      <4> QED BY <3>2, <4>1, <4>2, <1>f
    <3>3. CASE j # jid /\ j # gone
      <4>1. (\E r \in In(q') : r.id = j) <=> (\E r \in In(s) : r.id = j)
        BY <3>3, <1>e, <1>f, <1>h
      <4>2. outcome'[j] = outcome[j]
        BY <3>3, <1>f
      <4> QED BY <4>1, <4>2, <1>a, <1>b DEF OnePlace
    <3> QED BY <3>1, <3>2, <3>3
  <2>2. inflight => \A r \in In(q') : r.id # cur.id
    BY <1>a, <1>b, <1>e, <1>f, <1>g, <1>h DEF OnePlace
  <2> QED BY <2>1, <2>2, <1>a, <1>c, <1>h DEF OnePlace
<1>3. MarksCount'
  <2>1. tries[jid][0] = 0 /\ tries[jid][1] = 0
    BY <1>a, <1>c DEF MarksCount
  <2>2. Asked(x, Sent(x))
    <3>1. x.stage % 10 = 0 /\ Sent(x) = 0
      BY <1>e, JobIs
    <3> QED BY <3>1, <2>1, <1>e DEF Asked
  <2>3. \A r \in In(q') : r \in In(q) \/ Asked(r, Sent(r))
    BY <2>2, <1>b, <1>f, <1>h
  <2>4. \A j \in Job : outcome'[j] = "none" => outcome[j] = "none"
    BY <1>f
  <2> QED BY <2>3, <2>4, <1>a, <1>c, MarksKept
<1> QED BY <1>1, <1>2, <1>3, <1>i DEF JobsIInv

LEMMA JobsStepKeeps ==
  ASSUME JobsIInv, JobsNext
  PROVE  JobsIInv'
<1>a. JobsType /\ OnePlace /\ MarksCount /\ Level
  BY DEF JobsIInv
<1>1. CASE Tick
  <2>1. tokens' \in Nat /\ elapsed' \in Nat /\ sent' \in [1 .. Window -> Nat] /\ Level'
    BY <1>1, <1>a, TickKeeps
  <2>2. q' = q /\ cur' = cur /\ inflight' = inflight /\ conn' = conn /\ outcome' = outcome /\ tries' = tries
    BY <1>1 DEF Tick
  <2> QED BY <2>1, <2>2, <1>a, QuietJobs DEF JobsIInv
<1>2. CASE Poll
  <2>1. tokens' \in Nat /\ elapsed' \in Nat /\ sent' \in [1 .. Window -> Nat] /\ Level'
    BY <1>2, <1>a, TakeKeeps DEF Poll
  <2>2. q' = q /\ cur' = cur /\ inflight' = inflight /\ conn' = conn /\ outcome' = outcome /\ tries' = tries
    BY <1>2 DEF Poll
  <2> QED BY <2>1, <2>2, <1>a, QuietJobs DEF JobsIInv
<1>3. CASE Connect \/ JobConnected
  <2>1. UNCHANGED bucket /\ q' = q /\ cur' = cur /\ inflight' = inflight /\ outcome' = outcome /\ tries' = tries
    BY <1>3 DEF Connect, JobConnected
  <2>2. tokens' \in Nat /\ elapsed' \in Nat /\ sent' \in [1 .. Window -> Nat] /\ Level'
    BY <2>1, <1>a, BucketKept
  <2>3. conn' = "waiting" <=> conn = "waiting"
    BY <1>3 DEF Connect, JobConnected
  <2> QED BY <2>1, <2>2, <2>3, <1>a, QuietJobs DEF JobsIInv
<1>4. CASE SendFails
  <2>1. /\ take /\ ~ inflight /\ conn = "ready" /\ conn' = "down"
        /\ q' = q /\ inflight' = inflight /\ outcome' = outcome /\ tries' = tries
    BY <1>4 DEF SendFails, Takes
  <2>2. tokens' \in Nat /\ elapsed' \in Nat /\ sent' \in [1 .. Window -> Nat] /\ Level'
    BY <2>1, <1>a, TakeKeeps
  <2>3. conn' = "waiting" <=> conn = "waiting"
    BY <2>1
  <2> QED BY <2>1, <2>2, <2>3, <1>a, QuietJobs DEF JobsIInv
<1> QED BY <1>1, <1>2, <1>3, <1>4, SendJobKeeps, BadHrefKeeps, JobClosedKeeps, JobResponseKeeps, QueueKeeps
        DEF JobsNext, JobStep

\* What the proofs about the exhibit fetches rest on, in every reachable state:
\* an open job is queued once or in flight, its mark counts its requests, and
\* what was sent came out of the bucket (poller.cpp, service_jobs and
\* on_job_event).
THEOREM JobsInductive == JobsSpec => []JobsIInv
<1>1. JobsInit => JobsIInv
  BY JobsStart
<1>2. ASSUME JobsIInv, [JobsNext]_jobVars PROVE JobsIInv'
  <2>1. CASE UNCHANGED jobVars
    <3>1. /\ UNCHANGED bucket /\ q' = q /\ cur' = cur /\ inflight' = inflight /\ conn' = conn
          /\ outcome' = outcome /\ tries' = tries
      BY <2>1 DEF jobVars, bucket
    <3>2. tokens' \in Nat /\ elapsed' \in Nat /\ sent' \in [1 .. Window -> Nat] /\ Level'
      BY <3>1, <1>2, BucketKept DEF JobsIInv
    <3> QED BY <3>1, <3>2, <1>2, QuietJobs DEF JobsIInv
  <2> QED BY <2>1, <1>2, JobsStepKeeps
<1> QED BY <1>1, <1>2, PTL DEF JobsSpec

LEMMA AccountedFromPlaces ==
  ASSUME JobsIInv
  PROVE  JobsAccounted
<1>a. JobsType /\ OnePlace
  BY DEF JobsIInv
<1>b. q \in Seq(JobRec) /\ DOMAIN q = 1 .. Len(q)
  BY <1>a, LenProperties DEF JobsType
<1> SUFFICES ASSUME NEW jid \in Job
             PROVE  Cardinality({k \in DOMAIN q : q[k].id = jid}) + (IF inflight /\ cur.id = jid THEN 1 ELSE 0)
                    = IF outcome[jid] = "open" THEN 1 ELSE 0
  BY DEF JobsAccounted
<1>1. CASE \E k \in 1 .. Len(q) : q[k].id = jid
  <2>1. PICK k \in 1 .. Len(q) : q[k].id = jid
    BY <1>1
  <2>2. {i \in DOMAIN q : q[i].id = jid} = {k}
    BY <2>1, <1>a, <1>b DEF OnePlace, Distinct
  <2>3. Cardinality({i \in DOMAIN q : q[i].id = jid}) = 1
    BY <2>2, FS_Singleton
  <2>4. q[k] \in In(q)
    BY DEF In
  <2>5. outcome[jid] = "open" /\ ~ (inflight /\ cur.id = jid)
    BY <2>1, <2>4, <1>a DEF OnePlace
  <2> QED BY <2>3, <2>5
<1>2. CASE ~ \E k \in 1 .. Len(q) : q[k].id = jid
  <2>1. {i \in DOMAIN q : q[i].id = jid} = {}
    BY <1>2, <1>b
  <2>2. Cardinality({i \in DOMAIN q : q[i].id = jid}) = 0
    BY <2>1, FS_EmptySet
  <2>3. outcome[jid] = "open" <=> inflight /\ cur.id = jid
    BY <1>2, <1>a DEF OnePlace, In
  <2> QED BY <2>2, <2>3
<1> QED BY <1>1, <1>2

\* For any number of filings, any queue length and rate: a queued filing is in
\* exactly one place until it ends, each page is asked for at most twice, and
\* polls and exhibits together stay within the host's rate (poller.cpp:133,
\* 445).
THEOREM JobsAreAccounted == JobsSpec => []JobsInv
<1>1. ASSUME JobsIInv PROVE JobsInv
  <2>1. JobsAccounted
    BY <1>1, AccountedFromPlaces
  <2>2. RetriedOnce
    BY <1>1 DEF JobsIInv, MarksCount
  <2>3. WithinRate
    <3> SUFFICES ASSUME NEW k \in 1 .. Window PROVE Token * sent[k] <= Burst + k * Refill
      BY DEF WithinRate
    <3>1. Token * sent[k] + refilled <= Burst + k * Refill
      BY <1>1 DEF JobsIInv, Level
    <3>2. refilled \in Nat /\ sent[k] \in Nat
      BY <1>1, RefilledIs DEF JobsIInv, JobsType
    <3>3. Token * sent[k] \in Nat /\ Burst + k * Refill \in Nat
      <4>1. k \in Nat /\ k * Refill \in Nat
        BY JobsAssumption, Products
      <4> QED BY <4>1, <3>2, BurstType
    <3> QED BY <3>1, <3>2, <3>3
  <2> QED BY <2>1, <2>2, <2>3 DEF JobsInv
<1> QED BY <1>1, JobsInductive, PTL

-----------------------------------------------------------------------------
(* The inductive invariant of the daemon *)

RingName == {"news", "events", "alerts", "journal"}
Rec == {"story", "signal", "trade"} \X ((Producer \union {"engine"}) \X Nat)
Item == (Producer \X Nat) \union Rec

\* One item may stand before another: events in the order they were offered,
\* and in the journal no record twice and the stories in that order.
Before(a, b) ==
  /\ a # b
  /\ a[1] = "story" /\ b[1] = "story" => a[2][2] < b[2][2]
  /\ a[1] \in Producer /\ b[1] \in Producer => a[2] < b[2]
Ordered(s) == \A i, j \in 1 .. Len(s) : i < j => Before(s[i], s[j])
AllBefore(s, t) == \A a \in In(s), b \in In(t) : Before(a, b)

DaemonType ==
  /\ stage \in {"up", "stop_producers", "stop_engine", "stop_sinks", "joined", "saving", "exited"}
  /\ ring \in [RingName -> Seq(Item)] /\ offered \in [Producer -> Nat]
  /\ file \in Seq(Item) /\ buffered \in Seq(Item) /\ lives \in Nat

\* Who has ended by when, and what it left behind.
InTurn ==
  /\ "engine" \in ended => stage \notin {"up", "stop_producers"} /\ In(ring["news"]) \subseteq left
  /\ {"alerts", "journal"} \cap ended # {} => stage \in {"stop_sinks", "joined", "saving", "exited"}
  /\ stage \in {"stop_sinks", "joined", "saving", "exited"} => "engine" \in ended
  /\ stage \in {"joined", "saving", "exited"} => {"alerts", "journal"} \subseteq ended
  /\ "journal" \in ended => ring["journal"] = <<>> /\ buffered = <<>>
  /\ "alerts" \in ended => ring["alerts"] = <<>>

RingsOrdered ==
  \A p \in Producer : /\ Ordered(ring[RingOf(p)])
                      /\ \A e \in In(ring[RingOf(p)]) : e \in {p} \X Nat /\ e[2] <= offered[p]

\* From the file over stdio's buffer to the ring.
JournalOrdered ==
  /\ Ordered(file) /\ Ordered(buffered) /\ Ordered(ring["journal"])
  /\ AllBefore(file, buffered) /\ AllBefore(file, ring["journal"]) /\ AllBefore(buffered, ring["journal"])

\* A record of an event is older than the events still in its ring; the trades
\* of this life are recorded when the engine ends.
Older(r) ==
  /\ r \in Rec
  /\ r[1] = "story" => r[2][1] = "net"
  /\ r[1] # "trade" => /\ r[2][1] \in Producer /\ r[2][2] <= offered[r[2][1]]
                       /\ \A e \in In(ring[RingOf(r[2][1])]) : r[2][2] < e[2]
  /\ r[1] = "trade" => r[2][2] <= lives /\ (r[2][2] = lives => "engine" \in ended)
Journalled == In(file) \union In(buffered) \union In(ring["journal"])
JournalOlder == \A r \in Journalled : Older(r)

StoriesKept ==
  \A ev \in Stories : Gone(ev) \/ ev \in left \/ ev \in In(ring["news"]) \/ <<"story", ev>> \in Journalled

FilingsSafe == saved \subseteq filings /\ (stage = "saving" => tmp = filings)

DaemonIInv == /\ DaemonType /\ InTurn /\ RingsOrdered /\ JournalOrdered /\ JournalOlder
              /\ StoriesKept /\ FilingsSafe

-----------------------------------------------------------------------------
(* Sequences of items *)

LEMMA ItemsIn ==
  ASSUME NEW s \in Seq(Item)
  PROVE  ToSet(s) = In(s) /\ Len(s) \in Nat /\ (s = <<>> <=> In(s) = {}) /\ \A a \in In(s) : a \in Item
<1>1. DOMAIN s = 1 .. Len(s) /\ Len(s) \in Nat
  BY LenProperties
<1>2. s = <<>> <=> Len(s) = 0
  BY EmptySeq
<1>3. ToSet(s) = In(s)
  BY <1>1 DEF ToSet, In
<1>4. s = <<>> => In(s) = {}
  BY <1>1, <1>2 DEF In
<1>5. s # <<>> => In(s) # {}
  <2>1. s # <<>> => 1 \in 1 .. Len(s)
    BY <1>1, <1>2
  <2> QED BY <2>1 DEF In
<1>6. \A a \in In(s) : a \in Item
  BY ElementOfSeq DEF In
<1> QED BY <1>1, <1>3, <1>4, <1>5, <1>6

LEMMA NoItems == <<>> \in Seq(Item) /\ In(<<>>) = {} /\ Ordered(<<>>)
<1>1. <<>> \in Seq(Item) /\ Len(<<>>) = 0
  BY EmptySeq
<1> QED BY <1>1 DEF In, Ordered

LEMMA ItemsConcat ==
  ASSUME NEW s \in Seq(Item), NEW t \in Seq(Item)
  PROVE  /\ s \o t \in Seq(Item) /\ In(s \o t) = In(s) \union In(t)
         /\ Ordered(s) /\ Ordered(t) /\ AllBefore(s, t) => Ordered(s \o t)
<1> DEFINE u == s \o t
<1>1. Len(s) \in Nat /\ Len(t) \in Nat
  BY LenProperties
<1>2. /\ u \in Seq(Item) /\ Len(u) = Len(s) + Len(t)
      /\ \A i \in 1 .. Len(s) + Len(t) : u[i] = IF i <= Len(s) THEN s[i] ELSE t[i - Len(s)]
  BY ConcatProperties
<1> HIDE DEF u
<1>3. ASSUME NEW i \in 1 .. Len(u)
      PROVE  \/ i \in 1 .. Len(s) /\ u[i] = s[i]
             \/ i > Len(s) /\ i - Len(s) \in 1 .. Len(t) /\ u[i] = t[i - Len(s)]
  BY <1>1, <1>2
<1>4. \A a : a \in In(u) <=> a \in In(s) \/ a \in In(t)
  <2>1. ASSUME NEW a, a \in In(u) PROVE a \in In(s) \/ a \in In(t)
    <3>1. PICK i \in 1 .. Len(u) : a = u[i]
      BY <2>1 DEF In
    <3> QED BY <3>1, <1>3 DEF In
  <2>2. ASSUME NEW a, a \in In(s) PROVE a \in In(u)
    <3>1. PICK i \in 1 .. Len(s) : a = s[i]
      BY <2>2 DEF In
    <3>2. i \in 1 .. Len(u) /\ u[i] = a
      BY <3>1, <1>1, <1>2
    <3> QED BY <3>2 DEF In
  <2>3. ASSUME NEW a, a \in In(t) PROVE a \in In(u)
    <3>1. PICK i \in 1 .. Len(t) : a = t[i]
      BY <2>3 DEF In
    <3>2. i + Len(s) \in 1 .. Len(u) /\ ~ i + Len(s) <= Len(s) /\ i + Len(s) - Len(s) = i
      BY <1>1, <1>2
    <3>3. u[i + Len(s)] = a
      BY <3>1, <3>2, <1>2
    <3> QED BY <3>2, <3>3 DEF In
  <2> QED BY <2>1, <2>2, <2>3
<1>5. ASSUME Ordered(s), Ordered(t), AllBefore(s, t) PROVE Ordered(u)
  <2> SUFFICES ASSUME NEW i \in 1 .. Len(u), NEW j \in 1 .. Len(u), i < j PROVE Before(u[i], u[j])
    BY DEF Ordered
  <2>1. CASE i \in 1 .. Len(s) /\ j \in 1 .. Len(s)
    <3>1. u[i] = s[i] /\ u[j] = s[j]
      BY <2>1, <1>1, <1>3
    <3> QED BY <3>1, <2>1, <1>5 DEF Ordered
  <2>2. CASE i \in 1 .. Len(s) /\ j > Len(s)
    <3>1. u[i] \in In(s) /\ u[j] \in In(t)
      BY <2>2, <1>1, <1>3 DEF In
    <3> QED BY <3>1, <1>5 DEF AllBefore
  <2>3. CASE i > Len(s) /\ j > Len(s)
    <3>1. i - Len(s) \in 1 .. Len(t) /\ u[i] = t[i - Len(s)]
      BY <2>3, <1>1, <1>3
    <3>2. j - Len(s) \in 1 .. Len(t) /\ u[j] = t[j - Len(s)]
      BY <2>3, <1>1, <1>3
    <3>3. i - Len(s) < j - Len(s)
      BY <1>1
    <3>4. PICK a \in 1 .. Len(t), b \in 1 .. Len(t) : a = i - Len(s) /\ b = j - Len(s)
      BY <3>1, <3>2
    <3>5. a < b /\ u[i] = t[a] /\ u[j] = t[b]
      BY <3>1, <3>2, <3>3, <3>4
    <3> QED BY <3>5, <1>5 DEF Ordered
  <2>4. ~ (i > Len(s) /\ j \in 1 .. Len(s))
    BY <1>1
  <2> QED BY <2>1, <2>2, <2>3, <2>4, <1>3
<1> QED BY <1>2, <1>4, <1>5 DEF u

LEMMA ItemsOne ==
  ASSUME NEW x \in Item
  PROVE  <<x>> \in Seq(Item) /\ In(<<x>>) = {x} /\ Ordered(<<x>>)
<1>1. <<x>> \in Seq(Item) /\ Len(<<x>>) = 1 /\ <<x>>[1] = x
  OBVIOUS
<1> QED BY <1>1 DEF In, Ordered

LEMMA ItemsAppend ==
  ASSUME NEW s \in Seq(Item), NEW x \in Item
  PROVE  /\ Append(s, x) \in Seq(Item) /\ In(Append(s, x)) = In(s) \union {x}
         /\ Ordered(s) /\ (\A a \in In(s) : Before(a, x)) => Ordered(Append(s, x))
<1>1. Append(s, x) = s \o <<x>>
  BY AppendIsConcat
<1>2. <<x>> \in Seq(Item) /\ In(<<x>>) = {x} /\ Ordered(<<x>>)
  BY ItemsOne
<1>3. (\A a \in In(s) : Before(a, x)) => AllBefore(s, <<x>>)
  BY <1>2 DEF AllBefore
<1>4. /\ s \o <<x>> \in Seq(Item) /\ In(s \o <<x>>) = In(s) \union In(<<x>>)
      /\ Ordered(s) /\ Ordered(<<x>>) /\ AllBefore(s, <<x>>) => Ordered(s \o <<x>>)
  BY <1>2, ItemsConcat
<1> QED BY <1>1, <1>2, <1>3, <1>4

LEMMA ItemsTail ==
  ASSUME NEW s \in Seq(Item), s # <<>>
  PROVE  /\ Head(s) \in Item /\ Tail(s) \in Seq(Item) /\ In(s) = {Head(s)} \union In(Tail(s))
         /\ Ordered(s) => Ordered(Tail(s)) /\ \A b \in In(Tail(s)) : Before(Head(s), b)
<1>1. /\ Head(s) \in Item /\ Tail(s) \in Seq(Item) /\ Len(Tail(s)) = Len(s) - 1
      /\ \A i \in 1 .. Len(Tail(s)) : Tail(s)[i] = s[i + 1]
  BY HeadTailProperties
<1>2. Len(s) \in Nat \ {0} /\ Head(s) = s[1]
  BY EmptySeq
<1>3. \A a : a \in In(s) <=> a = Head(s) \/ a \in In(Tail(s))
  <2>1. ASSUME NEW a, a \in In(s) PROVE a = Head(s) \/ a \in In(Tail(s))
    <3>1. PICK i \in 1 .. Len(s) : a = s[i]
      BY <2>1 DEF In
    <3>2. CASE i # 1
      <4>1. i - 1 \in 1 .. Len(Tail(s)) /\ (i - 1) + 1 = i
        BY <3>2, <1>1, <1>2
      <4> QED BY <4>1, <3>1, <1>1 DEF In
    <3> QED BY <3>1, <3>2, <1>2
  <2>2. ASSUME NEW a, a \in In(Tail(s)) PROVE a \in In(s)
    <3>1. PICK i \in 1 .. Len(Tail(s)) : a = Tail(s)[i]
      BY <2>2 DEF In
    <3>2. a = s[i + 1] /\ i + 1 \in 1 .. Len(s)
      BY <3>1, <1>1, <1>2
    <3> QED BY <3>2 DEF In
  <2>3. Head(s) \in In(s)
    BY <1>2 DEF In
  <2> QED BY <2>1, <2>2, <2>3
<1>4. ASSUME Ordered(s) PROVE Ordered(Tail(s)) /\ \A b \in In(Tail(s)) : Before(Head(s), b)
  <2>1. Ordered(Tail(s))
    <3> SUFFICES ASSUME NEW i \in 1 .. Len(Tail(s)), NEW j \in 1 .. Len(Tail(s)), i < j
                 PROVE  Before(Tail(s)[i], Tail(s)[j])
      BY DEF Ordered
    <3>1. i + 1 \in 1 .. Len(s) /\ j + 1 \in 1 .. Len(s) /\ i + 1 < j + 1
      BY <1>1, <1>2
    <3>2. Before(s[i + 1], s[j + 1])
      BY <3>1, <1>4 DEF Ordered
    <3> QED BY <3>2, <1>1
  <2>2. ASSUME NEW b \in In(Tail(s)) PROVE Before(Head(s), b)
    <3>1. PICK i \in 1 .. Len(Tail(s)) : b = Tail(s)[i]
      BY DEF In
    <3>2. b = s[i + 1] /\ i + 1 \in 1 .. Len(s) /\ 1 \in 1 .. Len(s) /\ 1 < i + 1
      BY <3>1, <1>1, <1>2
    <3> QED BY <3>2, <1>2, <1>4 DEF Ordered
  <2> QED BY <2>1, <2>2
<1> QED BY <1>1, <1>3, <1>4

LEMMA ItemsPrefix ==
  ASSUME NEW s \in Seq(Item), NEW n \in Int, n <= Len(s)
  PROVE  /\ SubSeq(s, 1, n) \in Seq(Item) /\ In(SubSeq(s, 1, n)) \subseteq In(s)
         /\ Ordered(s) => Ordered(SubSeq(s, 1, n))
         /\ n = Len(s) => In(SubSeq(s, 1, n)) = In(s)
<1> DEFINE t == SubSeq(s, 1, n)
<1>0. Len(s) \in Nat
  BY LenProperties
<1>1. CASE n < 1
  <2>1. t = <<>>
    BY <1>1, SubSeqEmpty
  <2>2. t \in Seq(Item) /\ In(t) = {} /\ Ordered(t)
    BY <2>1, NoItems
  <2>3. n = Len(s) => In(s) = {}
    BY <1>0, <1>1 DEF In
  <2> QED BY <2>2, <2>3
<1>2. CASE n >= 1
  <2>1. /\ t \in Seq(Item) /\ Len(t) = n /\ \A i \in 1 .. n : t[i] = s[i]
    <3>1. 1 \in 1 .. Len(s) /\ n \in 0 .. Len(s) /\ n \in 1 .. Len(s)
      BY <1>0, <1>2
    <3>2. t \in Seq(Item) /\ Len(t) = (IF 1 <= n THEN n - 1 + 1 ELSE 0) /\ \A i \in 1 .. n - 1 + 1 : t[i] = s[1 + i - 1]
      BY <3>1, SubSeqProperties
    <3> HIDE DEF t
    <3>3. n - 1 + 1 = n /\ \A i \in 1 .. n : 1 + i - 1 = i
      OBVIOUS
    <3> QED BY <3>2, <3>3, <1>2
  <2> HIDE DEF t
  <2>2. \A i \in 1 .. n : i \in 1 .. Len(s)
    BY <1>0
  <2>3. In(t) \subseteq In(s)
    BY <2>1, <2>2 DEF In
  <2>4. Ordered(s) => Ordered(t)
    BY <2>1, <2>2 DEF Ordered
  <2>5. n = Len(s) => In(t) = In(s)
    BY <2>1 DEF In
  <2> QED BY <2>1, <2>3, <2>4, <2>5 DEF t
<1> QED BY <1>0, <1>1, <1>2

-----------------------------------------------------------------------------
(* The steps of the daemon *)

LEMMA StageNames ==
  /\ Len(Stage) = 7 /\ Stage[1] = "up" /\ Stage[2] = "stop_producers" /\ Stage[3] = "stop_engine"
  /\ Stage[4] = "stop_sinks" /\ Stage[5] = "joined" /\ Stage[6] = "saving" /\ Stage[7] = "exited"
  BY DEF Stage

LEMMA StageIs ==
  ASSUME DaemonType
  PROVE  /\ Reached(2) <=> stage # "up"
         /\ Reached(3) <=> stage \notin {"up", "stop_producers"}
         /\ Reached(4) <=> stage \in {"stop_sinks", "joined", "saving", "exited"}
<1>1. stage \in {"up", "stop_producers", "stop_engine", "stop_sinks", "joined", "saving", "exited"}
  BY DEF DaemonType
<1>2. Reached(2) <=> stage \in {"stop_producers", "stop_engine", "stop_sinks", "joined", "saving", "exited"}
  BY StageNames DEF Reached, AtStage
<1>3. Reached(3) <=> stage \in {"stop_engine", "stop_sinks", "joined", "saving", "exited"}
  BY StageNames DEF Reached, AtStage
<1>4. Reached(4) <=> stage \in {"stop_sinks", "joined", "saving", "exited"}
  BY StageNames DEF Reached, AtStage
<1> QED BY <1>1, <1>2, <1>3, <1>4

LEMMA RingNames ==
  /\ Producer = {"net", "market"} /\ RingOf("net") = "news" /\ RingOf("market") = "events"
  /\ \A p \in Producer : RingOf(p) \in RingName /\ RingOf(p) \notin {"journal", "alerts"}
  /\ \A p, o \in Producer : RingOf(p) = RingOf(o) => p = o
  /\ \A r \in EngineRings : \E p \in Producer : r = RingOf(p)
<1>1. Producer = {"net", "market"} /\ RingOf("net") = "news" /\ RingOf("market") = "events"
  BY DEF Producer, RingOf
<1> QED BY <1>1 DEF RingName, EngineRings

LEMMA RingTypes ==
  ASSUME DaemonType
  PROVE  /\ \A p \in Producer : ring[RingOf(p)] \in Seq(Item)
         /\ ring["news"] \in Seq(Item) /\ ring["events"] \in Seq(Item)
         /\ ring["journal"] \in Seq(Item) /\ ring["alerts"] \in Seq(Item)
  BY RingNames DEF DaemonType, RingName

LEMMA FitsIs ==
  ASSUME NEW s \in Seq(Item), NEW recs \in Seq(Item), Ordered(recs)
  PROVE  Fits(s, recs) \in Seq(Item) /\ In(Fits(s, recs)) \subseteq In(recs) /\ Ordered(Fits(s, recs))
<1>1. PICK n : n = IF Len(recs) < RingCap - Len(s) THEN Len(recs) ELSE RingCap - Len(s)
  OBVIOUS
<1>2. Len(recs) \in Nat /\ Len(s) \in Nat
  BY LenProperties
<1>3. n \in Int /\ n <= Len(recs)
  BY <1>1, <1>2, DaemonAssumption
<1>4. Fits(s, recs) = SubSeq(recs, 1, n)
  BY <1>1 DEF Fits
<1> QED BY <1>3, <1>4, ItemsPrefix

LEMMA RecordsAre ==
  ASSUME NEW p \in Producer, NEW ev \in {p} \X Nat, NEW signal \in BOOLEAN
  PROVE  /\ Records(ev, signal) \in Seq(Item) /\ Ordered(Records(ev, signal))
         /\ \A x \in In(Records(ev, signal)) : \/ x = <<"story", ev>> /\ p = "net"
                                               \/ x = <<"signal", ev>>
         /\ p = "net" => <<"story", ev>> \in In(Records(ev, signal))
<1>1. PICK a, b : a = <<"story", ev>> /\ b = <<"signal", ev>>
  OBVIOUS
<1>2. ev \in Producer \X Nat /\ ev[1] = p
  OBVIOUS
<1>3. a \in Item /\ b \in Item /\ a[1] = "story" /\ b[1] = "signal"
  BY <1>1, <1>2 DEF Item, Rec
<1>4. PICK u, v : u = (IF p = "net" THEN <<a>> ELSE <<>>) /\ v = (IF signal THEN <<b>> ELSE <<>>)
  OBVIOUS
<1>5. Records(ev, signal) = u \o v
  BY <1>1, <1>2, <1>4 DEF Records
<1>6. u \in Seq(Item) /\ Ordered(u) /\ In(u) = IF p = "net" THEN {a} ELSE {}
  BY <1>3, <1>4, ItemsOne, NoItems
<1>7. v \in Seq(Item) /\ Ordered(v) /\ In(v) \subseteq {b}
  BY <1>3, <1>4, ItemsOne, NoItems
<1>8. Before(a, b)
  BY <1>3 DEF Before, Producer
<1>9. AllBefore(u, v)
  BY <1>6, <1>7, <1>8 DEF AllBefore
<1>10. u \o v \in Seq(Item) /\ In(u \o v) = In(u) \union In(v) /\ Ordered(u \o v)
  BY <1>6, <1>7, <1>9, ItemsConcat
<1> QED BY <1>1, <1>5, <1>6, <1>7, <1>10

\* Records that no journalled one equals and that no journalled story follows
\* may be put into the ring.
LEMMA JournalGrows ==
  ASSUME DaemonType, JournalOrdered, NEW t \in Seq(Item), Ordered(t),
         \A a \in Journalled, b \in In(t) : Before(a, b),
         file' = file, buffered' = buffered, ring'["journal"] = ring["journal"] \o t
  PROVE  JournalOrdered' /\ Journalled' = Journalled \union In(t)
<1>1. PICK s \in Seq(Item) : s = ring["journal"]
  BY RingTypes
<1>2. \A a : a \in Journalled <=> a \in In(file) \/ a \in In(buffered) \/ a \in In(s)
  BY <1>1 DEF Journalled
<1>3. Ordered(s)
  BY <1>1 DEF JournalOrdered
<1>4. AllBefore(s, t)
  BY <1>2 DEF AllBefore
<1>5. Ordered(s \o t) /\ In(s \o t) = In(s) \union In(t)
  BY <1>3, <1>4, ItemsConcat
<1>6. ring'["journal"] = s \o t
  BY <1>1
<1>7. AllBefore(file, s \o t) /\ AllBefore(buffered, s \o t)
  BY <1>1, <1>2, <1>5 DEF AllBefore, JournalOrdered
<1>8. JournalOrdered'
  BY <1>5, <1>6, <1>7 DEF JournalOrdered
<1>9. Journalled' = In(file) \union In(buffered) \union In(s \o t)
  BY <1>6 DEF Journalled
<1> QED BY <1>2, <1>5, <1>8, <1>9

\* What a record is older than shrinks, and its life stays or passes.
LEMMA OlderKept ==
  ASSUME \A p \in Producer : offered'[p] = offered[p] /\ In(ring'[RingOf(p)]) \subseteq In(ring[RingOf(p)]),
         lives' = lives, "engine" \in ended => "engine" \in ended', NEW r, Older(r)
  PROVE  Older(r)'
  BY DEF Older

LEMMA DaemonStart == DaemonInit => DaemonIInv
<1> SUFFICES ASSUME DaemonInit PROVE DaemonIInv
  OBVIOUS
<1>1. /\ stage = "up" /\ ended = {} /\ offered = [p \in Producer |-> 0] /\ buffered = <<>> /\ file = <<>>
      /\ filings = {} /\ saved = {} /\ lives = 1
  BY StageNames DEF DaemonInit
<1>2. ring \in [RingName -> Seq(Item)] /\ \A r \in RingName : ring[r] = <<>>
  BY NoItems DEF DaemonInit, Empty, EngineRings, RingName
<1>3. DaemonType
  BY <1>1, <1>2, NoItems DEF DaemonType
<1>4. InTurn
  BY <1>1 DEF InTurn
<1>5. \A r \in RingName : Ordered(ring[r]) /\ In(ring[r]) = {}
  BY <1>2, NoItems
<1>6. RingsOrdered
  BY <1>5, RingNames DEF RingsOrdered
<1>7. In(file) = {} /\ In(buffered) = {} /\ In(ring["journal"]) = {} /\ Ordered(file) /\ Ordered(buffered) /\ Ordered(ring["journal"])
  BY <1>1, <1>5, NoItems DEF RingName
<1>8. JournalOrdered
  BY <1>7 DEF JournalOrdered, AllBefore
<1>9. JournalOlder
  BY <1>7 DEF JournalOlder, Journalled
<1>10. StoriesKept
  BY <1>1, RingNames DEF StoriesKept, Stories
<1>11. FilingsSafe
  BY <1>1 DEF FilingsSafe
<1> QED BY <1>3, <1>4, <1>6, <1>8, <1>9, <1>10, <1>11 DEF DaemonIInv

\* The producers leave, and the resolver's thread goes its way.
LEMMA QuietDaemon ==
  ASSUME DaemonIInv, \/ UNCHANGED daemonVars \/ ResolverStop \/ DnsStep
                     \/ \E p \in Producer : LeaveProducer(p)
  PROVE  DaemonIInv'
<1>1. /\ stage' = stage /\ ring' = ring /\ offered' = offered /\ lost' = lost /\ left' = left
      /\ buffered' = buffered /\ file' = file /\ filings' = filings /\ saved' = saved /\ tmp' = tmp /\ lives' = lives
  BY DEF daemonVars, ResolverStop, DnsStep, LeaveProducer
<1>2. \A t \in {"engine", "alerts", "journal"} : t \in ended' <=> t \in ended
  BY DEF daemonVars, ResolverStop, DnsStep, LeaveProducer, Producer
<1>3. DaemonType'
  BY <1>1 DEF DaemonIInv, DaemonType
<1>4. InTurn'
  BY <1>1, <1>2 DEF DaemonIInv, InTurn
<1>5. RingsOrdered' /\ JournalOrdered' /\ StoriesKept' /\ FilingsSafe' /\ Journalled' = Journalled
  BY <1>1 DEF DaemonIInv, RingsOrdered, JournalOrdered, StoriesKept, FilingsSafe, Stories, Gone, Journalled
<1>6. JournalOlder'
  BY <1>1, <1>2, <1>5, OlderKept DEF DaemonIInv, JournalOlder
<1> QED BY <1>3, <1>4, <1>5, <1>6 DEF DaemonIInv

LEMMA OfferKeeps ==
  ASSUME DaemonIInv, NEW p \in Producer, Offer(p)
  PROVE  DaemonIInv'
<1>a. DaemonType /\ InTurn /\ RingsOrdered /\ JournalOrdered /\ JournalOlder /\ StoriesKept /\ FilingsSafe
  BY DEF DaemonIInv
<1>b. PICK n \in Nat : n = offered[p] + 1
  BY <1>a DEF DaemonType
<1>c. PICK ev : ev = <<p, n>>
  OBVIOUS
<1>d. /\ stage = "up" /\ stage' = stage /\ ended' = ended /\ left' = left /\ buffered' = buffered /\ file' = file
      /\ filings' = filings /\ saved' = saved /\ tmp' = tmp /\ lives' = lives
  BY StageNames DEF Offer, AtStage
<1>e. /\ offered' \in [Producer -> Nat] /\ offered'[p] = n
      /\ \A o \in Producer : offered[o] \in Nat /\ (o # p => offered'[o] = offered[o])
  BY <1>a, <1>b DEF Offer, DaemonType
<1>f. PICK s \in Seq(Item) : s = ring[RingOf(p)] /\ Ordered(s) /\ \A e \in In(s) : e \in {p} \X Nat /\ e[2] <= offered[p]
  BY <1>a, RingTypes DEF RingsOrdered
<1>g. ev \in Item /\ ev[1] = p /\ ev[2] = n /\ ev \in {p} \X Nat
  BY <1>c DEF Item
<1>h. PICK t \in Seq(Item) : /\ ring' = [ring EXCEPT ![RingOf(p)] = t]
                             /\ (t = Append(s, ev) /\ lost' = lost) \/ (t = s /\ lost' = lost \union {ev})
  <2>1. <<p, offered'[p]>> = ev
    BY <1>c, <1>e
  <2>2. CASE Len(s) < RingCap
    <3>1. ring' = [ring EXCEPT ![RingOf(p)] = Append(s, ev)] /\ lost' = lost
      BY <2>1, <2>2, <1>f DEF Offer
    <3>2. Append(s, ev) \in Seq(Item)
      BY <1>g, ItemsAppend
    <3> QED BY <3>1, <3>2
  <2>3. CASE ~ Len(s) < RingCap
    <3>1. ring' = ring /\ lost' = lost \union {ev}
      BY <2>1, <2>3, <1>f DEF Offer
    <3>2. ring = [ring EXCEPT ![RingOf(p)] = s]
      BY <1>a, <1>f DEF DaemonType
    <3> QED BY <3>1, <3>2
  <2> QED BY <2>2, <2>3
<1>i. /\ In(t) = In(s) \union {ev} \/ (In(t) = In(s) /\ ev \in lost')
      /\ Ordered(t)
  <2>1. \A a \in In(s) : Before(a, ev)
    <3> SUFFICES ASSUME NEW a \in In(s) PROVE Before(a, ev)
      OBVIOUS
    <3>1. a[1] = p /\ a[2] \in Nat /\ a[2] <= offered[p]
      BY <1>f
    <3>2. a[2] < ev[2] /\ a # ev
      BY <3>1, <1>b, <1>e, <1>g
    <3> QED BY <3>1, <3>2, RingNames DEF Before
  <2> QED BY <2>1, <1>f, <1>g, <1>h, ItemsAppend
<1>j. /\ ring' \in [RingName -> Seq(Item)] /\ ring'[RingOf(p)] = t
      /\ \A r \in RingName : r # RingOf(p) => ring'[r] = ring[r]
      /\ \A o \in Producer : o # p => ring'[RingOf(o)] = ring[RingOf(o)]
      /\ ring'["journal"] = ring["journal"]
  <2>1. ring' \in [RingName -> Seq(Item)] /\ ring'[RingOf(p)] = t
    BY <1>a, <1>h, RingNames DEF DaemonType
  <2>2. \A r \in RingName : r # RingOf(p) => ring'[r] = ring[r]
    BY <1>a, <1>h, RingNames DEF DaemonType
  <2> QED BY <2>1, <2>2, RingNames DEF RingName
<1>1. DaemonType'
  BY <1>a, <1>d, <1>e, <1>j DEF DaemonType
<1>2. InTurn'
  BY <1>a, <1>d DEF InTurn
<1>3. RingsOrdered'
  <2> SUFFICES ASSUME NEW o \in Producer
               PROVE  /\ Ordered(ring'[RingOf(o)])
                      /\ \A e \in In(ring'[RingOf(o)]) : e \in {o} \X Nat /\ e[2] <= offered'[o]
    BY DEF RingsOrdered
  <2>1. CASE o = p
    <3>1. \A e \in In(t) : e \in {p} \X Nat /\ e[2] <= n
      BY <1>b, <1>e, <1>f, <1>g, <1>i
    <3> QED BY <2>1, <3>1, <1>e, <1>i, <1>j
  <2>2. CASE o # p
    BY <2>2, <1>a, <1>e, <1>j DEF RingsOrdered
  <2> QED BY <2>1, <2>2
<1>4. JournalOrdered' /\ Journalled' = Journalled
  BY <1>a, <1>d, <1>j DEF JournalOrdered, Journalled
<1>5. JournalOlder'
  <2> SUFFICES ASSUME NEW r \in Journalled PROVE Older(r)'
    BY <1>4 DEF JournalOlder
  <2>1. Older(r)
    BY <1>a DEF JournalOlder
  <2>2. ASSUME r[1] # "trade"
        PROVE  /\ r[2][1] \in Producer /\ r[2][2] <= offered'[r[2][1]]
               /\ \A e \in In(ring'[RingOf(r[2][1])]) : r[2][2] < e[2]
    <3>1. r[2][1] \in Producer /\ r[2][2] <= offered[r[2][1]] /\ \A e \in In(ring[RingOf(r[2][1])]) : r[2][2] < e[2]
      BY <2>1, <2>2 DEF Older
    <3>2. r[2][2] \in Nat
      BY <2>1 DEF Older, Rec
    <3>3. CASE r[2][1] = p
      <4>1. r[2][2] < n
        BY <3>1, <3>2, <3>3, <1>b, <1>e
      <4>2. \A e \in In(t) : r[2][2] < e[2]
        BY <3>1, <3>3, <4>1, <1>f, <1>g, <1>i
      <4> QED BY <3>1, <3>2, <3>3, <4>1, <4>2, <1>e, <1>j
    <3>4. CASE r[2][1] # p
      BY <3>1, <3>4, <1>e, <1>j
    <3> QED BY <3>3, <3>4
  <2> QED BY <2>1, <2>2, <1>d DEF Older
<1>6. StoriesKept'
  <2> SUFFICES ASSUME NEW x \in Stories' PROVE Gone(x)' \/ x \in left' \/ x \in In(ring'["news"]) \/ <<"story", x>> \in Journalled'
    BY DEF StoriesKept
  <2>1. x \in Stories \/ (p = "net" /\ x = ev)
    <3>1. PICK k \in 1 .. offered'["net"] : x = <<"net", k>>
      BY DEF Stories
    <3>2. CASE p = "net" /\ k = n
      BY <3>1, <3>2, <1>c
    <3>3. CASE ~ (p = "net" /\ k = n)
      <4>1. k \in 1 .. offered["net"]
        BY <3>1, <3>3, <1>b, <1>e, RingNames
      <4> QED BY <3>1, <4>1 DEF Stories
    <3> QED BY <3>2, <3>3
  <2>2. In(ring["news"]) \subseteq In(ring'["news"])
    <3>1. CASE p = "net"
      BY <3>1, <1>f, <1>i, <1>j, RingNames
    <3>2. CASE p # "net"
      BY <3>2, <1>j, RingNames DEF RingName
    <3> QED BY <3>1, <3>2
  <2>3. CASE x \in Stories
    <3>1. Gone(x) \/ x \in left \/ x \in In(ring["news"]) \/ <<"story", x>> \in Journalled
      BY <2>3, <1>a DEF StoriesKept
    <3>2. Gone(x) => Gone(x)'
      BY <1>h DEF Gone
    <3> QED BY <3>1, <3>2, <2>2, <1>4, <1>d
  <2>4. CASE p = "net" /\ x = ev
    <3>1. x \in In(t) \/ x \in lost'
      BY <2>4, <1>i
    <3> QED BY <2>4, <3>1, <1>j, RingNames DEF Gone
  <2> QED BY <2>1, <2>3, <2>4
<1>7. FilingsSafe'
  BY <1>a, <1>d DEF FilingsSafe
<1> QED BY <1>1, <1>2, <1>3, <1>4, <1>5, <1>6, <1>7 DEF DaemonIInv

LEMMA DeliverAlertKeeps ==
  ASSUME DaemonIInv, DeliverAlert
  PROVE  DaemonIInv'
<1>a. DaemonType /\ InTurn /\ RingsOrdered /\ JournalOrdered /\ JournalOlder /\ StoriesKept /\ FilingsSafe
  BY DEF DaemonIInv
<1>b. /\ stage' = stage /\ ended' = ended /\ offered' = offered /\ lost' = lost /\ left' = left /\ buffered' = buffered
      /\ file' = file /\ filings' = filings /\ saved' = saved /\ tmp' = tmp /\ lives' = lives
      /\ "alerts" \notin ended /\ ring["alerts"] # <<>> /\ ring' = [ring EXCEPT !["alerts"] = Tail(ring["alerts"])]
  BY DEF DeliverAlert, Runs
<1>c. Tail(ring["alerts"]) \in Seq(Item)
  BY <1>a, <1>b, RingTypes, ItemsTail
<1>d. /\ ring' \in [RingName -> Seq(Item)]
      /\ \A r \in RingName : r # "alerts" => ring'[r] = ring[r]
  BY <1>a, <1>b, <1>c DEF DaemonType, RingName
<1>e. /\ \A p \in Producer : ring'[RingOf(p)] = ring[RingOf(p)]
      /\ ring'["journal"] = ring["journal"] /\ ring'["news"] = ring["news"]
  BY <1>d, RingNames DEF RingName
<1>1. DaemonType'
  BY <1>a, <1>b, <1>d DEF DaemonType
<1>2. InTurn'
  BY <1>a, <1>b, <1>e DEF InTurn
<1>3. RingsOrdered'
  BY <1>a, <1>b, <1>e DEF RingsOrdered
<1>4. JournalOrdered' /\ Journalled' = Journalled
  BY <1>a, <1>b, <1>e DEF JournalOrdered, Journalled
<1>5. JournalOlder'
  BY <1>a, <1>b, <1>e, <1>4, OlderKept DEF JournalOlder
<1>6. StoriesKept'
  BY <1>a, <1>b, <1>e, <1>4 DEF StoriesKept, Stories, Gone
<1>7. FilingsSafe'
  BY <1>a, <1>b DEF FilingsSafe
<1> QED BY <1>1, <1>2, <1>3, <1>4, <1>5, <1>6, <1>7 DEF DaemonIInv

\* The lines move on towards the disk.
LEMMA LinesMove ==
  ASSUME DaemonIInv, JournalOrdered', Journalled' = Journalled,
         stage' = stage, offered' = offered, lost' = lost, left' = left, filings' = filings, saved' = saved,
         tmp' = tmp, lives' = lives,
         \A r \in RingName : r # "journal" => ring'[r] = ring[r], ring' \in [RingName -> Seq(Item)],
         file' \in Seq(Item), buffered' \in Seq(Item), InTurn', "engine" \in ended => "engine" \in ended'
  PROVE  DaemonIInv'
<1>a. DaemonType /\ RingsOrdered /\ JournalOlder /\ StoriesKept /\ FilingsSafe
  BY DEF DaemonIInv
<1>b. (\A p \in Producer : ring'[RingOf(p)] = ring[RingOf(p)]) /\ ring'["news"] = ring["news"]
  BY RingNames DEF RingName
<1>1. DaemonType'
  BY <1>a DEF DaemonType
<1>2. RingsOrdered'
  BY <1>a, <1>b DEF RingsOrdered
<1>3. JournalOlder'
  BY <1>a, <1>b, OlderKept DEF JournalOlder
<1>4. StoriesKept'
  BY <1>a, <1>b DEF StoriesKept, Stories, Gone
<1>5. FilingsSafe'
  BY <1>a DEF FilingsSafe
<1> QED BY <1>1, <1>2, <1>3, <1>4, <1>5 DEF DaemonIInv

LEMMA WriteKeeps ==
  ASSUME DaemonIInv, Write
  PROVE  DaemonIInv'
<1>a. DaemonType /\ InTurn /\ JournalOrdered
  BY DEF DaemonIInv
<1>b. PICK s \in Seq(Item), b \in Seq(Item), f \in Seq(Item) : s = ring["journal"] /\ b = buffered /\ f = file
  BY <1>a, RingTypes DEF DaemonType
<1>c. PICK h, t : h = Head(s) /\ t = Tail(s)
  OBVIOUS
<1>d. /\ stage' = stage /\ ended' = ended /\ offered' = offered /\ lost' = lost /\ left' = left
      /\ file' = file /\ filings' = filings /\ saved' = saved /\ tmp' = tmp /\ lives' = lives
      /\ "journal" \notin ended /\ s # <<>> /\ ring' = [ring EXCEPT !["journal"] = t] /\ buffered' = Append(b, h)
  BY <1>b, <1>c DEF Write, Runs
<1>e. /\ h \in Item /\ t \in Seq(Item) /\ In(s) = {h} \union In(t)
      /\ Ordered(t) /\ \A x \in In(t) : Before(h, x)
  BY <1>a, <1>b, <1>c, <1>d, ItemsTail DEF JournalOrdered
<1>f. /\ Append(b, h) \in Seq(Item) /\ In(Append(b, h)) = In(b) \union {h} /\ Ordered(Append(b, h))
  <2>1. Ordered(b) /\ \A x \in In(b) : Before(x, h)
    BY <1>a, <1>b, <1>e DEF JournalOrdered, AllBefore
  <2> QED BY <2>1, <1>e, ItemsAppend
<1>g. /\ ring' \in [RingName -> Seq(Item)] /\ ring'["journal"] = t
      /\ \A r \in RingName : r # "journal" => ring'[r] = ring[r]
  BY <1>a, <1>d, <1>e DEF DaemonType, RingName
<1>1. JournalOrdered'
  <2>1. AllBefore(f, Append(b, h)) /\ AllBefore(f, t) /\ AllBefore(Append(b, h), t)
    BY <1>a, <1>b, <1>e, <1>f DEF JournalOrdered, AllBefore
  <2> QED BY <2>1, <1>a, <1>b, <1>d, <1>e, <1>f, <1>g DEF JournalOrdered
<1>2. Journalled' = Journalled
  <2>1. Journalled = In(f) \union In(b) \union In(s)
    BY <1>b DEF Journalled
  <2>2. Journalled' = In(f) \union In(Append(b, h)) \union In(t)
    BY <1>b, <1>d, <1>g DEF Journalled
  <2> QED BY <2>1, <2>2, <1>e, <1>f
<1>3. InTurn'
  <2>1. ring'["news"] = ring["news"] /\ ring'["alerts"] = ring["alerts"]
    BY <1>g DEF RingName
  <2> QED BY <2>1, <1>a, <1>d DEF InTurn
<1> QED BY <1>1, <1>2, <1>3, <1>a, <1>d, <1>f, <1>g, LinesMove DEF DaemonType

\* The buffer is written out, by a flush or when the journal ends.
LEMMA FlushMoves ==
  ASSUME DaemonType, JournalOrdered, file' = file \o buffered, buffered' = <<>>, ring' = ring
  PROVE  file' \in Seq(Item) /\ buffered' \in Seq(Item) /\ JournalOrdered' /\ Journalled' = Journalled
<1>a. PICK b \in Seq(Item), f \in Seq(Item) : b = buffered /\ f = file
  BY DEF DaemonType
<1>1. /\ f \o b \in Seq(Item) /\ In(f \o b) = In(f) \union In(b) /\ Ordered(f \o b)
  BY <1>a, ItemsConcat DEF JournalOrdered
<1>2. <<>> \in Seq(Item) /\ In(<<>>) = {} /\ Ordered(<<>>)
  BY NoItems
<1>3. AllBefore(f \o b, <<>>) /\ AllBefore(<<>>, ring["journal"]) /\ AllBefore(f \o b, ring["journal"])
  BY <1>a, <1>1, <1>2 DEF JournalOrdered, AllBefore
<1>4. JournalOrdered'
  BY <1>a, <1>1, <1>2, <1>3 DEF JournalOrdered
<1>5. Journalled' = Journalled
  <2>1. Journalled' = In(f \o b) \union In(<<>>) \union In(ring["journal"])
    BY <1>a DEF Journalled
  <2> QED BY <2>1, <1>a, <1>1, <1>2 DEF Journalled
<1> QED BY <1>a, <1>1, <1>2, <1>4, <1>5

LEMMA FlushKeeps ==
  ASSUME DaemonIInv, Flush
  PROVE  DaemonIInv'
<1>a. DaemonType /\ InTurn /\ JournalOrdered
  BY DEF DaemonIInv
<1>b. /\ stage' = stage /\ ended' = ended /\ ring' = ring /\ offered' = offered /\ lost' = lost /\ left' = left
      /\ filings' = filings /\ saved' = saved /\ tmp' = tmp /\ lives' = lives
      /\ "journal" \notin ended /\ file' = file \o buffered /\ buffered' = <<>>
  BY DEF Flush, AfterFlush, Runs, Reach
<1>1. file' \in Seq(Item) /\ buffered' \in Seq(Item) /\ JournalOrdered' /\ Journalled' = Journalled
  BY <1>a, <1>b, FlushMoves
<1>2. InTurn'
  BY <1>a, <1>b DEF InTurn
<1> QED BY <1>1, <1>2, <1>a, <1>b, LinesMove DEF DaemonType

LEMMA LeaveSinkKeeps ==
  ASSUME DaemonIInv, NEW t \in {"alerts", "journal"}, LeaveSink(t)
  PROVE  DaemonIInv'
<1>a. DaemonType /\ InTurn /\ JournalOrdered
  BY DEF DaemonIInv
<1>b. /\ stage' = stage /\ ended' = ended \union {t} /\ ring' = ring /\ offered' = offered /\ lost' = lost /\ left' = left
      /\ filings' = filings /\ saved' = saved /\ tmp' = tmp /\ lives' = lives
      /\ ring[t] = <<>>
  BY DEF LeaveSink, SinkDone
<1>c. stage \in {"stop_sinks", "joined", "saving", "exited"}
  BY <1>a, StageIs DEF LeaveSink
<1>1. CASE t = "journal"
  <2>1. file' = file \o buffered /\ buffered' = <<>>
    BY <1>1 DEF LeaveSink, Reach
  <2>2. file' \in Seq(Item) /\ buffered' \in Seq(Item) /\ JournalOrdered' /\ Journalled' = Journalled
    BY <2>1, <1>a, <1>b, FlushMoves
  <2>3. InTurn'
    BY <2>1, <1>1, <1>a, <1>b, <1>c DEF InTurn
  <2> QED BY <2>2, <2>3, <1>a, <1>b, LinesMove DEF DaemonType
<1>2. CASE t = "alerts"
  <2>1. file' = file /\ buffered' = buffered
    BY <1>2 DEF LeaveSink
  <2>2. JournalOrdered' /\ Journalled' = Journalled
    BY <2>1, <1>a, <1>b DEF JournalOrdered, Journalled
  <2>3. InTurn'
    BY <2>1, <1>2, <1>a, <1>b, <1>c DEF InTurn
  <2> QED BY <2>1, <2>2, <2>3, <1>a, <1>b, LinesMove DEF DaemonType
<1> QED BY <1>1, <1>2

LEMMA HandleKeeps ==
  ASSUME DaemonIInv, NEW r \in EngineRings, NEW signal \in BOOLEAN, Handle(r, signal)
  PROVE  DaemonIInv'
<1>a. DaemonType /\ InTurn /\ RingsOrdered /\ JournalOrdered /\ JournalOlder /\ StoriesKept /\ FilingsSafe
  BY DEF DaemonIInv
<1>b. PICK p \in Producer : r = RingOf(p)
  BY RingNames
<1>c. PICK s \in Seq(Item), j \in Seq(Item), a \in Seq(Item) : s = ring[r] /\ j = ring["journal"] /\ a = ring["alerts"]
  BY <1>a, <1>b, RingTypes
<1>d. PICK ev, tl : ev = Head(s) /\ tl = Tail(s)
  OBVIOUS
<1>e. PICK recs, sig : recs = Records(ev, signal) /\ sig = (IF signal THEN << <<"signal", ev>> >> ELSE <<>>)
  OBVIOUS
<1>f. PICK t, u : t = Fits(j, recs) /\ u = Fits(a, sig)
  OBVIOUS
<1>g. /\ "engine" \notin ended /\ s # <<>>
      /\ ring' = [ring EXCEPT ![r] = tl, !["journal"] = j \o t, !["alerts"] = a \o u]
      /\ lost' = lost \union (ToSet(recs) \ ToSet(t)) /\ filings \subseteq filings'
      /\ stage' = stage /\ ended' = ended /\ offered' = offered /\ left' = left /\ buffered' = buffered /\ file' = file
      /\ saved' = saved /\ tmp' = tmp /\ lives' = lives
  BY <1>c, <1>d, <1>e, <1>f DEF Handle, Runs
<1>h. /\ ev \in {p} \X Nat /\ ev \in In(s) /\ ev[2] <= offered[p] /\ tl \in Seq(Item) /\ In(s) = {ev} \union In(tl)
      /\ Ordered(tl) /\ \A e \in In(tl) : Before(ev, e) /\ e \in {p} \X Nat
  <2>1. Ordered(s) /\ \A e \in In(s) : e \in {p} \X Nat /\ e[2] <= offered[p]
    BY <1>a, <1>b, <1>c DEF RingsOrdered
  <2> QED BY <2>1, <1>c, <1>d, <1>g, ItemsTail
<1>i. ev[1] = p /\ ev[2] \in Nat /\ ev = <<p, ev[2]>>
  BY <1>h
<1>j. /\ recs \in Seq(Item) /\ Ordered(recs)
      /\ \A x \in In(recs) : (x = <<"story", ev>> /\ p = "net") \/ x = <<"signal", ev>>
      /\ p = "net" => <<"story", ev>> \in In(recs)
  BY <1>e, <1>h, RecordsAre
<1>k. sig \in Seq(Item) /\ Ordered(sig)
  <2>1. <<"signal", ev>> \in Item
    BY <1>h DEF Item, Rec
  <2> QED BY <2>1, <1>e, ItemsOne, NoItems
<1>l. t \in Seq(Item) /\ In(t) \subseteq In(recs) /\ Ordered(t) /\ u \in Seq(Item)
  BY <1>c, <1>f, <1>j, <1>k, FitsIs
<1>m. j \o t \in Seq(Item) /\ a \o u \in Seq(Item)
  BY <1>l, ItemsConcat
<1>n. /\ ring' \in [RingName -> Seq(Item)]
      /\ ring'[RingOf(p)] = tl /\ ring'["journal"] = j \o t
      /\ \A o \in Producer : o # p => ring'[RingOf(o)] = ring[RingOf(o)]
  <2>1. r \in RingName /\ r # "journal" /\ r # "alerts" /\ "journal" \in RingName /\ "alerts" \in RingName
    BY <1>b, RingNames DEF RingName
  <2>2. ring' \in [RingName -> Seq(Item)] /\ ring'[r] = tl /\ ring'["journal"] = j \o t
    BY <2>1, <1>a, <1>g, <1>h, <1>m DEF DaemonType
  <2>3. \A o \in RingName : o # r /\ o # "journal" /\ o # "alerts" => ring'[o] = ring[o]
    BY <2>1, <1>a, <1>g DEF DaemonType
  <2> QED BY <2>2, <2>3, <1>b, RingNames
<1>1. DaemonType'
  BY <1>a, <1>g, <1>n DEF DaemonType
<1>2. InTurn'
  BY <1>a, <1>g DEF InTurn
<1>3. RingsOrdered'
  <2> SUFFICES ASSUME NEW o \in Producer
               PROVE  /\ Ordered(ring'[RingOf(o)])
                      /\ \A e \in In(ring'[RingOf(o)]) : e \in {o} \X Nat /\ e[2] <= offered'[o]
    BY DEF RingsOrdered
  <2>1. CASE o = p
    <3>1. \A e \in In(s) : e[2] <= offered[p]
      BY <1>a, <1>b, <1>c DEF RingsOrdered
    <3> QED BY <2>1, <3>1, <1>g, <1>h, <1>n
  <2>2. CASE o # p
    BY <2>2, <1>a, <1>g, <1>n DEF RingsOrdered
  <2> QED BY <2>1, <2>2
<1>4. JournalOrdered' /\ Journalled' = Journalled \union In(t)
  <2>1. ASSUME NEW x \in Journalled, NEW y \in In(t) PROVE Before(x, y)
    <3>1. Older(x)
      BY <1>a DEF JournalOlder
    <3>2. y[2] = ev /\ ((y[1] = "story" /\ p = "net") \/ y[1] = "signal")
      BY <1>j, <1>l
    <3>3. y[2][1] = p /\ y[2][2] = ev[2]
      BY <3>2, <1>i
    <3>4. ASSUME x[1] # "trade", x[2][1] = p PROVE x[2][2] < ev[2]
      BY <3>1, <3>4, <1>b, <1>c, <1>h DEF Older
    <3>5. x # y
      <4>1. SUFFICES ASSUME x = y PROVE FALSE
        OBVIOUS
      <4>2. x[1] # "trade" /\ x[2][1] = p /\ x[2][2] = ev[2]
        BY <4>1, <3>2, <3>3
      <4> QED BY <4>2, <3>4, <1>i
    <3>6. x[1] = "story" /\ y[1] = "story" => x[2][2] < y[2][2]
      BY <3>1, <3>2, <3>3, <3>4 DEF Older
    <3>7. x[1] \notin Producer
      BY <3>1, RingNames DEF Older, Rec
    <3> QED BY <3>5, <3>6, <3>7 DEF Before
  <2>2. ring'["journal"] = ring["journal"] \o t
    BY <1>c, <1>n
  <2> QED BY <2>1, <2>2, <1>a, <1>g, <1>l, JournalGrows
<1>5. JournalOlder'
  <2> SUFFICES ASSUME NEW x \in Journalled \union In(t) PROVE Older(x)'
    BY <1>4 DEF JournalOlder
  <2>1. CASE x \in Journalled
    <3>1. \A o \in Producer : offered'[o] = offered[o] /\ In(ring'[RingOf(o)]) \subseteq In(ring[RingOf(o)])
      <4>1. In(tl) \subseteq In(ring[RingOf(p)])
        BY <1>b, <1>c, <1>h
      <4>2. \A o \in Producer : o = p \/ o # p
        OBVIOUS
      <4> QED BY <4>1, <1>g, <1>n
    <3>2. Older(x)
      BY <2>1, <1>a DEF JournalOlder
    <3> QED BY <3>1, <3>2, <1>g, OlderKept
  <2>2. CASE x \in In(t)
    <3>1. x = <<x[1], ev>> /\ x[2] = ev /\ ((x[1] = "story" /\ p = "net") \/ x[1] = "signal")
      BY <2>2, <1>j, <1>l
    <3>2. x[2][1] = p /\ x[2][2] = ev[2]
      BY <3>1, <1>i
    <3>3. x \in Rec
      BY <3>1, <1>h DEF Rec
    <3>4. \A e \in In(tl) : ev[2] < e[2]
      <4> SUFFICES ASSUME NEW e \in In(tl) PROVE ev[2] < e[2]
        OBVIOUS
      <4>1. Before(ev, e) /\ e[1] = p /\ ev[1] = p
        BY <1>h, <1>i
      <4> QED BY <4>1 DEF Before
    <3> QED BY <3>1, <3>2, <3>3, <3>4, <1>g, <1>h, <1>n DEF Older
  <2> QED BY <2>1, <2>2
<1>6. StoriesKept'
  <2> SUFFICES ASSUME NEW x \in Stories PROVE Gone(x)' \/ x \in left' \/ x \in In(ring'["news"]) \/ <<"story", x>> \in Journalled'
    BY <1>g DEF StoriesKept, Stories
  <2>1. Gone(x) \/ x \in left \/ x \in In(ring["news"]) \/ <<"story", x>> \in Journalled
    BY <1>a DEF StoriesKept
  <2>2. Gone(x) => Gone(x)'
    BY <1>g DEF Gone
  <2>3. CASE x \in In(ring["news"])
    <3>1. CASE p # "net"
      BY <2>3, <3>1, <1>n, RingNames
    <3>2. CASE p = "net"
      <4>1. x = ev \/ x \in In(ring'["news"])
        BY <2>3, <3>2, <1>b, <1>c, <1>h, <1>n, RingNames
      <4>2. <<"story", ev>> \in ToSet(recs)
        BY <3>2, <1>j, ItemsIn
      <4>3. <<"story", ev>> \in lost' \/ <<"story", ev>> \in In(t)
        BY <4>2, <1>g, <1>l, ItemsIn
      <4> QED BY <4>1, <4>3, <1>4 DEF Gone
    <3> QED BY <3>1, <3>2
  <2> QED BY <2>1, <2>2, <2>3, <1>4, <1>g
<1>7. FilingsSafe'
  BY <1>a, <1>g DEF FilingsSafe, InTurn
<1> QED BY <1>1, <1>2, <1>3, <1>4, <1>5, <1>6, <1>7 DEF DaemonIInv

LEMMA LeaveEngineKeeps ==
  ASSUME DaemonIInv, LeaveEngine
  PROVE  DaemonIInv'
<1>a. DaemonType /\ InTurn /\ RingsOrdered /\ JournalOrdered /\ JournalOlder /\ StoriesKept /\ FilingsSafe
  BY DEF DaemonIInv
<1>b. PICK j \in Seq(Item), life \in Nat : j = ring["journal"] /\ life = lives
  BY <1>a, RingTypes DEF DaemonType
<1>c. PICK x : x = <<"trade", <<"engine", life>> >>
  OBVIOUS
<1>d. PICK t : t = Fits(j, <<x>>)
  OBVIOUS
<1>e. /\ "engine" \notin ended /\ ended' = ended \union {"engine"}
      /\ ring' = [ring EXCEPT !["journal"] = j \o t]
      /\ lost \subseteq lost' /\ left' = left \union UNION {ToSet(ring[r]) : r \in EngineRings}
      /\ stage' = stage /\ offered' = offered /\ buffered' = buffered /\ file' = file
      /\ filings' = filings /\ saved' = saved /\ tmp' = tmp /\ lives' = lives
  BY <1>b, <1>c, <1>d DEF LeaveEngine, Runs
<1>f. stage \notin {"up", "stop_producers"}
  BY <1>a, StageIs DEF LeaveEngine
<1>g. x \in Rec /\ x[1] = "trade" /\ x[2] = <<"engine", life>> /\ x[2][2] = life
  BY <1>c DEF Rec
<1>h. x \in Item
  BY <1>g DEF Item
<1>i. t \in Seq(Item) /\ Ordered(t) /\ In(t) \subseteq {x} /\ j \o t \in Seq(Item)
  <2>1. <<x>> \in Seq(Item) /\ In(<<x>>) = {x} /\ Ordered(<<x>>)
    BY <1>h, ItemsOne
  <2>2. t \in Seq(Item) /\ Ordered(t) /\ In(t) \subseteq {x}
    BY <2>1, <1>d, FitsIs
  <2> QED BY <2>2, ItemsConcat
<1>j. /\ ring' \in [RingName -> Seq(Item)] /\ ring'["journal"] = j \o t
      /\ \A r \in RingName : r # "journal" => ring'[r] = ring[r]
  BY <1>a, <1>e, <1>i DEF DaemonType, RingName
<1>k. (\A p \in Producer : ring'[RingOf(p)] = ring[RingOf(p)]) /\ ring'["news"] = ring["news"]
  BY <1>j, RingNames DEF RingName
<1>1. DaemonType'
  BY <1>a, <1>e, <1>j DEF DaemonType
<1>2. InTurn'
  <2>1. In(ring["news"]) \subseteq left'
    <3>1. ToSet(ring["news"]) = In(ring["news"])
      BY <1>a, RingTypes, ItemsIn
    <3>2. ToSet(ring["news"]) \subseteq UNION {ToSet(ring[r]) : r \in EngineRings}
      BY DEF EngineRings
    <3> QED BY <3>1, <3>2, <1>e
  <2>2. "journal" \notin ended /\ "alerts" \notin ended
    BY <1>a, <1>e DEF InTurn
  <2> QED BY <2>1, <2>2, <1>a, <1>e, <1>f, <1>k DEF InTurn
<1>3. RingsOrdered'
  BY <1>a, <1>e, <1>k DEF RingsOrdered
<1>4. JournalOrdered' /\ Journalled' = Journalled \union In(t)
  <2>1. ASSUME NEW y \in Journalled PROVE Before(y, x)
    <3>1. Older(y)
      BY <1>a DEF JournalOlder
    <3>2. y # x
      BY <3>1, <1>b, <1>e, <1>g DEF Older
    <3>3. x[1] \notin Producer /\ x[1] # "story"
      BY <1>g, RingNames
    <3> QED BY <3>2, <3>3 DEF Before
  <2>2. ring'["journal"] = ring["journal"] \o t
    BY <1>b, <1>j
  <2>3. \A y \in Journalled, z \in In(t) : Before(y, z)
    BY <2>1, <1>i
  <2> QED BY <2>2, <2>3, <1>a, <1>e, <1>i, JournalGrows
<1>5. JournalOlder'
  <2> SUFFICES ASSUME NEW y \in Journalled \union {x} PROVE Older(y)'
    BY <1>4, <1>i DEF JournalOlder
  <2>1. CASE y \in Journalled
    <3>1. Older(y)
      BY <2>1, <1>a DEF JournalOlder
    <3> QED BY <3>1, <1>e, <1>k, OlderKept
  <2>2. CASE y = x
    BY <2>2, <1>b, <1>e, <1>g DEF Older
  <2> QED BY <2>1, <2>2
<1>6. StoriesKept'
  <2> SUFFICES ASSUME NEW y \in Stories PROVE Gone(y)' \/ y \in left' \/ y \in In(ring'["news"]) \/ <<"story", y>> \in Journalled'
    BY <1>e DEF StoriesKept, Stories
  <2>1. Gone(y) \/ y \in left \/ y \in In(ring["news"]) \/ <<"story", y>> \in Journalled
    BY <1>a DEF StoriesKept
  <2>2. Gone(y) => Gone(y)'
    BY <1>e DEF Gone
  <2> QED BY <2>1, <2>2, <1>4, <1>e, <1>k
<1>7. FilingsSafe'
  BY <1>a, <1>e DEF FilingsSafe
<1> QED BY <1>1, <1>2, <1>3, <1>4, <1>5, <1>6, <1>7 DEF DaemonIInv

\* main() goes on to the next stage.
LEMMA AdvanceIs ==
  ASSUME DaemonIInv, Advance
  PROVE  /\ ended' = ended /\ ring' = ring /\ offered' = offered /\ lost' = lost /\ left' = left
         /\ buffered' = buffered /\ file' = file /\ filings' = filings /\ lives' = lives
         /\ \/ stage = "up" /\ stage' = "stop_producers" /\ saved' = saved /\ tmp' = tmp
            \/ stage = "stop_producers" /\ stage' = "stop_engine" /\ saved' = saved /\ tmp' = tmp
            \/ stage = "stop_engine" /\ stage' = "stop_sinks" /\ "engine" \in ended /\ saved' = saved /\ tmp' = tmp
            \/ stage = "stop_sinks" /\ stage' = "joined" /\ {"alerts", "journal"} \subseteq ended /\ saved' = saved /\ tmp' = tmp
            \/ stage = "joined" /\ stage' = "saving" /\ saved' = saved /\ tmp' = filings
            \/ stage = "saving" /\ stage' = "exited" /\ saved' = tmp
<1>1. PICK s \in 1 .. 6 :
        /\ stage = Stage[s] /\ Joins[s] \subseteq ended /\ stage' = Stage[s + 1]
        /\ CASE s = 5 -> TempOrFile [] s = 6 -> saved' = tmp /\ UNCHANGED tmp [] OTHER -> UNCHANGED <<saved, tmp>>
        /\ UNCHANGED <<ended, ring, offered, lost, left, buffered, file, torn, spoilt, filings, dns, dnsRunning, lives>>
  BY StageNames DEF Advance, AtStage
<1>2. Joins[3] = {"engine"} /\ Joins[4] = {"alerts", "journal"}
  BY StageNames DEF Joins
<1>3. s \in {1, 2, 3, 4, 5, 6}
  OBVIOUS
<1>4. CASE s = 1
  BY <1>1, <1>4, StageNames
<1>5. CASE s = 2
  BY <1>1, <1>5, StageNames
<1>6. CASE s = 3
  BY <1>1, <1>2, <1>6, StageNames
<1>7. CASE s = 4
  BY <1>1, <1>2, <1>7, StageNames
<1>8. CASE s = 5
  BY <1>1, <1>8, StageNames DEF TempOrFile
<1>9. CASE s = 6
  BY <1>1, <1>9, StageNames
<1> QED BY <1>3, <1>4, <1>5, <1>6, <1>7, <1>8, <1>9

LEMMA AdvanceKeeps ==
  ASSUME DaemonIInv, Advance
  PROVE  DaemonIInv'
<1>a. DaemonType /\ InTurn /\ RingsOrdered /\ JournalOrdered /\ JournalOlder /\ StoriesKept /\ FilingsSafe
  BY DEF DaemonIInv
<1>1. DaemonType'
  BY <1>a, AdvanceIs DEF DaemonType
<1>2. InTurn'
  <2>1. /\ ended' = ended /\ ring' = ring /\ left' = left /\ buffered' = buffered
    BY AdvanceIs
  <2>2. /\ stage \notin {"up", "stop_producers"} => stage' \notin {"up", "stop_producers"}
        /\ stage \in {"stop_sinks", "joined", "saving", "exited"} => stage' \in {"stop_sinks", "joined", "saving", "exited"}
        /\ stage' \in {"stop_sinks", "joined", "saving", "exited"} => stage \in {"stop_sinks", "joined", "saving", "exited"} \/ "engine" \in ended
        /\ stage' \in {"joined", "saving", "exited"} => stage \in {"joined", "saving", "exited"} \/ {"alerts", "journal"} \subseteq ended
    BY AdvanceIs
  <2> QED BY <2>1, <2>2, <1>a DEF InTurn
<1>3. RingsOrdered' /\ JournalOrdered' /\ StoriesKept' /\ Journalled' = Journalled
  BY <1>a, AdvanceIs DEF RingsOrdered, JournalOrdered, StoriesKept, Stories, Gone, Journalled
<1>4. JournalOlder'
  <2>1. offered' = offered /\ ring' = ring /\ lives' = lives /\ ended' = ended
    BY AdvanceIs
  <2> QED BY <2>1, <1>a, <1>3, OlderKept DEF JournalOlder
<1>5. FilingsSafe'
  BY <1>a, AdvanceIs DEF FilingsSafe
<1> QED BY <1>1, <1>2, <1>3, <1>4, <1>5 DEF DaemonIInv

\* The filings cannot be saved.
LEMMA SaveFailsKeeps ==
  ASSUME DaemonIInv, SaveFails
  PROVE  DaemonIInv'
<1>a. DaemonType /\ InTurn /\ RingsOrdered /\ JournalOrdered /\ JournalOlder /\ StoriesKept /\ FilingsSafe
  BY DEF DaemonIInv
<1>b. /\ stage = "joined" /\ stage' = "exited"
      /\ ended' = ended /\ ring' = ring /\ offered' = offered /\ lost' = lost /\ left' = left
      /\ buffered' = buffered /\ file' = file /\ filings' = filings /\ saved' = saved /\ lives' = lives
  BY StageNames DEF SaveFails, AtStage
<1>1. DaemonType'
  BY <1>a, <1>b DEF DaemonType
<1>2. InTurn'
  BY <1>a, <1>b DEF InTurn
<1>3. RingsOrdered' /\ JournalOrdered' /\ StoriesKept' /\ Journalled' = Journalled
  BY <1>a, <1>b DEF RingsOrdered, JournalOrdered, StoriesKept, Stories, Gone, Journalled
<1>4. JournalOlder'
  BY <1>a, <1>b, <1>3, OlderKept DEF JournalOlder
<1>5. FilingsSafe'
  BY <1>a, <1>b DEF FilingsSafe
<1> QED BY <1>1, <1>2, <1>3, <1>4, <1>5 DEF DaemonIInv

\* A new process, after an orderly end or a crash.
LEMMA RestartKeeps ==
  ASSUME DaemonIInv, Restart
  PROVE  DaemonIInv'
<1>a. DaemonType /\ InTurn /\ RingsOrdered /\ JournalOrdered /\ JournalOlder /\ StoriesKept /\ FilingsSafe
  BY DEF DaemonIInv
<1>b. /\ lives' = lives + 1 /\ stage' = "up" /\ ended' = {} /\ ring' = Empty
      /\ buffered' = <<>> /\ filings' = saved /\ tmp' = {} /\ offered' = offered /\ left' = left /\ saved' = saved
  BY StageNames DEF Restart, AtStage
<1>m. /\ lost \subseteq lost'
      /\ stage # "exited" => ToSet(buffered) \subseteq lost' /\ \A r \in RingName : ToSet(ring[r]) \subseteq lost'
  <2>1. lost' = lost \union (IF AtStage(7) THEN {} ELSE (UNION {ToSet(ring[r]) : r \in DOMAIN ring}) \union ToSet(buffered))
    BY DEF Restart
  <2>2. DOMAIN ring = RingName
    BY <1>a DEF DaemonType
  <2>3. ASSUME NEW r \in RingName, NEW e \in ToSet(ring[r]) PROVE e \in UNION {ToSet(ring[o]) : o \in DOMAIN ring}
    BY <2>2, <2>3, Zenon
  <2>4. AtStage(7) <=> stage = "exited"
    BY StageNames DEF AtStage
  <2>5. stage # "exited" => lost' = lost \union ((UNION {ToSet(ring[r]) : r \in DOMAIN ring}) \union ToSet(buffered))
    BY <2>1, <2>4
  <2>6. lost \subseteq lost'
    BY <2>1
  <2>7. ASSUME stage # "exited", NEW r \in RingName, NEW e \in ToSet(ring[r]) PROVE e \in lost'
    BY <2>3, <2>5, <2>7
  <2>8. stage # "exited" => ToSet(buffered) \subseteq lost'
    BY <2>5
  <2> QED BY <2>6, <2>7, <2>8
<1>c. PICK f \in Seq(Item), b \in Seq(Item) : f = file /\ b = buffered
  BY <1>a DEF DaemonType
<1>d. PICK n \in 0 .. Len(b) : file' = f \o SubSeq(b, 1, n)
  BY <1>c DEF Restart, Reach
<1>e. PICK h : h = SubSeq(b, 1, n)
  OBVIOUS
<1>f. h \in Seq(Item) /\ In(h) \subseteq In(b) /\ Ordered(h)
  <2>1. n \in Int /\ n <= Len(b) /\ Ordered(b)
    <3>1. Len(b) \in Nat
      BY LenProperties
    <3> QED BY <3>1, <1>a, <1>c DEF JournalOrdered
  <2> QED BY <2>1, <1>e, ItemsPrefix
<1>g. f \o h \in Seq(Item) /\ In(f \o h) = In(f) \union In(h) /\ Ordered(f \o h)
  <2>1. Ordered(f) /\ AllBefore(f, h)
    BY <1>a, <1>c, <1>f DEF JournalOrdered, AllBefore
  <2> QED BY <2>1, <1>f, ItemsConcat
<1>h. ring' \in [RingName -> Seq(Item)] /\ \A r \in RingName : ring'[r] = <<>>
  BY <1>b, NoItems DEF Empty, EngineRings, RingName
<1>i. \A r \in RingName : Ordered(ring'[r]) /\ In(ring'[r]) = {}
  BY <1>h, NoItems
<1>j. file' = f \o h
  BY <1>d, <1>e
<1>1. DaemonType'
  BY <1>a, <1>b, <1>g, <1>h, <1>j, NoItems DEF DaemonType
<1>2. InTurn'
  BY <1>b DEF InTurn
<1>3. RingsOrdered'
  BY <1>i, RingNames DEF RingsOrdered
<1>k. In(buffered') = {} /\ Ordered(buffered') /\ In(ring'["journal"]) = {} /\ Ordered(ring'["journal"])
  BY <1>b, <1>i, NoItems DEF RingName
<1>4. JournalOrdered'
  <2>1. Ordered(file')
    BY <1>g, <1>j
  <2>2. AllBefore(file', buffered') /\ AllBefore(file', ring'["journal"]) /\ AllBefore(buffered', ring'["journal"])
    BY <1>k DEF AllBefore
  <2> QED BY <2>1, <2>2, <1>k DEF JournalOrdered
<1>5. In(f) \subseteq Journalled' /\ Journalled' \subseteq Journalled
  <2>1. Journalled' = In(file') \union In(buffered') \union In(ring'["journal"])
    BY DEF Journalled
  <2>2. Journalled' = In(f) \union In(h)
    BY <2>1, <1>g, <1>j, <1>k
  <2> QED BY <2>2, <1>c, <1>f DEF Journalled
<1>6. JournalOlder'
  <2> SUFFICES ASSUME NEW r \in Journalled PROVE Older(r)'
    BY <1>5 DEF JournalOlder
  <2>1. Older(r)
    BY <1>a DEF JournalOlder
  <2>2. \A p \in Producer : In(ring'[RingOf(p)]) = {}
    BY <1>i, RingNames
  <2>3. r[1] = "trade" => r[2][2] <= lives' /\ r[2][2] # lives'
    <3>1. lives \in Nat /\ r[2][2] \in Nat
      BY <2>1, <1>a DEF DaemonType, Older, Rec
    <3>2. r[1] = "trade" => r[2][2] <= lives
      BY <2>1 DEF Older
    <3> QED BY <3>1, <3>2, <1>b
  <2> QED BY <2>1, <2>2, <2>3, <1>b DEF Older
<1>7. StoriesKept'
  <2> SUFFICES ASSUME NEW x \in Stories PROVE Gone(x)' \/ x \in left' \/ x \in In(ring'["news"]) \/ <<"story", x>> \in Journalled'
    BY <1>b DEF StoriesKept, Stories
  <2>1. Gone(x) \/ x \in left \/ x \in In(ring["news"]) \/ <<"story", x>> \in Journalled
    BY <1>a DEF StoriesKept
  <2>2. Gone(x) => Gone(x)'
    BY <1>m DEF Gone
  <2>3. CASE stage = "exited"
    <3>1. In(ring["news"]) \subseteq left /\ ring["journal"] = <<>> /\ buffered = <<>>
      BY <2>3, <1>a DEF InTurn
    <3>2. In(ring["journal"]) = {} /\ In(buffered) = {}
      BY <3>1, NoItems
    <3>3. Journalled = In(f)
      BY <3>2, <1>c DEF Journalled
    <3> QED BY <3>1, <3>3, <2>1, <2>2, <1>5, <1>b
  <2>4. CASE stage # "exited"
    <3>2. ToSet(ring["news"]) \subseteq lost' /\ ToSet(ring["journal"]) \subseteq lost' /\ ToSet(buffered) \subseteq lost'
      BY <2>4, <1>m DEF RingName
    <3>3. In(ring["news"]) \subseteq lost' /\ In(ring["journal"]) \subseteq lost' /\ In(buffered) \subseteq lost'
      BY <3>2, <1>a, RingTypes, ItemsIn DEF DaemonType
    <3>4. <<"story", x>> \in Journalled => <<"story", x>> \in In(f) \/ <<"story", x>> \in lost'
      BY <3>3, <1>c DEF Journalled
    <3> QED BY <3>3, <3>4, <2>1, <2>2, <1>5, <1>b DEF Gone
  <2> QED BY <2>3, <2>4
<1>8. FilingsSafe'
  BY <1>b DEF FilingsSafe
<1> QED BY <1>1, <1>2, <1>3, <1>4, <1>6, <1>7, <1>8 DEF DaemonIInv

LEMMA DaemonStepKeeps ==
  ASSUME DaemonIInv, [DaemonNext]_daemonVars
  PROVE  DaemonIInv'
  BY QuietDaemon, OfferKeeps, HandleKeeps, LeaveEngineKeeps, DeliverAlertKeeps, WriteKeeps, FlushKeeps, LeaveSinkKeeps,
     AdvanceKeeps, SaveFailsKeeps, RestartKeeps DEF DaemonNext

\* What the proofs about the daemon rest on, in every reachable state: the
\* rings, stdio's buffer and the file are in order behind one another, every
\* story is somewhere, and nobody has ended before its turn (stokd.cpp's
\* shutdown, Engine::run, Journal::run).
THEOREM DaemonInductive == DaemonSpec => []DaemonIInv
<1>1. DaemonInit => DaemonIInv
  BY DaemonStart
<1>2. DaemonIInv /\ [DaemonNext]_daemonVars => DaemonIInv'
  BY DaemonStepKeeps
<1> QED BY <1>1, <1>2, PTL DEF DaemonSpec

\* A line can still be spoilt in this life only in a file where none was.
SpoiltSoFar ==
  /\ lives \in Nat /\ TornOnce
  /\ \A x \in spoilt : x[1] \in Nat /\ x[1] <= lives /\ (x[1] = lives => x[2][1] \notin torn)

\* What reaching lines spoil: one of a kind, and of no kind of which one was.
LEMMA ReachSpoils ==
  ASSUME SpoiltSoFar, NEW recs, Len(recs) \in Nat, Reach(recs)
  PROVE  /\ \A x, y \in spoilt' : x[1] = y[1] /\ x[2][1] = y[2][1] => x = y
         /\ \A x \in spoilt' : x[1] \in Nat /\ x[1] <= lives /\ (x[1] = lives => x[2][1] \notin torn \ Kinds(recs))
<1> DEFINE S == {k \in 1 .. Len(recs) : recs[k][1] \in torn /\ First(recs, k)}
           New == {<<lives, recs[i]>> : i \in S}
<1>1. spoilt' = spoilt \union New
  BY DEF Reach
<1>2. ASSUME NEW x \in New
      PROVE  x[1] = lives /\ x[2][1] \in torn /\ x[2][1] \in Kinds(recs)
  BY DEF Kinds
<1>3. ASSUME NEW x \in New, NEW y \in New, x[2][1] = y[2][1] PROVE x = y
  <2>1. PICK i \in S, j \in S : x = <<lives, recs[i]>> /\ y = <<lives, recs[j]>>
    OBVIOUS
  <2>2. recs[i][1] = recs[j][1]
    BY <1>3, <2>1
  <2>3. i = j
    BY <2>1, <2>2 DEF First
  <2> QED BY <2>1, <2>3
<1>4. ASSUME NEW x \in spoilt, NEW y \in New, x[1] = y[1] PROVE x[2][1] # y[2][1]
  BY <1>2, <1>4 DEF SpoiltSoFar
<1>5. \A x \in spoilt' : x[1] \in Nat /\ x[1] <= lives /\ (x[1] = lives => x[2][1] \notin torn \ Kinds(recs))
  BY <1>1, <1>2 DEF SpoiltSoFar
<1>6. ASSUME NEW x \in spoilt', NEW y \in spoilt', x[1] = y[1], x[2][1] = y[2][1] PROVE x = y
  <2>1. CASE x \in spoilt /\ y \in spoilt
    BY <2>1, <1>6 DEF SpoiltSoFar, TornOnce
  <2>2. CASE x \in New /\ y \in New
    BY <2>2, <1>3, <1>6
  <2>3. CASE x \in spoilt /\ y \in New
    BY <2>3, <1>4, <1>6
  <2>4. CASE x \in New /\ y \in spoilt
    BY <2>4, <1>4, <1>6
  <2> QED BY <1>1, <2>1, <2>2, <2>3, <2>4
<1> QED BY <1>5, <1>6

\* Whatever crashes leave in the journal's files, two lines of a kind are spoilt
\* in different lives only (journal.cpp:105, the append mode of file_for()).
THEOREM CrashSpoilsOneLine == DaemonSpec => []TornOnce
<1>1. DaemonInit => SpoiltSoFar
  BY DEF DaemonInit, SpoiltSoFar, TornOnce
<1>2. ASSUME SpoiltSoFar, DaemonType, [DaemonNext]_daemonVars PROVE SpoiltSoFar'
  <2>a. Len(buffered) \in Nat
    BY <1>2, LenProperties DEF DaemonType
  <2>1. CASE spoilt' = spoilt /\ torn' = torn /\ lives' = lives
    BY <2>1, <1>2 DEF SpoiltSoFar, TornOnce
  <2>2. CASE Reach(buffered) /\ torn' = torn \ Kinds(buffered) /\ lives' = lives
    BY <2>2, <2>a, <1>2, ReachSpoils DEF SpoiltSoFar, TornOnce
  <2>3. CASE Restart
    <3>1. PICK n \in 0 .. Len(buffered) : Reach(SubSeq(buffered, 1, n))
      BY <2>3 DEF Restart
    <3>2. Len(SubSeq(buffered, 1, n)) \in Nat
      BY <1>2, <2>a, SubSeqProperties DEF DaemonType
    <3>3. /\ \A x, y \in spoilt' : x[1] = y[1] /\ x[2][1] = y[2][1] => x = y
          /\ \A x \in spoilt' : x[1] \in Nat /\ x[1] <= lives
      BY <3>1, <3>2, <1>2, ReachSpoils
    <3>4. lives' = lives + 1
      BY <2>3 DEF Restart
    <3> QED BY <3>3, <3>4, <1>2 DEF SpoiltSoFar, TornOnce
  <2>4. CASE Flush
    BY <2>4, <2>2 DEF Flush, TornAfter
  <2>5. ASSUME NEW t \in {"alerts", "journal"}, LeaveSink(t) PROVE SpoiltSoFar'
    BY <2>5, <2>1, <2>2 DEF LeaveSink, TornAfter
  <2>6. CASE DaemonNext /\ ~ Restart /\ ~ Flush /\ ~ \E t \in {"alerts", "journal"} : LeaveSink(t)
    <3>1. spoilt' = spoilt /\ torn' = torn /\ lives' = lives
      BY <2>6 DEF DaemonNext, Offer, LeaveProducer, ResolverStop, DnsStep, Handle, LeaveEngine, DeliverAlert, Write,
                  Advance, SaveFails
    <3> QED BY <3>1, <2>1
  <2>7. CASE UNCHANGED daemonVars
    BY <2>7, <2>1 DEF daemonVars
  <2> QED BY <1>2, <2>3, <2>4, <2>5, <2>6, <2>7
<1>3. DaemonIInv => DaemonType
  BY DEF DaemonIInv
<1>4. SpoiltSoFar => TornOnce
  BY DEF SpoiltSoFar
<1> QED BY <1>1, <1>2, <1>3, <1>4, DaemonInductive, PTL DEF DaemonSpec

\* For any size of the rings, any number of events and of lives: after an
\* orderly end nothing is lost behind the engine, and over crashes and restarts
\* the journal has no record twice, the stories in order, and one line of a
\* kind spoilt in a life at most (engine.cpp:631, journal.cpp:105, 334).
THEOREM JournalIsKept == DaemonSpec => []JournalInv
<1>1. ASSUME DaemonIInv, TornOnce PROVE JournalInv
  <2>a. DaemonType /\ InTurn /\ JournalOrdered /\ StoriesKept
    BY <1>1 DEF DaemonIInv
  <2>b. file \in Seq(Item) /\ ToSet(file) = In(file) /\ DOMAIN file = 1 .. Len(file)
    BY <2>a, ItemsIn, LenProperties DEF DaemonType
  <2>1. ASSUME AtStage(7)
        PROVE  /\ \A ev \in Stories : Gone(ev) \/ ev \in left \/ <<"story", ev>> \in ToSet(file)
               /\ ring["journal"] = <<>> /\ ring["alerts"] = <<>> /\ buffered = <<>>
    <3>1. stage = "exited"
      BY <2>1, StageNames DEF AtStage
    <3>2. /\ In(ring["news"]) \subseteq left
          /\ ring["journal"] = <<>> /\ ring["alerts"] = <<>> /\ buffered = <<>>
      BY <3>1, <2>a DEF InTurn
    <3>3. Journalled = In(file)
      BY <3>2, NoItems DEF Journalled
    <3> QED BY <3>2, <3>3, <2>a, <2>b DEF StoriesKept
  <2>2. JournalInOrder
    BY <2>a, <2>b DEF JournalInOrder, JournalOrdered, Ordered, Before
  <2> QED BY <2>1, <2>2, <1>1 DEF JournalInv, ShutdownComplete
<1> QED BY <1>1, DaemonInductive, CrashSpoilsOneLine, PTL

\* The saved filings never lose one, wherever a crash or a failure falls between
\* the temporary file and the rename, which adds those of this life
\* (the last steps of main() in stokd.cpp, write_file_atomic()).
THEOREM FilingsNotLost == DaemonSpec => FilingsKept
<1>1. ASSUME DaemonIInv, DaemonIInv', [DaemonNext]_daemonVars
      PROVE  [saved \subseteq saved' /\ (AtStage(6) /\ AtStage(7)' => filings \subseteq saved')]_daemonVars
  <2>a. FilingsSafe /\ FilingsSafe'
    BY <1>1 DEF DaemonIInv
  <2>1. CASE Advance
    BY <2>1, <2>a, <1>1, AdvanceIs, StageNames DEF FilingsSafe, AtStage
  <2>2. CASE Restart
    BY <2>2, StageNames DEF Restart, AtStage
  <2>4. CASE SaveFails
    BY <2>4, StageNames DEF SaveFails, AtStage
  <2>3. CASE DaemonNext /\ ~ Advance /\ ~ SaveFails /\ ~ Restart
    <3>1. saved' = saved /\ stage' = stage
      BY <2>3 DEF DaemonNext, Offer, LeaveProducer, ResolverStop, DnsStep, Handle, LeaveEngine, DeliverAlert, Write,
                  Flush, LeaveSink
    <3> QED BY <3>1, StageNames DEF AtStage
  <2> QED BY <2>1, <2>2, <2>3, <2>4, <1>1
<1>2. DaemonSpec => [][DaemonNext]_daemonVars
  BY DEF DaemonSpec
<1> QED BY <1>1, <1>2, DaemonInductive, PTL DEF FilingsKept

-----------------------------------------------------------------------------
(* The retry of the blocking HTTP client *)

\* Attempts are counted as they are written; an answer was heard in the last
\* one only, and first_byte remembers it for as long as the call waits.
RetryIInv ==
  /\ attempt \in {0, 1} /\ written \subseteq 0 .. attempt /\ heard \subseteq {attempt}
  /\ pc \in {"idle", "check", "connect", "send", "wait"}
  /\ pc \in {"check", "connect", "send"} => heard = {}
  /\ pc = "wait" /\ heard # {} => first_byte

\* Nothing that happens on the socket while a call waits forgets a first byte.
LEMMA FirstByteKept ==
  ASSUME Pumped, first_byte
  PROVE  first_byte'
<1>1. CASE Fail
  BY <1>1 DEF Fail, fail
<1>2. CASE finish_connect \/ do_handshake
  <2>1. Fail \/ UNCHANGED <<fd_, tls_, wpos_, rbuf_, parser_, idle_close_, first_byte, used>>
    BY <1>2, Zenon DEF finish_connect, do_handshake
  <2>2. CASE UNCHANGED <<fd_, tls_, wpos_, rbuf_, parser_, idle_close_, first_byte, used>>
    BY <2>2
  <2> QED
    BY <1>1, <2>1, <2>2, Zenon
<1>3. CASE do_read
  BY <1>3 DEF do_read, fail
<1>4. CASE UNCHANGED <<fd_, tls_, rbuf_, parser_, idle_close_, first_byte, used>>
  BY <1>4
<1> QED
  BY <1>1, <1>2, <1>3, <1>4 DEF Pumped, on_events, check_timeout, drain_idle

LEMMA RetryInit == ClientInit => RetryIInv
  BY DEF ClientInit, RetryIInv

LEMMA RetryStep == RetryIInv /\ [ClientNext]_clientVars => RetryIInv'
<1> SUFFICES ASSUME RetryIInv, [ClientNext]_clientVars PROVE RetryIInv'
  OBVIOUS
<1>a. /\ attempt \in {0, 1} /\ written \subseteq 0 .. attempt /\ heard \subseteq {attempt}
      /\ pc \in {"idle", "check", "connect", "send", "wait"}
      /\ pc \in {"check", "connect", "send"} => heard = {}
      /\ pc = "wait" /\ heard # {} => first_byte
  BY DEF RetryIInv
<1>1. CASE UNCHANGED clientVars
  BY <1>1 DEF RetryIInv, clientVars, client, connection
<1>2. CASE Call
  BY <1>2 DEF RetryIInv, Call
<1>3. CASE TimePasses \/ Server \/ Network
  <2>1. UNCHANGED <<pc, attempt, written, heard, first_byte>>
    BY <1>3 DEF TimePasses, Server, Network, Answer, Deliver, ServerCloses, client, connection
  <2> QED
    BY <2>1 DEF RetryIInv
<1>4. CASE ReuseChecked \/ Reuse \/ Reconnect \/ Connecting \/ Connected
  <2>1. /\ pc \in {"check", "connect"} /\ pc' \in {"check", "connect", "send"} /\ UNCHANGED <<attempt, written, heard>>
    BY <1>4 DEF ReuseChecked, Reuse, Reconnect, Connecting, Connected, client
  <2> QED
    BY <1>a, <2>1 DEF RetryIInv
<1>5. CASE NoConnect \/ ConnectFailed \/ Respond
  <2>1. pc' = "idle" /\ UNCHANGED <<attempt, written, heard>>
    BY <1>5 DEF NoConnect, ConnectFailed, Respond, Return
  <2> QED
    BY <1>a, <2>1 DEF RetryIInv
<1>6. CASE Send
  <2>1. /\ pc = "send" /\ pc' = "wait" /\ attempt' = attempt
        /\ written' \subseteq written \cup {attempt} /\ heard' = heard
    BY <1>6 DEF Send, Trace
  <2>2. written' \subseteq 0 .. attempt' /\ heard' = {}
    BY <1>a, <2>1
  <2> QED
    BY <1>a, <2>1, <2>2 DEF RetryIInv
<1>7. CASE SendFailed
  <2>1. pc = "send" /\ UNCHANGED <<written, heard>>
    BY <1>7 DEF SendFailed
  <2>2. \/ attempt = 0 /\ attempt' = 1 /\ pc' = "check"
        \/ attempt' = attempt /\ pc' = "idle"
    BY <1>7 DEF SendFailed, Again, Return
  <2>3. heard' \subseteq {attempt'} /\ written' \subseteq 0 .. attempt'
    BY <1>a, <2>1, <2>2
  <2> QED
    BY <1>a, <2>1, <2>2, <2>3 DEF RetryIInv
<1>8. CASE Wait \/ Lost
  <2>1. pc = "wait" /\ Pumped /\ Trace
    BY <1>8 DEF Wait, Lost
  <2>2. written' \subseteq written \cup {attempt}
    BY <2>1 DEF Trace
  <2>3. heard' \subseteq heard \cup {attempt} /\ (heard' # {} => first_byte')
    <3>1. CASE first_byte'
      BY <2>1, <3>1 DEF Trace
    <3>2. CASE ~ first_byte'
      <4>1. heard' = heard
        BY <2>1, <3>2, Zenon DEF Trace
      <4>2. heard = {}
        BY <1>a, <2>1, <3>2, FirstByteKept
      <4> QED
        BY <4>1, <4>2
    <3> QED
      BY <3>1, <3>2
  <2>4. \/ attempt' = attempt /\ pc' \in {"wait", "idle"}
        \/ attempt = 0 /\ attempt' = 1 /\ pc' = "check" /\ ~ first_byte'
    BY <1>8, <2>1 DEF Wait, Lost, Retry, Again, Return
  <2>5. written' \subseteq 0 .. attempt'
    BY <1>a, <2>2, <2>4
  <2>6. heard' \subseteq {attempt'} /\ (pc' = "check" => heard' = {})
    BY <1>a, <2>3, <2>4
  <2> QED
    BY <1>a, <2>3, <2>4, <2>5, <2>6 DEF RetryIInv
<1>9. CASE TooLate
  <2>1. pc = "wait" /\ UNCHANGED <<written, heard>>
    BY <1>9 DEF TooLate
  <2>2. \/ attempt = 0 /\ attempt' = 1 /\ pc' = "check" /\ ~ first_byte
        \/ attempt' = attempt /\ pc' = "idle"
    BY <1>9 DEF TooLate, Again, Return
  <2>3. written' \subseteq 0 .. attempt'
    BY <1>a, <2>1, <2>2
  <2>4. heard' \subseteq {attempt'} /\ (pc' = "check" => heard' = {})
    BY <1>a, <2>1, <2>2
  <2> QED
    BY <1>a, <2>2, <2>3, <2>4 DEF RetryIInv
<1> QED
  BY <1>1, <1>2, <1>3, <1>4, <1>5, <1>6, <1>7, <1>8, <1>9 DEF ClientNext, Request

\* "retry once on a new connection" (http_client.cpp:119), whatever server and
\* network do: a request is written at most twice, and once a byte of an answer
\* has come it is not written again.
THEOREM RetriedOnlyUnanswered == ClientSpec => []ResentOnlyUnanswered
<1>1. ClientSpec => []RetryIInv
  BY RetryInit, RetryStep, PTL DEF ClientSpec
<1>2. RetryIInv => ResentOnlyUnanswered
  <2> SUFFICES ASSUME RetryIInv PROVE ResentOnlyUnanswered
    OBVIOUS
  <2>1. attempt \in {0, 1} /\ written \subseteq 0 .. attempt /\ heard \subseteq {attempt}
    BY DEF RetryIInv
  <2>2. Cardinality(written) <= 2
    <3>1. IsFiniteSet(0 .. attempt) /\ Cardinality(0 .. attempt) = attempt + 1
      BY <2>1, FS_Interval
    <3>2. Cardinality(written) <= Cardinality(0 .. attempt)
      BY <2>1, <3>1, FS_Subset
    <3>3. IsFiniteSet(written) /\ Cardinality(written) \in Nat
      BY <2>1, <3>1, FS_Subset, FS_CardinalityType
    <3> QED
      BY <2>1, <3>1, <3>2, <3>3
  <2>3. \A a \in written, b \in heard : a <= b
    BY <2>1
  <2> QED
    BY <2>2, <2>3 DEF ResentOnlyUnanswered
<1> QED
  BY <1>1, <1>2, PTL

-----------------------------------------------------------------------------
(* The wake-ups of the consumer threads *)

USE NAssumption, MaxItemsAssumption DEF Ring

\* The youngest store of a buffer, when one is added and when the oldest goes.
LEMMA LastOfAppend ==
  ASSUME NEW S, NEW b \in Seq(S), NEW e \in S
  PROVE  Append(b, e) # <<>> /\ Append(b, e)[Len(Append(b, e))] = e
OBVIOUS

LEMMA LastOfTail ==
  ASSUME NEW S, NEW b \in Seq(S), b # <<>>
  PROVE  IF Tail(b) = <<>> THEN Head(b) = b[Len(b)] ELSE Tail(b)[Len(Tail(b))] = b[Len(b)]
<1> DEFINE n == Len(b)
<1>1. n \in Nat /\ n # 0 /\ Head(b) = b[1]
  BY EmptySeq, HeadTailProperties
<1>2. Tail(b) \in Seq(S) /\ Len(Tail(b)) = n - 1 /\ \A i \in 1 .. n - 1 : Tail(b)[i] = b[i + 1]
  <2>1. Len(Tail(b)) = n - 1 /\ Tail(b) \in Seq(S)
    BY HeadTailProperties
  <2> QED BY <2>1, HeadTailProperties
<1> HIDE DEF n
<1>3. Tail(b) = <<>> <=> n = 1
  <2>1. Tail(b) = <<>> <=> Len(Tail(b)) = 0
    BY <1>2, EmptySeq
  <2> QED BY <1>1, <1>2, <2>1
<1>4. CASE n = 1
  BY <1>1, <1>3, <1>4 DEF n
<1>5. CASE n # 1
  <2>1. n - 1 \in 1 .. n - 1 /\ (n - 1) + 1 = n
    BY <1>1, <1>5
  <2>2. Tail(b)[n - 1] = b[n]
    BY <1>2, <2>1
  <2> QED BY <1>2, <1>3, <1>5, <2>2 DEF n
<1> QED BY <1>4, <1>5

LEMMA WakerStarts == WakerInit => WakerIInv
<1> SUFFICES ASSUME WakerInit PROVE WakerIInv
  OBVIOUS
<1>1. RingType
  BY DEF WakerInit, RingType, ProducerAt
<1>2. LoopType
  BY DEF WakerInit, LoopType, ConsumerAt
<1>3. FlagType
  BY DEF WakerInit, FlagType
<1>5. BufferType
  BY DEF WakerInit, BufferType
<1>4. Indices /\ Flushed /\ Announced /\ Followed
  BY DEF WakerInit, Indices, Flushed, Announced, Followed, Relied
<1> QED BY <1>1, <1>2, <1>3, <1>4, <1>5 DEF WakerIInv, WakerTypeOK

\* A producer's step only adds wake-ups.
LEMMA ProducerStep ==
  ASSUME WakerIInv, NEW r \in Ring, Publish(r) \/ Notify(r)
  PROVE  WakerIInv'
<1> USE DEF WakerIInv, WakerTypeOK, sleepVars, stopVars
<1>a. /\ tail' = tail /\ UNCHANGED <<consumer, at, did, sleeping, buffer, stop, main>>
      /\ signalled => signalled'
  <2>1. CASE Publish(r) \/ HeadVisible(r) \/ NotifyFence(r) \/ NotifyLoad(r)
    BY <2>1 DEF Publish, HeadVisible, NotifyFence, NotifyLoad
  <2>2. CASE NotifyWrite(r)
    BY <2>2 DEF NotifyWrite
  <2> QED BY <2>1, <2>2 DEF Notify
<1>1. LoopType' /\ BufferType' /\ Announced'
  BY <1>a DEF LoopType, BufferType, Announced, ConsumerAt
<1>2. FlagType'
  BY <1>a DEF FlagType, Publish, Notify, HeadVisible, NotifyFence, NotifyLoad, NotifyWrite
<1>3. CASE Publish(r)
  <2>1. /\ pub' = [pub EXCEPT ![r] = pub[r] + 1] /\ head' = head /\ tail' = tail
        /\ producer' = [producer EXCEPT ![r] = "published"] /\ pub[r] < MaxItems /\ UNCHANGED <<consumer, at, signalled>>
    BY <1>3 DEF Publish
  <2>2. RingType' /\ Indices'
    BY <2>1 DEF RingType, Indices, ProducerAt
  <2>3. Flushed' /\ Followed'
    BY <2>1 DEF RingType, Flushed, Followed, Relied
  <2> QED BY <1>1, <1>2, <2>2, <2>3
<1>4. CASE HeadVisible(r)
  <2>1. /\ head' = [head EXCEPT ![r] = head[r] + 1] /\ head[r] < pub[r]
        /\ UNCHANGED <<pub, tail, producer, consumer, at, signalled>>
    BY <1>4 DEF HeadVisible
  <2>2. RingType' /\ Indices'
    BY <2>1 DEF RingType, Indices
  <2>3. producer[r] = "published"
    BY <2>1 DEF Flushed, RingType
  <2>4. Flushed' /\ Followed'
    BY <2>1, <2>3 DEF RingType, Flushed, Followed, Relied
  <2> QED BY <1>1, <1>2, <2>2, <2>4
<1>5. CASE NotifyFence(r)
  <2>1. /\ producer' = [producer EXCEPT ![r] = "fenced"] /\ head[r] = pub[r]
        /\ UNCHANGED <<pub, head, tail, consumer, at, signalled>>
    BY <1>5 DEF NotifyFence
  <2>2. RingType' /\ Indices'
    BY <2>1 DEF RingType, Indices, ProducerAt
  <2>3. Flushed' /\ Followed'
    BY <2>1 DEF RingType, Flushed, Followed, Relied
  <2> QED BY <1>1, <1>2, <2>2, <2>3
<1>6. CASE NotifyLoad(r)
  <2>1. /\ producer' = [producer EXCEPT ![r] = IF sleeping THEN "waking" ELSE "idle"] /\ producer[r] = "fenced"
        /\ UNCHANGED <<pub, head, tail, consumer, at, signalled>>
    BY <1>6 DEF NotifyLoad
  <2>2. RingType' /\ Indices'
    BY <2>1 DEF RingType, Indices, ProducerAt
  <2>3. Flushed'
    BY <2>1 DEF RingType, Flushed
  <2>4. Followed'
    <3>1. \A o \in Ring : Relied(o) => sleeping
      BY DEF Relied, Announced
    <3> QED BY <2>1, <3>1 DEF RingType, Followed, Relied
  <2> QED BY <1>1, <1>2, <2>2, <2>3, <2>4
<1>7. CASE NotifyWrite(r)
  <2>1. /\ producer' = [producer EXCEPT ![r] = "idle"] /\ signalled' = TRUE /\ producer[r] = "waking"
        /\ UNCHANGED <<pub, head, tail, consumer, at>>
    BY <1>7 DEF NotifyWrite
  <2>2. RingType' /\ Indices'
    BY <2>1 DEF RingType, Indices, ProducerAt
  <2>3. Flushed' /\ Followed'
    BY <2>1 DEF RingType, Flushed, Followed
  <2> QED BY <1>1, <1>2, <2>2, <2>3
<1> QED BY <1>3, <1>4, <1>5, <1>6, <1>7 DEF Notify

LEMMA StopStep ==
  ASSUME WakerIInv, Stop
  PROVE  WakerIInv'
<1> USE DEF WakerIInv, sleepVars, ringVars, Stop, JoinProducers, SetStop, StopLoad, StopWrite, Notified
<1>1. WakerTypeOK'
  BY DEF WakerTypeOK, RingType, LoopType, FlagType, BufferType, ConsumerAt
<1>2. Indices' /\ Flushed' /\ Announced'
  BY DEF Indices, Flushed, Announced
<1>3. Followed'
  BY DEF Followed, Relied
<1> QED BY <1>1, <1>2, <1>3

\* The consumer relies on a ring's emptiness only after it has seen it empty,
\* with its announcement visible.
LEMMA ConsumerStep ==
  ASSUME WakerIInv, Loop \/ SleepingVisible \/ Timeout
  PROVE  WakerIInv'
<1> USE DEF WakerIInv, sleepVars, ringVars, stopVars, Goto
<1>1. WakerTypeOK' /\ Indices'
  <2> USE DEF WakerTypeOK
  <2>1. RingType' /\ Indices'
    <3>1. CASE Take
      <4>1. tail' = [tail EXCEPT ![at] = tail[at] + 1] /\ tail[at] < head[at] /\ at \in Ring /\ UNCHANGED <<pub, head, producer>>
        BY <3>1 DEF Take
      <4>2. tail[at] + 1 \in 0 .. MaxItems /\ tail[at] + 1 <= head[at]
        BY <4>1 DEF RingType
      <4> QED BY <4>1, <4>2 DEF RingType, Indices
    <3>2. CASE ~ Take
      <4>1. UNCHANGED <<pub, head, tail, producer>>
        BY <3>2 DEF Loop, LoopTop, SkipEmpty, DrainEnd, Announce, WaitFence, CheckRing, Block, Wake,
                    Retract, Clear, SleepingVisible, Timeout
      <4> QED BY <4>1 DEF RingType, Indices
    <3> QED BY <3>1, <3>2
  <2>2. LoopType'
    <3>1. CASE SkipEmpty \/ CheckRing
      BY <3>1 DEF LoopType, ConsumerAt, SkipEmpty, CheckRing
    <3>2. CASE Take \/ SleepingVisible
      BY <3>2 DEF LoopType, ConsumerAt, Take, SleepingVisible
    <3>3. CASE LoopTop \/ DrainEnd
      BY <3>3 DEF LoopType, ConsumerAt, LoopTop, DrainEnd
    <3>4. CASE Announce \/ WaitFence \/ Block \/ Wake \/ Retract \/ Clear \/ Timeout
      <4>1. at' = 1 /\ consumer' \in ConsumerAt
        BY <3>4 DEF ConsumerAt, Announce, WaitFence, Block, Wake, Retract, Clear, Timeout
      <4> QED BY <4>1 DEF LoopType
    <3> QED BY <3>1, <3>2, <3>3, <3>4 DEF Loop
  <2>3. BufferType' /\ FlagType'
    <3>1. CASE Announce
      BY <3>1 DEF Announce, BufferType, FlagType
    <3>2. CASE Retract
      BY <3>2 DEF Retract, BufferType, FlagType
    <3>3. CASE SleepingVisible
      <4>1. Head(buffer) \in BOOLEAN /\ Tail(buffer) \in Seq(BOOLEAN)
        BY <3>3 DEF SleepingVisible, BufferType
      <4> QED BY <3>3, <4>1 DEF SleepingVisible, BufferType, FlagType
    <3>4. CASE ~ (Announce \/ Retract \/ SleepingVisible)
      BY <3>4 DEF Loop, LoopTop, Take, SkipEmpty, DrainEnd, WaitFence, CheckRing, Block, Wake, Clear, Timeout,
                  BufferType, FlagType
    <3> QED BY <3>1, <3>2, <3>3, <3>4
  <2> QED BY <2>1, <2>2, <2>3
<1>2. Flushed'
  BY DEF Flushed, Loop, LoopTop, Take, SkipEmpty, DrainEnd, Announce, WaitFence, CheckRing, Block, Wake,
         Retract, Clear, SleepingVisible, Timeout
<1>3. Announced' /\ Followed'
  <2>1. CASE consumer' \notin {"fence", "check", "blocked"}
    BY <2>1 DEF Announced, Followed, Relied
  <2>2. CASE WaitFence
    <3>1. consumer = "fence" /\ buffer = <<>> /\ at' = 1 /\ consumer' = "check" /\ UNCHANGED <<sleeping, buffer>>
      BY <2>2 DEF WaitFence
    <3>2. Announced'
      BY <3>1 DEF Announced
    <3>3. Followed'
      BY <3>1 DEF Followed, Relied
    <3> QED BY <3>2, <3>3
  <2>3. CASE CheckRing
    <3>1. Announced'
      BY <2>3 DEF CheckRing, Announced
    <3>2. Followed'
      BY <2>3 DEF CheckRing, Followed, Relied, WakerTypeOK, RingType, LoopType
    <3> QED BY <3>1, <3>2
  <2>4. CASE Block
    BY <2>4 DEF Block, Announced, Followed, Relied
  <2>5. CASE SleepingVisible
    <3>1. /\ buffer # <<>> /\ sleeping' = Head(buffer) /\ buffer' = Tail(buffer)
          /\ UNCHANGED <<consumer, at, head, tail, producer, signalled>> /\ buffer \in Seq(BOOLEAN)
      BY <2>5 DEF SleepingVisible, WakerTypeOK, BufferType
    <3>2. IF buffer' = <<>> THEN sleeping' = buffer[Len(buffer)] ELSE buffer'[Len(buffer')] = buffer[Len(buffer)]
      BY <3>1, LastOfTail, Zenon
    <3>3. Announced'
      BY <3>1, <3>2 DEF Announced
    <3>4. Followed'
      BY <3>1 DEF Followed, Relied
    <3> QED BY <3>3, <3>4
  <2>7. CASE Announce
    <3>1. consumer' = "fence" /\ buffer' = Append(buffer, TRUE) /\ buffer \in Seq(BOOLEAN)
      BY <2>7 DEF Announce, WakerTypeOK, BufferType
    <3>2. buffer' # <<>> /\ buffer'[Len(buffer')] = TRUE
      <4>1. TRUE \in BOOLEAN
        OBVIOUS
      <4> QED BY <3>1, <4>1, LastOfAppend, Zenon
    <3> QED BY <3>1, <3>2 DEF Announced, Followed, Relied
  <2>6. CASE LoopTop \/ Take \/ SkipEmpty \/ DrainEnd \/ Wake \/ Retract \/ Clear \/ Timeout
    <3>1. consumer' \notin {"fence", "check", "blocked"}
      BY <2>6 DEF LoopTop, Take, SkipEmpty, DrainEnd, Wake, Retract, Clear, Timeout
    <3> QED BY <2>1, <3>1
  <2> QED BY <2>2, <2>3, <2>4, <2>5, <2>6, <2>7 DEF Loop
<1> QED BY <1>1, <1>2, <1>3

THEOREM WakerInductive == WakerSpec => []WakerIInv
<1>1. WakerIInv /\ [WakerNext]_wakerVars => WakerIInv'
  <2> SUFFICES ASSUME WakerIInv, [WakerNext]_wakerVars PROVE WakerIInv'
    OBVIOUS
  <2>1. CASE WakerNext
    BY <2>1, ProducerStep, StopStep, ConsumerStep DEF WakerNext
  <2>2. CASE UNCHANGED wakerVars
    BY <2>2 DEF wakerVars, WakerIInv, WakerTypeOK, RingType, LoopType, FlagType, BufferType, ProducerAt, ConsumerAt, Indices, Flushed, Announced, Followed, Relied
  <2> QED BY <2>1, <2>2
<1> QED BY <1>1, WakerStarts, PTL DEF WakerSpec

\* The consumer is never left blocked with an event in a ring and nobody about
\* to wake it: the fences of notify() and wait() close the lost-wakeup race.
THEOREM WakeupsNotLost == WakerSpec => []NoLostWakeup
<1>1. WakerIInv => NoLostWakeup
  BY DEF WakerIInv, WakerTypeOK, RingType, ProducerAt, Indices, Flushed, Followed, Relied, NoLostWakeup
<1> QED BY <1>1, WakerInductive, PTL
=============================================================================
