-------------------------- MODULE YbImuDriverProofs --------------------------
(***************************************************************************)
(* What the two threads of the IMU library promise each other without a    *)
(* lock, for every set of reports and commands and every number of frames, *)
(* requests and fields.                                                    *)
(***************************************************************************)
EXTENDS YbImuDriver, FiniteSetTheorems, SequenceTheorems, WellFoundedInduction, TLAPS

\* Where the calling thread stands in each call, and which request it is for.
PlaceInv ==
  /\ rx.kind = "none" => rx.at = 0
  /\ call.op = "idle" <=> call.phase = "none"
  /\ call.op = "sample" => call.phase = "read"
  /\ call.op = "version" => call.phase \in {"reset", "send", "wait", "read"}
  /\ call.op = "setting" => call.phase = "sleep"
  /\ call.op \in Calibrations => call.phase = "wait"
  /\ call.phase = "reset" => call.at \in 1 .. Len(Reads.version)
  /\ call.phase = "read" => call.at >= 1
  /\ call.phase = "wait" => call.req = Len(log) /\ log # <<>> /\ log[call.req] = call.op
  /\ call.phase \in {"reset", "send"} => call.req = Len(log) + 1
  /\ call.phase # "none" /\ call.req # 0 => call.req \notin abandoned

TypeInv == TypeOK /\ PlaceInv

\* The fields of the frames of kind k.
FieldsOf(k) == {f \in Fields : f # RxFunc /\ KindOf(f[1]) = k}
Untouched(k) == rx.kind # k \/ rx.at = 1

\* Fields of data never fall back behind the last frame assigned in full, and
\* show exactly that frame while no other of their kind is being assigned.
RegInv ==
  /\ rx.kind # "none" => frames # <<>>
  /\ \A k \in DataKinds :
       /\ complete[k] <= Len(frames)
       /\ \A f \in FieldsOf(k) : reg[f] >= complete[k]
       /\ Untouched(k) => \A f \in FieldsOf(k) : reg[f] = complete[k]
       /\ rx.kind = k => \A j \in 1 .. rx.at - 1 : reg[Assigns[k][j]] = Len(frames)

SampleInv ==
  call.op = "sample" =>
    /\ \A k \in DataKinds : stamp[k] <= complete[k]
    /\ \A v \in Vectors : KindOf(v) \in DataKinds =>
         /\ \A n \in seen[v] : n >= stamp[KindOf(v)]
         /\ KindOf(v) \notin overlap =>
              Untouched(KindOf(v)) /\ \A n \in seen[v] : n = complete[KindOf(v)]
    /\ seen["version"] = {}

VersionInv ==
  call.op = "version" =>
    /\ \A v \in Vectors \ {"version"} : seen[v] = {}
    /\ "version" \notin overlap =>
         /\ seen["version"] = {} /\ Untouched("version")
         /\ call.phase \in {"reset", "send", "wait"}
         /\ call.phase = "reset" => \A i \in 1 .. call.at - 1 : reg[<<"version", i>>] = 0
         /\ call.phase \in {"send", "wait"} => reg[VersionH] = 0

OtherInv == call.op \notin {"sample", "version"} => \A v \in Vectors : seen[v] = {}

ReadInv == TypeInv /\ RegInv /\ SampleInv /\ VersionInv /\ OtherInv

\* The answers arrive in the order of the requests, and the device still has
\* those behind them.
AnswerKinds == {"version", "state"}
AnswersInOrder ==
  \A n \in 1 .. Len(frames) :
    frames[n].kind \in AnswerKinds =>
      /\ frames[n].req \in 1 .. Len(log) /\ frames[n].kind = AnswerKind(frames[n].req)
      /\ \A r \in pending : frames[n].req < r
      /\ \A m \in n + 1 .. Len(frames) :
           frames[m].kind \in AnswerKinds => frames[n].req < frames[m].req

\* The fields that are waited for hold earlier answers until the first field of
\* the next one is assigned.
AnswersHeld ==
  /\ rx.kind # "none" => frames # <<>> /\ frames[Len(frames)].kind = rx.kind
  /\ \A f \in {RxFunc, VersionH} :
       /\ reg[f] <= Len(frames)
       /\ rx.kind \in AnswerKinds /\ rx.at = 1 => reg[f] < Len(frames)
  /\ reg[RxFunc] # 0 => frames[reg[RxFunc]].kind = "state"
  /\ reg[VersionH] # 0 => frames[reg[VersionH]].kind = "version"

\* The answer to request r is still to come.
Late(r) == \/ r \in pending
           \/ rx.kind \in AnswerKinds /\ rx.at = 1 /\ frames[Len(frames)].req = r

WaitsFor(func) == call.op = func /\ call.phase = "wait"

\* How far an answer lags behind is covered by the calls given up; one more of
\* them than calls is behind it when no call waits.
Covered(r) ==
  Lag(r) + (IF WaitsFor(log[r]) THEN 0 ELSE 1) <= Cardinality(GivenUp(log[r]))
LateInv == \A r \in 1 .. Len(log) : Late(r) => Covered(r)
CalibrationLag ==
  call.op \in Calibrations /\ reg[RxFunc] # 0 /\ FuncOf(reg[RxFunc]) = call.op =>
    Lag(frames[reg[RxFunc]].req) <= Cardinality(GivenUp(call.op))
VersionLag ==
  call.op = "version" /\ reg[VersionH] # 0 =>
    /\ call.phase = "wait" =>
         Lag(frames[reg[VersionH]].req) <= Cardinality(GivenUp("version"))
    /\ call.phase = "send" \/ (call.phase = "reset" /\ call.at > 1) =>
         Lag(frames[reg[VersionH]].req) + 1 <= Cardinality(GivenUp("version"))

AnswerInv == TypeInv /\ AnswersInOrder /\ AnswersHeld /\ LateInv /\ CalibrationLag /\ VersionLag
-----------------------------------------------------------------------------
(* The vectors, the fields of the frames, and what a call reads.           *)

LEMMA MinOfTwo ==
  ASSUME NEW a \in Nat, NEW b \in Nat
  PROVE  Min({a, b}) \in Nat /\ Min({a, b}) <= a /\ Min({a, b}) <= b
         /\ (a >= 1 /\ b >= 1 => Min({a, b}) >= 1)
<1>1. \E x \in {a, b} : \A y \in {a, b} : x <= y
  <2>1. CASE a <= b BY <2>1
  <2>2. CASE ~(a <= b) BY <2>2
  <2> QED BY <2>1, <2>2
<1>2. Min({a, b}) \in {a, b} /\ \A y \in {a, b} : Min({a, b}) <= y
  BY <1>1 DEF Min
<1> QED BY <1>2

LEMMA VectorNames ==
  /\ Vectors = {"accel", "gyro", "mag", "quat", "baro", "euler", "version"}
  /\ \A v \in Vectors : Axes[v] \in Nat /\ Axes[v] >= 1
BY DEF Vectors, Axes

LEMMA VectorKinds ==
  ASSUME NEW v \in Vectors
  PROVE  /\ v # "rx_func" /\ KindOf(v) \in Kinds /\ KindOf(v) # "state"
         /\ v = "version" => KindOf(v) = "version"
         /\ v # "version" => KindOf(v) \in DataKinds
BY VectorNames DEF KindOf, Kinds, DataKinds

LEMMA ReadsOfVector ==
  ASSUME NEW v \in Vectors
  PROVE  /\ Len(Reads[v]) \in Nat
         /\ Reads[v] = [i \in 1 .. Len(Reads[v]) |-> <<v, i>>]
         /\ v = "version" => Len(Reads[v]) >= 1
<1> DEFINE n == Min({Axes[v], MaxAxes[v]})
<1>1. MaxAxes[v] \in Nat /\ Axes[v] \in Nat /\ Axes[v] >= 1
  BY DeviceAssumption, VectorNames
<1>2. n \in Nat /\ (MaxAxes[v] >= 1 => n >= 1)
  BY <1>1, MinOfTwo
<1>3. v = "version" => MaxAxes[v] >= 1
  BY DeviceAssumption
<1> HIDE DEF n
<1>4. Reads[v] = [i \in 1 .. n |-> <<v, i>>]
  BY DEF Reads, n
<1>5. Len(Reads[v]) = n
  BY <1>2, <1>4
<1> QED BY <1>2, <1>3, <1>4, <1>5

\* The fields of one vector.
OfVector(v) == {<<v, i>> : i \in 1 .. Len(Reads[v])}

LEMMA VectorFields ==
  ASSUME NEW v \in Vectors
  PROVE  /\ Reads[v] \in Seq(OfVector(v)) /\ OfVector(v) \subseteq Fields
         /\ \A f \in OfVector(v) : f[1] = v /\ f # RxFunc /\ f \in FieldsOf(KindOf(v))
         /\ \A i \in 1 .. Len(Reads[v]) : Reads[v][i] = <<v, i>>
         /\ \A f \in OfVector(v) : \E i \in 1 .. Len(Reads[v]) : Reads[v][i] = f
<1> DEFINE n == Len(Reads[v])
<1>0. n \in Nat /\ Reads[v] = [i \in 1 .. n |-> <<v, i>>]
  BY ReadsOfVector
<1>a. \A i \in 1 .. n : <<v, i>> \in OfVector(v)
  BY DEF OfVector
<1>b. \A f \in OfVector(v) : \E i \in 1 .. n : f = <<v, i>>
  BY DEF OfVector
<1>1. Reads[v] \in Seq(OfVector(v)) /\ \A i \in 1 .. n : Reads[v][i] = <<v, i>>
  <2> HIDE DEF n
  <2>1. \A i \in 1 .. n : Reads[v][i] = <<v, i>>
    BY <1>0
  <2>2. Reads[v] \in [1 .. n -> OfVector(v)]
    BY <1>0, <1>a
  <2> QED BY <1>0, <2>1, <2>2
<1>2. OfVector(v) \subseteq Fields
  BY DEF OfVector, Fields
<1>3. ASSUME NEW f \in OfVector(v)
      PROVE  f[1] = v /\ f # RxFunc /\ f \in FieldsOf(KindOf(v))
  <2>1. PICK i \in 1 .. Len(Reads[v]) : f = <<v, i>>
    BY <1>b
  <2>2. f[1] = v /\ f # RxFunc
    BY <2>1, VectorKinds DEF RxFunc
  <2> QED BY <2>2, <1>2 DEF FieldsOf
<1>4. \A f \in OfVector(v) : \E i \in 1 .. n : Reads[v][i] = f
  BY <1>1, <1>b
<1> QED BY <1>1, <1>2, <1>3, <1>4

LEMMA FieldsOfVectors ==
  ASSUME NEW f \in Fields, f # RxFunc
  PROVE  f[1] \in Vectors /\ f \in OfVector(f[1])
<1>1. Fields = (UNION {OfVector(v) : v \in Vectors}) \cup {RxFunc}
  BY DEF Fields, OfVector
<1>2. PICK v \in Vectors : f \in OfVector(v)
  BY <1>1
<1> QED BY <1>2, VectorFields

LEMMA Concatenated ==
  ASSUME NEW S, NEW T, NEW s \in Seq(S), NEW t \in Seq(T)
  PROVE  /\ s \o t \in Seq(S \cup T) /\ Len(s \o t) = Len(s) + Len(t)
         /\ \A i \in 1 .. Len(s) : (s \o t)[i] = s[i]
         /\ \A i \in 1 .. Len(t) : (s \o t)[Len(s) + i] = t[i]
<1>1. s \in Seq(S \cup T) /\ t \in Seq(S \cup T)
  BY SeqMonotonic
<1>2. s \o t \in Seq(S \cup T) /\ Len(s \o t) = Len(s) + Len(t)
  BY <1>1
<1>3. \A i \in 1 .. Len(s) : (s \o t)[i] = s[i]
  BY <1>1
<1>4. ASSUME NEW i \in 1 .. Len(t)
      PROVE  (s \o t)[Len(s) + i] = t[i]
  BY <1>1
<1> QED BY <1>2, <1>3, <1>4

LEMMA RawFields ==
  LET raw == Reads.accel \o Reads.gyro \o Reads.mag
  IN  /\ raw \in Seq(OfVector("accel") \cup OfVector("gyro") \cup OfVector("mag"))
      /\ \A v \in {"accel", "gyro", "mag"} : \A f \in OfVector(v) :
           \E j \in 1 .. Len(raw) : raw[j] = f
<1> DEFINE a == Reads.accel
           b == Reads.gyro
           c == Reads.mag
           A == OfVector("accel")
           B == OfVector("gyro")
           C == OfVector("mag")
<1>1. a \in Seq(A) /\ b \in Seq(B) /\ c \in Seq(C)
  BY VectorNames, VectorFields
<1>2. /\ \A f \in A : \E j \in 1 .. Len(a) : a[j] = f
      /\ \A f \in B : \E j \in 1 .. Len(b) : b[j] = f
      /\ \A f \in C : \E j \in 1 .. Len(c) : c[j] = f
  BY VectorNames, VectorFields
<1> HIDE DEF a, b, c, A, B, C
<1>3. /\ a \o b \in Seq(A \cup B) /\ Len(a \o b) = Len(a) + Len(b)
      /\ \A i \in 1 .. Len(a) : (a \o b)[i] = a[i]
      /\ \A i \in 1 .. Len(b) : (a \o b)[Len(a) + i] = b[i]
  BY <1>1, Concatenated
<1> DEFINE ab == a \o b
<1>4. ab \in Seq(A \cup B)
  BY <1>3
<1> HIDE DEF ab
<1>5. /\ ab \o c \in Seq((A \cup B) \cup C) /\ Len(ab \o c) = Len(ab) + Len(c)
      /\ \A i \in 1 .. Len(ab) : (ab \o c)[i] = ab[i]
      /\ \A i \in 1 .. Len(c) : (ab \o c)[Len(ab) + i] = c[i]
  BY <1>1, <1>4, Concatenated
<1>6. Len(a) \in Nat /\ Len(b) \in Nat /\ Len(c) \in Nat /\ Len(ab) = Len(a) + Len(b)
  BY <1>1, <1>3 DEF ab
<1>7. ASSUME NEW f \in A PROVE \E j \in 1 .. Len(ab \o c) : (ab \o c)[j] = f
  <2>1. PICK i \in 1 .. Len(a) : a[i] = f
    BY <1>2
  <2>2. i \in 1 .. Len(ab) /\ i \in 1 .. Len(ab \o c) /\ ab[i] = f
    BY <2>1, <1>3, <1>5, <1>6 DEF ab
  <2> QED BY <2>2, <1>5
<1>8. ASSUME NEW f \in B PROVE \E j \in 1 .. Len(ab \o c) : (ab \o c)[j] = f
  <2>1. PICK i \in 1 .. Len(b) : b[i] = f
    BY <1>2
  <2>2. ab[Len(a) + i] = f
    BY <2>1, <1>3 DEF ab
  <2>3. Len(a) + i \in 1 .. Len(ab) /\ Len(a) + i \in 1 .. Len(ab \o c)
    BY <1>5, <1>6
  <2> QED BY <2>2, <2>3, <1>5
<1>9. ASSUME NEW f \in C PROVE \E j \in 1 .. Len(ab \o c) : (ab \o c)[j] = f
  <2>1. PICK i \in 1 .. Len(c) : c[i] = f
    BY <1>2
  <2>2. Len(ab) + i \in 1 .. Len(ab \o c) /\ (ab \o c)[Len(ab) + i] = f
    BY <2>1, <1>5, <1>6
  <2> QED BY <2>2
<1>10. /\ ab \o c \in Seq(A \cup B \cup C)
       /\ \A f \in A \cup B \cup C : \E j \in 1 .. Len(ab \o c) : (ab \o c)[j] = f
  BY <1>5, <1>7, <1>8, <1>9
<1> QED BY <1>10 DEF ab, a, b, c, A, B, C

\* _parse_data sets every field of its kind of frame and no other.
LEMMA AssignsOfKind ==
  ASSUME NEW k \in Kinds, k # "state"
  PROVE  /\ Assigns[k] \in Seq(FieldsOf(k))
         /\ \A f \in FieldsOf(k) : \E j \in 1 .. Len(Assigns[k]) : Assigns[k][j] = f
<1>1. \A f \in FieldsOf(k) : f[1] \in Vectors /\ f \in OfVector(f[1]) /\ KindOf(f[1]) = k
  BY FieldsOfVectors DEF FieldsOf
<1>2. CASE k = "raw"
  <2>1. Assigns[k] = Reads.accel \o Reads.gyro \o Reads.mag
    BY <1>2 DEF Assigns
  <2>2. \A f \in FieldsOf(k) : f[1] \in {"accel", "gyro", "mag"}
    BY <1>1, <1>2, VectorNames DEF KindOf
  <2>3. OfVector("accel") \cup OfVector("gyro") \cup OfVector("mag") \subseteq FieldsOf(k)
    BY <1>2, VectorNames, VectorFields DEF KindOf
  <2>4. Assigns[k] \in Seq(FieldsOf(k))
    BY <2>1, <2>3, RawFields, SeqMonotonic
  <2> QED BY <2>1, <2>2, <2>4, <1>1, RawFields
<1>3. CASE k # "raw"
  <2>1. k \in Vectors /\ k \notin {"accel", "gyro", "mag"} /\ Assigns[k] = Reads[k]
    BY <1>3, VectorNames DEF Assigns, Kinds, DataKinds
  <2>2. KindOf(k) = k /\ \A f \in FieldsOf(k) : f[1] = k
    BY <2>1, <1>1, <1>3 DEF KindOf
  <2>3. OfVector(k) \subseteq FieldsOf(k) /\ Reads[k] \in Seq(OfVector(k))
    BY <2>1, <2>2, VectorFields
  <2>4. Assigns[k] \in Seq(FieldsOf(k))
    BY <2>1, <2>3, SeqMonotonic
  <2>5. ASSUME NEW f \in FieldsOf(k)
        PROVE  \E j \in 1 .. Len(Assigns[k]) : Assigns[k][j] = f
    <3>1. f \in OfVector(k)
      BY <1>1, <2>2
    <3> QED BY <3>1, <2>1, VectorFields
  <2> QED BY <2>4, <2>5
<1> QED BY <1>2, <1>3

LEMMA AssignsField ==
  ASSUME NEW k \in Kinds
  PROVE  /\ Len(Assigns[k]) \in Nat
         /\ \A j \in 1 .. Len(Assigns[k]) :
              /\ Assigns[k][j] \in Fields
              /\ k # "state" => Assigns[k][j] \in FieldsOf(k)
              /\ k = "state" => j = 1 /\ Assigns[k][j] = RxFunc
<1>1. CASE k # "state"
  <2>1. Assigns[k] \in Seq(FieldsOf(k))
    BY <1>1, AssignsOfKind
  <2>2. FieldsOf(k) \subseteq Fields
    BY DEF FieldsOf
  <2> QED BY <2>1, <2>2, <1>1
<1>2. CASE k = "state"
  <2>1. Assigns[k] = <<RxFunc>> /\ RxFunc \in Fields
    BY <1>2 DEF Assigns, RxFunc, Fields
  <2> QED BY <2>1, <1>2
<1> QED BY <1>1, <1>2

LEMMA FieldsApart ==
  /\ RxFunc \in Fields /\ VersionH \in FieldsOf("version")
  /\ \A f \in Fields : f # RxFunc => \E k \in Kinds \ {"state"} : f \in FieldsOf(k)
  /\ \A k \in Kinds : \A f \in FieldsOf(k) : f \in Fields /\ f # RxFunc
  /\ \A k, l \in Kinds : k # l => \A f \in FieldsOf(k) : f \notin FieldsOf(l)
<1>1. RxFunc \in Fields
  BY DEF Fields
<1>2. VersionH \in FieldsOf("version")
  <2>1. "version" \in Vectors
    BY VectorNames
  <2>2. VersionH \in OfVector("version")
    <3>1. Len(Reads["version"]) \in Nat /\ Len(Reads["version"]) >= 1
      BY <2>1, ReadsOfVector
    <3>2. 1 \in 1 .. Len(Reads["version"])
      BY <3>1
    <3> QED BY <3>2 DEF OfVector, VersionH
  <2> QED BY <2>1, <2>2, VectorFields, VectorKinds
<1>3. ASSUME NEW f \in Fields, f # RxFunc
      PROVE  \E k \in Kinds \ {"state"} : f \in FieldsOf(k)
  BY <1>3, FieldsOfVectors, VectorFields, VectorKinds
<1> QED BY <1>1, <1>2, <1>3 DEF FieldsOf

LEMMA VersionFields ==
  /\ Assigns["version"] = Reads.version /\ Assigns["version"][1] = VersionH
  /\ Len(Reads.version) \in Nat /\ Len(Reads.version) >= 1
  /\ \A j \in 1 .. Len(Reads.version) :
       Reads.version[j] = <<"version", j>> /\ Reads.version[j] \in FieldsOf("version")
  /\ \A f \in FieldsOf("version") : \E j \in 1 .. Len(Reads.version) : f = <<"version", j>>
<1>1. Assigns["version"] = Reads.version
  BY DEF Assigns
<1>2. /\ Len(Reads.version) \in Nat /\ Len(Reads.version) >= 1
      /\ \A j \in 1 .. Len(Reads.version) : Reads.version[j] = <<"version", j>>
  BY VectorNames, ReadsOfVector, VectorFields
<1>3. Assigns["version"][1] = VersionH
  BY <1>1, <1>2 DEF VersionH
<1>4. "version" \in Kinds
  BY DEF Kinds
<1>5. \A j \in 1 .. Len(Reads.version) : Reads.version[j] \in FieldsOf("version")
  BY <1>1, <1>4, AssignsField
<1>6. ASSUME NEW f \in FieldsOf("version")
      PROVE  \E j \in 1 .. Len(Reads.version) : f = <<"version", j>>
  <2>1. PICK j \in 1 .. Len(Reads.version) : Reads.version[j] = f
    BY <1>1, <1>4, AssignsOfKind
  <2> QED BY <2>1, <1>2
<1> QED BY <1>1, <1>2, <1>3, <1>5, <1>6

\* pub_data reads the fields of data, get_version its own.
LEMMA PlanFields ==
  /\ DOMAIN Plan = {"sample", "version"} /\ Plan["version"] = Reads.version
  /\ Len(Plan["sample"]) \in Nat
  /\ \A i \in 1 .. Len(Plan["sample"]) :
       LET f == Plan["sample"][i]
       IN  /\ f[1] \in Vectors \ {"version"}
           /\ f \in FieldsOf(KindOf(f[1])) /\ KindOf(f[1]) \in DataKinds
<1> DEFINE raw == Reads.accel \o Reads.gyro \o Reads.mag
           D == UNION {OfVector(v) : v \in Vectors \ {"version"}}
<1>1. DOMAIN Plan = {"sample", "version"} /\ Plan["version"] = Reads.version
  BY DEF Plan
<1>2. Plan["sample"] = raw \o Reads.quat \o Reads.baro \o Reads.euler
  BY DEF Plan
<1>3. \A v \in Vectors \ {"version"} : OfVector(v) \subseteq D
  OBVIOUS
<1>4. {"accel", "gyro", "mag", "quat", "baro", "euler"} \subseteq Vectors \ {"version"}
  BY VectorNames
<1>5. \A f \in D : f[1] \in Vectors \ {"version"} /\ f \in FieldsOf(KindOf(f[1]))
                   /\ KindOf(f[1]) \in DataKinds
  BY VectorFields, VectorKinds
<1> HIDE DEF D
<1>6. raw \in Seq(D)
  <2>1. OfVector("accel") \cup OfVector("gyro") \cup OfVector("mag") \subseteq D
    BY <1>3, <1>4
  <2> QED BY <2>1, RawFields, SeqMonotonic
<1>7. ASSUME NEW v \in {"quat", "baro", "euler"} PROVE Reads[v] \in Seq(D)
  <2>1. OfVector(v) \subseteq D /\ Reads[v] \in Seq(OfVector(v))
    BY <1>3, <1>4, VectorFields
  <2> QED BY <2>1, SeqMonotonic
<1>8. Plan["sample"] \in Seq(D)
  <2> HIDE DEF raw
  <2>1. Reads.quat \in Seq(D) /\ Reads.baro \in Seq(D) /\ Reads.euler \in Seq(D)
    BY <1>7
  <2> QED BY <1>2, <1>6, <2>1
<1>9. Len(Plan["sample"]) \in Nat /\ \A i \in 1 .. Len(Plan["sample"]) : Plan["sample"][i] \in D
  BY <1>8
<1> QED BY <1>1, <1>5, <1>9
-----------------------------------------------------------------------------
(* The steps, and the states and places they leave the threads in.         *)

\* A step that neither assigns, reads nor writes.
Quiet == /\ UNCHANGED <<reg, rx, frames, complete, caller, device, overlap>>
         /\ alive' \in BOOLEAN \/ UNCHANGED alive

Returns == /\ call.op # "idle" /\ (call.phase = "wait" => CalibrationAnswered)
           /\ Return /\ UNCHANGED abandoned

LEMMA Steps ==
  ASSUME PlaceInv, [Next]_vars
  PROVE  \/ Quiet
         \/ \E kind \in AutoKinds : AutoReport(kind)
         \/ \E r \in pending : Answer(r)
         \/ \E r \in pending : LoseRequest(r)
         \/ AssignField
         \/ BeginSample \/ BeginVersion \/ BeginSetting
         \/ \E func \in Calibrations : BeginCalibration(func)
         \/ ReadField \/ ResetVersion \/ RequestVersion \/ ReadVersion
         \/ Returns \/ GivesUp
<1>1. CASE UNCHANGED vars
  BY <1>1 DEF vars, serialVars, receiver, Quiet
<1>2. CASE InitTopic
  BY <1>2 DEF InitTopic, Quiet
<1>3. CASE OnImu
  BY <1>3 DEF OnImu, serialVars, receiver, Quiet
<1>4. CASE PubData
  BY <1>4 DEF PubData, Finished, Returns
<1>5. CASE Spinning(BeginSample)
  BY <1>5 DEF Spinning
<1>6. CASE Spinning(SerialNext)
  <2>1. SerialNext
    BY <1>6 DEF Spinning
  <2>2. ReceiverDies => Quiet
    BY DEF ReceiverDies, Quiet
  <2>3. GetVersionReturns => Returns
    BY DEF GetVersionReturns, Finished, Returns
  <2>4. CalibrationReturns => Returns
    BY DEF CalibrationReturns, CalibrationAnswered, Calibrations, Returns
  <2>5. SettingReturns => Returns
    BY DEF PlaceInv, SettingReturns, Returns
  <2> QED BY <2>1, <2>2, <2>3, <2>4, <2>5
      DEF SerialNext, Device, Command, CallerSteps
<1> QED BY <1>1, <1>2, <1>3, <1>4, <1>5, <1>6 DEF Next

\* TypeOK in parts.
ThreadTypes ==
  /\ rx \in [kind : Kinds \cup {"none"}, at : Nat]
  /\ rx.kind # "none" => rx.at \in 1 .. Len(Assigns[rx.kind])
  /\ alive \in BOOLEAN
  /\ frames \in Seq([kind : Kinds, req : Nat]) /\ Len(frames) <= MaxFrames
  /\ overlap \subseteq Kinds
FieldTypes ==
  /\ reg \in [Fields -> Numbers]
  /\ complete \in [DataKinds -> Numbers] /\ stamp \in [DataKinds -> Numbers]
  /\ seen \in [Vectors -> SUBSET Numbers]
RequestTypes ==
  /\ call \in [op : Operations, phase : {"none", "read", "reset", "send", "wait", "sleep"},
               at : Nat, req : Nat]
  /\ log \in Seq(Calibrations \cup {"version"})
  /\ pending \cap lost = {} /\ pending \cup lost \cup abandoned \subseteq 1 .. Len(log)
NodeTypes ==
  /\ published \in [Vectors -> Numbers] /\ node \in {"starting", "spinning", "gone"}
  /\ vizQueue \in Seq(Numbers) /\ Len(vizQueue) <= Depth /\ marker \in Numbers

LEMMA TypeParts ==
  TypeInv <=> ThreadTypes /\ FieldTypes /\ RequestTypes /\ NodeTypes /\ PlaceInv
<1>1. MaxFrames \in Nat
  BY DeviceAssumption
<1>2. frames \in Seq([kind : Kinds, req : Nat]) =>
        (Len(frames) \in Numbers <=> Len(frames) <= MaxFrames)
  BY <1>1 DEF Numbers
<1> QED BY <1>2 DEF TypeInv, TypeOK, PlaceInv, ThreadTypes, FieldTypes, RequestTypes, NodeTypes

LEMMA TypePartsNext ==
  ThreadTypes' /\ FieldTypes' /\ RequestTypes' /\ NodeTypes' /\ PlaceInv' => TypeInv'
<1>1. MaxFrames \in Nat
  BY DeviceAssumption
<1>2. (frames \in Seq([kind : Kinds, req : Nat]))' /\ Len(frames') <= MaxFrames =>
        Len(frames') \in Numbers
  BY <1>1 DEF Numbers
<1> QED BY <1>2 DEF TypeInv, TypeOK, PlaceInv, ThreadTypes, FieldTypes, RequestTypes, NodeTypes

LEMMA ThreadTypesStep ==
  ASSUME TypeInv, [Next]_vars
  PROVE  ThreadTypes'
<1> USE TypeParts, Steps
<1>1. ThreadTypes /\ MaxFrames \in Nat
  BY DeviceAssumption
<1>2. CASE UNCHANGED <<rx, frames, overlap>> /\ (alive' \in BOOLEAN \/ UNCHANGED alive)
  BY <1>1, <1>2 DEF ThreadTypes
<1>3. ASSUME NEW k \in Kinds, NEW req \in Nat, Arrives(k, req), Len(Assigns[k]) >= 1
      PROVE  ThreadTypes'
  <2>1. frames' = Append(frames, [kind |-> k, req |-> req]) /\ Len(frames) < MaxFrames
    BY <1>3 DEF Arrives
  <2>2. frames' \in Seq([kind : Kinds, req : Nat]) /\ Len(frames') <= MaxFrames
    BY <2>1, <1>1 DEF ThreadTypes
  <2>3. rx' = [kind |-> k, at |-> 1] /\ UNCHANGED <<alive, overlap>>
    BY <1>3 DEF Arrives
  <2>4. rx'.kind # "none" => rx'.at \in 1 .. Len(Assigns[rx'.kind])
    BY <2>3, <1>3, AssignsField
  <2>5. rx' \in [kind : Kinds \cup {"none"}, at : Nat]
    BY <2>3
  <2> QED BY <1>1, <2>2, <2>3, <2>4, <2>5 DEF ThreadTypes
<1>4. CASE AssignField
  <2>1. rx.kind \in Kinds /\ rx.at \in 1 .. Len(Assigns[rx.kind]) /\ Len(Assigns[rx.kind]) \in Nat
    BY <1>1, <1>4, AssignsField DEF AssignField, ThreadTypes
  <2>2. \/ rx' = [kind |-> "none", at |-> 0]
        \/ rx.at # Len(Assigns[rx.kind]) /\ rx' = [rx EXCEPT !.at = rx.at + 1]
    BY <1>4 DEF AssignField
  <2>3. rx' \in [kind : Kinds \cup {"none"}, at : Nat]
        /\ (rx'.kind # "none" => rx'.at \in 1 .. Len(Assigns[rx'.kind]))
    <3>1. CASE rx' = [kind |-> "none", at |-> 0]
      BY <3>1
    <3>2. CASE rx.at # Len(Assigns[rx.kind]) /\ rx' = [rx EXCEPT !.at = rx.at + 1]
      <4>1. rx.at + 1 \in Nat /\ rx \in [kind : Kinds \cup {"none"}, at : Nat]
        BY <2>1, <1>1 DEF ThreadTypes
      <4>2. rx'.kind = rx.kind /\ rx'.at = rx.at + 1 /\ rx' \in [kind : Kinds \cup {"none"}, at : Nat]
        BY <3>2, <4>1
      <4> QED BY <4>2, <3>2, <2>1
    <3> QED BY <2>2, <3>1, <3>2
  <2>4. UNCHANGED <<alive, frames>> /\ overlap' \subseteq Kinds
    BY <1>1, <2>1, <1>4 DEF AssignField, ThreadTypes
  <2> QED BY <1>1, <2>3, <2>4 DEF ThreadTypes
<1>5. ASSUME NEW op, NEW phase, NEW req, Begin(op, phase, req)
      PROVE  ThreadTypes'
  <2>1. UNCHANGED <<rx, alive, frames>>
    BY <1>5 DEF Begin, receiver
  <2>2. overlap' \subseteq Kinds
    <3>1. rx.at > 1 => rx.kind \in Kinds
      BY <1>1 DEF ThreadTypes, PlaceInv
    <3> QED BY <1>5, <3>1 DEF Begin
  <2> QED BY <1>1, <2>1, <2>2 DEF ThreadTypes
<1>6. CASE Returns \/ GivesUp
  BY <1>1, <1>6 DEF Returns, GivesUp, Return, receiver, ThreadTypes
<1>7. CASE Quiet
  BY <1>2, <1>7 DEF Quiet
<1>8. CASE \E kind \in AutoKinds : AutoReport(kind)
  <2>1. PICK k \in AutoKinds : AutoReport(k)
    BY <1>8
  <2>2. k \in Kinds /\ Assigns[k] # <<>> /\ k # "state"
    BY DeviceAssumption DEF Kinds, DataKinds
  <2>3. Len(Assigns[k]) >= 1
    BY <2>2, AssignsOfKind
  <2> QED BY <2>1, <2>2, <2>3, <1>3 DEF AutoReport
<1>9. CASE \E r \in pending : Answer(r)
  <2>1. PICK r \in pending : Answer(r)
    BY <1>9
  <2>2. r \in Nat
    BY DEF RequestTypes
  <2>3. AnswerKind(r) \in {"version", "state"}
    BY DEF AnswerKind
  <2>4. AnswerKind(r) \in Kinds /\ Len(Assigns[AnswerKind(r)]) >= 1
    <3>1. Len(Assigns["version"]) >= 1
      BY VersionFields
    <3>2. Len(Assigns["state"]) >= 1
      BY DEF Assigns
    <3> QED BY <3>1, <3>2, <2>3 DEF Kinds
  <2> QED BY <2>1, <2>2, <2>4, <1>3 DEF Answer
<1>10. CASE \E r \in pending : LoseRequest(r)
  BY <1>2, <1>10 DEF LoseRequest, receiver
<1>11. CASE BeginSample \/ BeginVersion \/ BeginSetting \/ \E func \in Calibrations : BeginCalibration(func)
  BY <1>5, <1>11 DEF BeginSample, BeginVersion, BeginSetting, BeginCalibration
<1>12. CASE ReadField \/ ResetVersion \/ RequestVersion \/ ReadVersion
  BY <1>2, <1>12 DEF ReadField, ResetVersion, RequestVersion, ReadVersion, receiver
<1> QED BY <1>4, <1>6, <1>7, <1>8, <1>9, <1>10, <1>11, <1>12

LEMMA MinOfNumbers ==
  ASSUME NEW S \in SUBSET Nat, S # {}
  PROVE  Min(S) \in S
<1> DEFINE R == OpToRel(<, Nat)
<1>1. PICK x \in S : \A y \in S : ~(<<y, x>> \in R)
  BY NatLessThanWellFounded, WFMin
<1>2. R = {p \in Nat \X Nat : p[1] < p[2]}
  BY DEF OpToRel
<1> HIDE DEF R
<1>3. ASSUME NEW y \in S PROVE x <= y
  <2>1. x \in Nat /\ y \in Nat /\ <<y, x>> \in Nat \X Nat
    OBVIOUS
  <2>2. y < x => <<y, x>> \in R
    BY <2>1, <1>2
  <2> QED BY <2>1, <2>2, <1>1
<1> QED BY <1>3 DEF Min

LEMMA FieldTypesStep ==
  ASSUME TypeInv, [Next]_vars
  PROVE  FieldTypes'
<1>1. /\ FieldTypes /\ ThreadTypes /\ RequestTypes /\ PlaceInv
      /\ Len(frames) \in Numbers /\ 0 \in Numbers
  <2>1. MaxFrames \in Nat
    BY DeviceAssumption
  <2> QED BY <2>1, TypeParts DEF Numbers, ThreadTypes
<1>2. CASE UNCHANGED <<reg, complete, seen, stamp>>
  BY <1>1, <1>2 DEF FieldTypes
<1>3. CASE AssignField
  <2>1. rx.kind \in Kinds /\ rx.at \in 1 .. Len(Assigns[rx.kind])
    BY <1>1, <1>3 DEF AssignField, ThreadTypes
  <2>2. Assigns[rx.kind][rx.at] \in Fields
    BY <2>1, AssignsField
  <2>3. reg' \in [Fields -> Numbers]
    BY <2>2, <1>1, <1>3 DEF AssignField, FieldTypes
  <2>4. complete' \in [DataKinds -> Numbers] /\ UNCHANGED <<seen, stamp>>
    BY <1>1, <1>3 DEF AssignField, FieldTypes, caller
  <2> QED BY <1>1, <2>3, <2>4 DEF FieldTypes
<1>4. ASSUME NEW op, NEW phase, NEW req, Begin(op, phase, req),
             \/ UNCHANGED reg
             \/ reg' = [reg EXCEPT ![RxFunc] = 0]
      PROVE  FieldTypes'
  <2>1. seen' = NothingSeen /\ UNCHANGED complete /\ stamp' \in {complete, NoFrames}
    BY <1>4 DEF Begin, receiver
  <2>2. seen' \in [Vectors -> SUBSET Numbers] /\ stamp' \in [DataKinds -> Numbers]
    BY <2>1, <1>1 DEF NothingSeen, NoFrames, FieldTypes
  <2>3. reg' \in [Fields -> Numbers]
    BY <1>1, <1>4 DEF FieldTypes
  <2> QED BY <1>1, <2>1, <2>2, <2>3 DEF FieldTypes
<1>5. CASE ReadField
  <2>1. call.op \in {"sample", "version"} /\ call.at \in 1 .. Len(Plan[call.op])
    <3>1. call.op \in {"sample", "version"}
      BY <1>1, <1>5 DEF ReadField, PlaceInv, RequestTypes, Operations
    <3>2. Len(Plan[call.op]) \in Nat /\ call.at \in Nat /\ call.at >= 1
      BY <3>1, <1>1, <1>5, PlanFields, VersionFields DEF ReadField, PlaceInv, RequestTypes
    <3> QED BY <3>1, <3>2, <1>5 DEF ReadField
  <2>2. Plan[call.op][call.at] \in Fields /\ Plan[call.op][call.at][1] \in Vectors
    <3>1. CASE call.op = "sample"
      <4>1. DataKinds \subseteq Kinds
        BY DEF Kinds
      <4> QED BY <4>1, <3>1, <2>1, PlanFields, FieldsApart
    <3>2. CASE call.op = "version"
      <4>1. "version" \in Kinds /\ "version" \in Vectors
        BY VectorNames DEF Kinds
      <4> QED BY <4>1, <3>2, <2>1, PlanFields, VersionFields, FieldsApart
    <3> QED BY <2>1, <3>1, <3>2
  <2>3. reg[Plan[call.op][call.at]] \in Numbers
    BY <1>1, <2>2 DEF FieldTypes
  <2>4. seen' \in [Vectors -> SUBSET Numbers]
    BY <1>1, <1>5, <2>2, <2>3 DEF ReadField, FieldTypes
  <2> QED BY <1>1, <1>5, <2>4 DEF ReadField, FieldTypes, receiver
<1>6. CASE ResetVersion
  <2>1. Reads.version[call.at] \in Fields
    <3>1. "version" \in Kinds
      BY DEF Kinds
    <3> QED BY <3>1, <1>1, <1>6, VersionFields, FieldsApart DEF ResetVersion, PlaceInv
  <2> QED BY <1>1, <1>6, <2>1 DEF ResetVersion, FieldTypes, receiver
<1>7. CASE Returns \/ GivesUp
  BY <1>1, <1>7 DEF Returns, GivesUp, Return, receiver, FieldTypes, NothingSeen, NoFrames
<1>8. CASE Quiet \/ (\E kind \in AutoKinds : AutoReport(kind)) \/ (\E r \in pending : Answer(r))
           \/ (\E r \in pending : LoseRequest(r)) \/ RequestVersion \/ ReadVersion
  BY <1>2, <1>8 DEF Quiet, AutoReport, Answer, Arrives, LoseRequest, RequestVersion,
     ReadVersion, caller, receiver
<1>9. CASE BeginSample \/ BeginVersion \/ BeginSetting \/ \E func \in Calibrations : BeginCalibration(func)
  BY <1>4, <1>9 DEF BeginSample, BeginVersion, BeginSetting, BeginCalibration
<1> QED BY <1>1, Steps, <1>3, <1>5, <1>6, <1>7, <1>8, <1>9

LEMMA Resetting ==
  ASSUME RequestTypes, PlaceInv, ResetVersion
  PROVE  /\ call.op = "version" /\ call.at \in 1 .. Len(Reads.version)
         /\ call' \in [op : Operations, at : Nat, req : Nat,
                      phase : {"none", "read", "reset", "send", "wait", "sleep"}]
         /\ call'.op = "version" /\ call'.req = call.req /\ call'.at = call.at + 1
         /\ call'.phase = IF call.at = Len(Reads.version) THEN "send" ELSE "reset"
<1> DEFINE moved == [call EXCEPT !.at = call.at + 1]
           last == call.at = Len(Reads.version)
<1>1. call.phase = "reset" /\ call.op = "version" /\ call.at \in 1 .. Len(Reads.version)
  BY DEF ResetVersion, RequestTypes, PlaceInv, Operations
<1>2. call.at + 1 \in Nat /\ call.at \in Nat /\ call.op \in Operations /\ call.req \in Nat
  BY DEF RequestTypes
<1>3. /\ moved \in [op : Operations, at : Nat, req : Nat,
                    phase : {"none", "read", "reset", "send", "wait", "sleep"}]
      /\ moved.op = call.op /\ moved.req = call.req /\ moved.at = call.at + 1
      /\ moved.phase = "reset"
  BY <1>1, <1>2 DEF RequestTypes
<1>4. call' = [moved EXCEPT !.phase = IF last THEN "send" ELSE moved.phase]
  BY DEF ResetVersion
<1> HIDE DEF moved
<1> QED BY <1>1, <1>3, <1>4

LEMMA RequestTypesStep ==
  ASSUME TypeInv, [Next]_vars
  PROVE  RequestTypes' /\ PlaceInv'
<1>1. /\ FieldTypes /\ ThreadTypes /\ RequestTypes /\ PlaceInv
      /\ Len(log) \in Nat /\ Len(Reads.version) \in Nat /\ Len(Reads.version) >= 1
      /\ Kinds \subseteq DataKinds \cup {"version", "state"}
  BY TypeParts, VersionFields DEF RequestTypes, Kinds
<1>2. CASE Quiet
  BY <1>1, <1>2 DEF Quiet, caller, device, RequestTypes, PlaceInv
<1>3. CASE \E kind \in AutoKinds : AutoReport(kind)
  <2>1. "none" \notin AutoKinds
    BY DeviceAssumption DEF DataKinds
  <2> QED BY <1>1, <1>3, <2>1 DEF AutoReport, Arrives, caller, device, RequestTypes, PlaceInv
<1>4. CASE \E r \in pending : Answer(r)
  BY <1>1, <1>4 DEF Answer, AnswerKind, Arrives, caller, RequestTypes, PlaceInv
<1>5. CASE \E r \in pending : LoseRequest(r)
  BY <1>1, <1>5 DEF LoseRequest, receiver, caller, RequestTypes, PlaceInv
<1>6. CASE AssignField
  <2>1. UNCHANGED <<call, log, pending, lost, abandoned>>
    BY <1>6 DEF AssignField, caller, device
  <2>2. rx'.kind = "none" => rx'.at = 0
    <3>1. rx.kind # "none" /\ (rx' = [kind |-> "none", at |-> 0] \/ rx' = [rx EXCEPT !.at = @ + 1])
      BY <1>6 DEF AssignField
    <3>2. rx \in [kind : Kinds \cup {"none"}, at : Nat]
      BY <1>1 DEF ThreadTypes
    <3> QED BY <3>1, <3>2
  <2> QED BY <1>1, <2>1, <2>2 DEF RequestTypes, PlaceInv
<1>7. CASE BeginSample \/ BeginSetting
  BY <1>1, <1>7 DEF BeginSample, BeginSetting, Begin, receiver, device, RequestTypes, PlaceInv,
     Operations, Calibrations
<1>8. CASE BeginVersion
  BY <1>1, <1>8 DEF BeginVersion, Begin, receiver, device, RequestTypes, PlaceInv,
     Operations, Calibrations
<1>9. CASE \E func \in Calibrations : BeginCalibration(func)
  BY <1>1, <1>9 DEF BeginCalibration, Begin, Writes, receiver, RequestTypes, PlaceInv,
     Operations, Calibrations
<1>10. CASE ReadField
  BY <1>1, <1>10 DEF ReadField, receiver, device, RequestTypes, PlaceInv
<1>11. CASE ResetVersion
  <2>1. UNCHANGED <<rx, log, pending, lost, abandoned>> /\ call.phase = "reset"
    BY <1>11 DEF ResetVersion, receiver, device
  <2> QED BY <1>1, <1>11, <2>1, Resetting DEF RequestTypes, PlaceInv, Calibrations
<1>12. CASE RequestVersion
  <2>1. UNCHANGED <<rx, lost, abandoned>> /\ call.phase = "send"
    BY <1>12 DEF RequestVersion, Writes, receiver
  <2>2. /\ call' \in [op : Operations, at : Nat, req : Nat,
                     phase : {"none", "read", "reset", "send", "wait", "sleep"}]
        /\ call'.op = call.op /\ call'.req = call.req /\ call'.phase = "wait"
    BY <1>1, <1>12 DEF RequestVersion, RequestTypes
  <2>3. call.op = "version" /\ call.req = Len(log) + 1
    BY <1>1, <2>1 DEF RequestTypes, PlaceInv, Operations
  <2>4. /\ log' \in Seq(Calibrations \cup {"version"}) /\ Len(log') = Len(log) + 1
        /\ log'[Len(log')] = "version" /\ pending' = pending \cup {Len(log) + 1}
    BY <1>1, <1>12 DEF RequestVersion, Writes, RequestTypes
  <2>5. RequestTypes'
    BY <1>1, <2>1, <2>2, <2>4 DEF RequestTypes
  <2>6. log' # <<>>
    BY <1>1, <2>4
  <2> QED BY <1>1, <2>1, <2>2, <2>3, <2>4, <2>5, <2>6 DEF PlaceInv, Calibrations
<1>13. CASE ReadVersion
  <2>1. UNCHANGED <<rx, log, pending, lost, abandoned>> /\ call.op = "version" /\ call.phase = "wait"
    BY <1>13 DEF ReadVersion, VersionAnswered, receiver, device
  <2>2. /\ call' \in [op : Operations, at : Nat, req : Nat,
                     phase : {"none", "read", "reset", "send", "wait", "sleep"}]
        /\ call'.op = call.op /\ call'.req = call.req /\ call'.phase = "read" /\ call'.at = 1
    BY <1>1, <1>13 DEF ReadVersion, RequestTypes
  <2> QED BY <1>1, <2>1, <2>2 DEF RequestTypes, PlaceInv, Calibrations
<1>14. CASE Returns \/ GivesUp
  BY <1>1, <1>14 DEF Returns, GivesUp, Return, Idle, receiver, device, RequestTypes, PlaceInv,
     Operations, Calibrations
<1> QED BY <1>1, Steps, <1>2, <1>3, <1>4, <1>5, <1>6, <1>7, <1>8, <1>9, <1>10, <1>11, <1>12,
           <1>13, <1>14

LEMMA NodeTypesStep ==
  ASSUME TypeInv, [Next]_vars
  PROVE  NodeTypes'
<1>1. /\ NodeTypes /\ FieldTypes /\ Depth \in Nat /\ Depth >= 1 /\ MaxFrames \in Nat
      /\ Numbers \subseteq Nat /\ 0 \in Numbers
  BY TypeParts, DepthAssumption, DeviceAssumption DEF Numbers
<1>2. CASE UNCHANGED nodeVars
  BY <1>1, <1>2 DEF nodeVars, NodeTypes
<1>3. CASE InitTopic
  BY <1>1, <1>3 DEF InitTopic, NodeTypes
<1>4. CASE OnImu
  <2>1. vizQueue \in Seq(Numbers) /\ vizQueue # <<>>
    BY <1>1, <1>4 DEF OnImu, NodeTypes
  <2>2. Head(vizQueue) \in Numbers /\ Tail(vizQueue) \in Seq(Numbers)
        /\ Len(Tail(vizQueue)) = Len(vizQueue) - 1 /\ Len(vizQueue) \in Nat
    BY <2>1
  <2> QED BY <1>1, <1>4, <2>2 DEF OnImu, NodeTypes
<1>5. CASE PubData
  <2>1. \A v \in Vectors : (IF seen[v] = {} THEN 0 ELSE Min(seen[v])) \in Numbers
    <3>1. \A v \in Vectors : seen[v] \subseteq Numbers
      BY <1>1 DEF FieldTypes
    <3>2. ASSUME NEW v \in Vectors, seen[v] # {} PROVE Min(seen[v]) \in seen[v]
      BY <1>1, <3>1, <3>2, MinOfNumbers
    <3> QED BY <1>1, <3>1, <3>2
  <2>2. published' \in [Vectors -> Numbers]
    BY <1>5, <2>1 DEF PubData
  <2>3. published'.quat \in Numbers
    <3>1. "quat" \in Vectors
      BY VectorNames
    <3> QED BY <2>2, <3>1
  <2>4. /\ (IF Len(vizQueue) < Depth THEN vizQueue ELSE Tail(vizQueue)) \in Seq(Numbers)
        /\ Len(IF Len(vizQueue) < Depth THEN vizQueue ELSE Tail(vizQueue)) < Depth
    <3>1. vizQueue \in Seq(Numbers) /\ Len(vizQueue) \in Nat /\ Len(vizQueue) <= Depth
      BY <1>1 DEF NodeTypes
    <3>2. CASE Len(vizQueue) < Depth
      BY <3>1, <3>2
    <3>3. CASE ~(Len(vizQueue) < Depth)
      <4>1. vizQueue # <<>>
        BY <1>1, <3>3
      <4>2. Tail(vizQueue) \in Seq(Numbers) /\ Len(Tail(vizQueue)) = Len(vizQueue) - 1
        BY <3>1, <4>1
      <4> QED BY <1>1, <3>1, <3>3, <4>2
    <3> QED BY <3>2, <3>3
  <2>5. vizQueue' = KeepLast(vizQueue, published'.quat) /\ UNCHANGED <<node, marker>>
    BY <1>5 DEF PubData
  <2>6. vizQueue' \in Seq(Numbers) /\ Len(vizQueue') <= Depth
    BY <1>1, <2>3, <2>4, <2>5 DEF KeepLast
  <2> QED BY <1>1, <2>2, <2>5, <2>6 DEF NodeTypes
<1> QED BY <1>2, <1>3, <1>4, <1>5 DEF Next, Spinning, vars, nodeVars

LEMMA TypeInit == Init => TypeInv
<1> SUFFICES ASSUME Init PROVE TypeInv
  OBVIOUS
<1>1. 0 \in Numbers /\ MaxFrames \in Nat
  BY DeviceAssumption DEF Numbers
<1>2. ThreadTypes
  BY <1>1 DEF Init, SerialInit, ThreadTypes, Kinds, DataKinds
<1>3. FieldTypes
  BY <1>1 DEF Init, SerialInit, FieldTypes, NoFrames, NothingSeen
<1>4. RequestTypes
  BY DEF Init, SerialInit, RequestTypes, Idle, Operations
<1>5. PlaceInv
  BY DEF Init, SerialInit, PlaceInv, Idle, Calibrations
<1>6. NodeTypes
  BY <1>1, DepthAssumption DEF Init, NodeTypes
<1> QED BY <1>2, <1>3, <1>4, <1>5, <1>6, TypeParts

LEMMA TypeStep == TypeInv /\ [Next]_vars => TypeInv'
BY ThreadTypesStep, FieldTypesStep, RequestTypesStep, NodeTypesStep, TypePartsNext

\* Fields hold the numbers of frames, the calling thread is where its call can
\* be, a request is pending or lost and not both, and the queue of
\* imu_marker_viz keeps to its depth.
THEOREM TypeCorrect == Spec => []TypeOK
<1>1. TypeInv => TypeOK
  BY DEF TypeInv
<1> QED BY TypeInit, TypeStep, <1>1, PTL DEF Spec
-----------------------------------------------------------------------------
(* What a call reads.                                                      *)

\* A field is set to the number of the frame, the fields of other frames stay.
LEMMA Assigning ==
  ASSUME TypeInv, AssignField
  PROVE  /\ rx.kind \in Kinds /\ Len(Assigns[rx.kind]) \in Nat
         /\ rx.at \in 1 .. Len(Assigns[rx.kind]) /\ Assigns[rx.kind][rx.at] \in Fields
         /\ \A f \in Fields :
              reg'[f] = IF f = Assigns[rx.kind][rx.at] THEN Len(frames) ELSE reg[f]
         /\ \A k \in Kinds : k # rx.kind => \A f \in FieldsOf(k) : reg'[f] = reg[f]
         /\ \/ rx.at = Len(Assigns[rx.kind]) /\ rx'.kind = "none"
            \/ rx.at # Len(Assigns[rx.kind]) /\ rx'.kind = rx.kind /\ rx'.at = rx.at + 1
<1>1. /\ rx.kind \in Kinds /\ Len(Assigns[rx.kind]) \in Nat /\ rx.at \in 1 .. Len(Assigns[rx.kind])
      /\ rx \in [kind : Kinds \cup {"none"}, at : Nat] /\ reg \in [Fields -> Numbers]
  BY TypeParts, AssignsField DEF AssignField, ThreadTypes, FieldTypes
<1> DEFINE g == Assigns[rx.kind][rx.at]
<1>2. g \in Fields /\ (rx.kind # "state" => g \in FieldsOf(rx.kind)) /\ (rx.kind = "state" => g = RxFunc)
  BY <1>1, AssignsField
<1>3. reg' = [reg EXCEPT ![g] = Len(frames)]
  BY DEF AssignField
<1> HIDE DEF g
<1>4. \A f \in Fields : reg'[f] = IF f = g THEN Len(frames) ELSE reg[f]
  BY <1>1, <1>2, <1>3
<1>5. ASSUME NEW k \in Kinds, k # rx.kind, NEW f \in FieldsOf(k)
      PROVE  reg'[f] = reg[f]
  BY <1>1, <1>2, <1>4, <1>5, FieldsApart
<1>6. \/ rx.at = Len(Assigns[rx.kind]) /\ rx' = [kind |-> "none", at |-> 0]
      \/ rx.at # Len(Assigns[rx.kind]) /\ rx' = [rx EXCEPT !.at = rx.at + 1]
  BY DEF AssignField
<1>7. \/ rx.at = Len(Assigns[rx.kind]) /\ rx'.kind = "none"
      \/ rx.at # Len(Assigns[rx.kind]) /\ rx'.kind = rx.kind /\ rx'.at = rx.at + 1
  BY <1>1, <1>6
<1> QED BY <1>1, <1>2, <1>4, <1>5, <1>7 DEF g

\* Frames of data are assigned; a reset concerns the answers.
LEMMA DataStays ==
  ASSUME TypeInv, [Next]_vars, ~AssignField
  PROVE  \A k \in DataKinds : \A f \in FieldsOf(k) : reg'[f] = reg[f]
<1> SUFFICES ASSUME NEW k \in DataKinds, NEW f \in FieldsOf(k)
             PROVE  reg'[f] = reg[f]
  OBVIOUS
<1>1. k \in Kinds /\ k # "version" /\ "version" \in Kinds /\ PlaceInv /\ FieldTypes
  BY TypeParts DEF Kinds, DataKinds
<1>2. f \in Fields /\ f # RxFunc /\ f \notin FieldsOf("version")
  BY <1>1, FieldsApart
<1>3. CASE UNCHANGED reg
  BY <1>3
<1>4. CASE \E func \in Calibrations : BeginCalibration(func)
  BY <1>1, <1>2, <1>4 DEF BeginCalibration, FieldTypes
<1>5. CASE ResetVersion
  <2>1. Reads.version[call.at] \in FieldsOf("version")
    BY <1>1, <1>5, VersionFields DEF ResetVersion, PlaceInv
  <2> QED BY <1>1, <1>2, <1>5, <2>1 DEF ResetVersion, FieldTypes
<1>6. Quiet \/ Returns \/ GivesUp => UNCHANGED reg
  BY DEF Quiet, Returns, GivesUp, Return
<1>7. (\E kind \in AutoKinds : AutoReport(kind)) \/ (\E r \in pending : Answer(r))
      \/ (\E r \in pending : LoseRequest(r)) => UNCHANGED reg
  BY DEF AutoReport, Answer, Arrives, LoseRequest
<1>8. BeginSample \/ BeginVersion \/ BeginSetting \/ ReadField \/ RequestVersion \/ ReadVersion
      => UNCHANGED reg
  BY DEF BeginSample, BeginVersion, BeginSetting, ReadField, RequestVersion, ReadVersion
<1> QED BY <1>1, <1>3, <1>4, <1>5, <1>6, <1>7, <1>8, Steps

\* How the receive thread moves on.
LEMMA ReceiverSteps ==
  ASSUME PlaceInv, [Next]_vars
  PROVE  \/ UNCHANGED <<rx, frames, complete>>
         \/ AssignField
         \/ /\ rx.kind = "none" /\ rx'.at = 1 /\ UNCHANGED <<reg, complete, caller, overlap>>
            /\ \E frame : frames' = Append(frames, frame)
<1>1. Quiet \/ Returns \/ GivesUp \/ (\E r \in pending : LoseRequest(r))
      => UNCHANGED <<rx, frames, complete>>
  BY DEF Quiet, Returns, GivesUp, Return, LoseRequest, receiver
<1>2. BeginSample \/ BeginVersion \/ BeginSetting \/ (\E func \in Calibrations : BeginCalibration(func))
      => UNCHANGED <<rx, frames, complete>>
  BY DEF BeginSample, BeginVersion, BeginSetting, BeginCalibration, Begin, receiver
<1>3. ReadField \/ ResetVersion \/ RequestVersion \/ ReadVersion => UNCHANGED <<rx, frames, complete>>
  BY DEF ReadField, ResetVersion, RequestVersion, ReadVersion, receiver
<1>4. (\E kind \in AutoKinds : AutoReport(kind)) \/ (\E r \in pending : Answer(r)) =>
        /\ rx.kind = "none" /\ rx'.at = 1 /\ UNCHANGED <<reg, complete, caller, overlap>>
        /\ \E frame : frames' = Append(frames, frame)
  <2>1. ASSUME NEW kind, NEW req, Arrives(kind, req)
        PROVE  /\ rx.kind = "none" /\ rx'.at = 1 /\ UNCHANGED <<reg, complete, caller, overlap>>
               /\ \E frame : frames' = Append(frames, frame)
    BY <2>1 DEF Arrives
  <2> QED BY <2>1 DEF AutoReport, Answer
<1> QED BY <1>1, <1>2, <1>3, <1>4, Steps

LEMMA RegInvStep ==
  ASSUME TypeInv, RegInv, [Next]_vars
  PROVE  RegInv'
<1>1. ThreadTypes /\ FieldTypes /\ PlaceInv /\ Len(frames) \in Nat
  BY TypeParts DEF ThreadTypes
<1>a. \A k \in DataKinds : k \in Kinds /\ k # "state" /\ k # "none" /\ complete[k] \in Nat
  BY <1>1 DEF FieldTypes, Numbers, Kinds, DataKinds
<1>b. \A k \in DataKinds : \A f \in FieldsOf(k) : f \in Fields /\ reg[f] \in Nat
  BY <1>1, <1>a, FieldsApart DEF FieldTypes, Numbers
<1>2. CASE UNCHANGED <<rx, frames, complete>> /\ ~AssignField
  <2>1. rx'.kind # "none" => frames' # <<>>
    BY <1>2 DEF RegInv
  <2>2. ASSUME NEW k \in DataKinds
        PROVE  /\ complete'[k] <= Len(frames')
               /\ \A f \in FieldsOf(k) : reg'[f] >= complete'[k]
               /\ Untouched(k)' => \A f \in FieldsOf(k) : reg'[f] = complete'[k]
               /\ rx'.kind = k => \A j \in 1 .. rx'.at - 1 : reg'[Assigns[k][j]] = Len(frames')
    <3>1. \A f \in FieldsOf(k) : reg'[f] = reg[f]
      BY <1>2, DataStays
    <3>2. rx.kind = k => \A j \in 1 .. rx.at - 1 : Assigns[k][j] \in FieldsOf(k)
      <4>1. rx.kind = k => rx.at \in 1 .. Len(Assigns[k]) /\ Len(Assigns[k]) \in Nat
        BY <1>1, <1>a, AssignsField DEF ThreadTypes
      <4> QED BY <4>1, <1>a, AssignsField
    <3> QED BY <3>1, <3>2, <1>2 DEF RegInv, Untouched
  <2> QED BY <2>1, <2>2 DEF RegInv
<1>3. CASE rx.kind = "none" /\ rx'.at = 1 /\ UNCHANGED <<reg, complete>>
           /\ \E frame : frames' = Append(frames, frame)
  <2>1. PICK frame : frames' = Append(frames, frame)
    BY <1>3
  <2>2. Len(frames') = Len(frames) + 1 /\ frames' # <<>>
    BY <2>1, <1>1, TypeStep, TypeParts DEF ThreadTypes
  <2>3. ASSUME NEW k \in DataKinds
        PROVE  /\ complete'[k] <= Len(frames')
               /\ \A f \in FieldsOf(k) : reg'[f] >= complete'[k]
               /\ \A f \in FieldsOf(k) : reg'[f] = complete'[k]
               /\ \A j \in 1 .. rx'.at - 1 : reg'[Assigns[k][j]] = Len(frames')
    BY <1>3, <1>1, <1>a, <2>2 DEF RegInv, Untouched
  <2> QED BY <2>2, <2>3 DEF RegInv
<1>4. CASE AssignField
  <2> DEFINE g == Assigns[rx.kind][rx.at]
  <2>1. /\ rx.kind \in Kinds /\ Len(Assigns[rx.kind]) \in Nat
        /\ rx.at \in 1 .. Len(Assigns[rx.kind]) /\ g \in Fields
        /\ \A f \in Fields : reg'[f] = IF f = g THEN Len(frames) ELSE reg[f]
        /\ \A k \in Kinds : k # rx.kind => \A f \in FieldsOf(k) : reg'[f] = reg[f]
    BY <1>4, Assigning
  <2>2. \/ rx.at = Len(Assigns[rx.kind]) /\ rx'.kind = "none"
        \/ rx.at # Len(Assigns[rx.kind]) /\ rx'.kind = rx.kind /\ rx'.at = rx.at + 1
    BY <1>4, Assigning
  <2>3. /\ UNCHANGED frames /\ frames # <<>>
        /\ rx.at # Len(Assigns[rx.kind]) => UNCHANGED complete
        /\ rx.at = Len(Assigns[rx.kind]) =>
             complete' = IF rx.kind \in DataKinds
                          THEN [complete EXCEPT ![rx.kind] = Len(frames)] ELSE complete
    BY <1>4 DEF AssignField, RegInv
  <2>4. ASSUME NEW k \in DataKinds
        PROVE  /\ complete'[k] <= Len(frames')
               /\ \A f \in FieldsOf(k) : reg'[f] >= complete'[k]
               /\ Untouched(k)' => \A f \in FieldsOf(k) : reg'[f] = complete'[k]
               /\ rx'.kind = k => \A j \in 1 .. rx'.at - 1 : reg'[Assigns[k][j]] = Len(frames')
    <3>1. CASE k # rx.kind
      <4>1. complete'[k] = complete[k] /\ Untouched(k) /\ rx'.kind # k
        BY <1>1, <1>a, <2>2, <2>3, <3>1 DEF FieldTypes, Untouched
      <4> QED BY <4>1, <2>1, <2>3, <3>1, <1>a DEF RegInv
    <3>2. CASE k = rx.kind
      <4>1. ASSUME NEW j \in 1 .. rx.at PROVE reg'[Assigns[k][j]] = Len(frames)
        <5>1. j \in 1 .. Len(Assigns[k]) /\ Assigns[k][j] \in Fields
          BY <2>1, <3>2, AssignsField
        <5>2. j # rx.at => reg[Assigns[k][j]] = Len(frames)
          BY <2>1, <3>2 DEF RegInv
        <5> QED BY <5>1, <5>2, <2>1, <3>2
      <4>2. CASE rx.at = Len(Assigns[k]) /\ rx'.kind = "none"
        <5>1. complete'[k] = Len(frames)
          BY <1>1, <2>3, <3>2, <4>2 DEF FieldTypes
        <5>2. ASSUME NEW f \in FieldsOf(k) PROVE reg'[f] = Len(frames)
          <6>1. PICK j \in 1 .. Len(Assigns[k]) : Assigns[k][j] = f
            BY <1>a, AssignsOfKind
          <6> QED BY <6>1, <4>1, <4>2
        <5> QED BY <1>1, <1>a, <2>3, <4>2, <5>1, <5>2
      <4>3. CASE rx'.kind = k /\ rx'.at = rx.at + 1 /\ rx.at # Len(Assigns[k])
        <5>1. complete'[k] = complete[k] /\ complete[k] <= Len(frames)
          BY <2>3, <3>2, <4>3 DEF RegInv
        <5>2. ASSUME NEW f \in FieldsOf(k) PROVE reg'[f] >= complete[k]
          <6>1. f \in Fields /\ reg[f] \in Nat /\ reg[f] >= complete[k]
            BY <1>b DEF RegInv
          <6> QED BY <6>1, <5>1, <1>1, <1>a, <2>1
        <5>3. rx'.at # 1 /\ rx'.at - 1 = rx.at
          BY <2>1, <3>2, <4>3
        <5> QED BY <5>1, <5>2, <5>3, <4>1, <4>3, <2>3 DEF Untouched
      <4> QED BY <2>2, <3>2, <4>2, <4>3
    <3> QED BY <3>1, <3>2
  <2> QED BY <2>3, <2>4 DEF RegInv
<1> QED BY <1>1, <1>2, <1>3, <1>4, ReceiverSteps

\* How a step of the calling thread, or of nobody, leaves what a call reads.
LEMMA CallSteps ==
  ASSUME TypeInv, [Next]_vars
  PROVE  \/ UNCHANGED <<call, seen, stamp, overlap, reg>>
         \/ AssignField
         \/ \E op, phase, req : Begin(op, phase, req) /\ op \in Operations
                                /\ (op = "version" => phase = "reset")
         \/ ReadField
         \/ ResetVersion
         \/ UNCHANGED <<seen, stamp, overlap, reg>> /\ call'.op = "version" /\ call.op = "version"
            /\ (\/ call.phase = "send" /\ call'.phase = "wait"
                \/ VersionAnswered /\ call'.phase = "read")
         \/ call' = Idle /\ seen' = NothingSeen
<1>1. Quiet \/ (\E r \in pending : LoseRequest(r))
      => UNCHANGED <<call, seen, stamp, overlap, reg>>
  BY DEF Quiet, LoseRequest, caller
<1>2. (\E kind \in AutoKinds : AutoReport(kind)) \/ (\E r \in pending : Answer(r))
      => UNCHANGED <<call, seen, stamp, overlap, reg>>
  BY DEF AutoReport, Answer, Arrives, caller
<1>3. Returns \/ GivesUp => call' = Idle /\ seen' = NothingSeen
  BY DEF Returns, GivesUp, Return
<1>4. BeginSample \/ BeginVersion \/ BeginSetting \/ (\E func \in Calibrations : BeginCalibration(func))
      => \E op, phase, req : Begin(op, phase, req) /\ op \in Operations
                             /\ (op = "version" => phase = "reset")
  BY DEF BeginSample, BeginVersion, BeginSetting, BeginCalibration, Operations, Calibrations
<1>5. RequestVersion /\ call.op = "version" =>
        /\ UNCHANGED <<seen, stamp, overlap, reg>> /\ call'.op = "version"
        /\ call.phase = "send" /\ call'.phase = "wait"
  BY DEF RequestVersion
<1>6. ReadVersion =>
        /\ UNCHANGED <<seen, stamp, overlap, reg>> /\ call'.op = "version" /\ call.op = "version"
        /\ VersionAnswered /\ call'.phase = "read"
  BY DEF ReadVersion, VersionAnswered
<1>7. PlaceInv /\ (RequestVersion => call.op = "version")
  BY TypeParts DEF RequestVersion, PlaceInv, RequestTypes, Operations
<1> QED BY <1>1, <1>2, <1>3, <1>4, <1>5, <1>6, <1>7, Steps

LEMMA SampleInvStep ==
  ASSUME TypeInv, RegInv, SampleInv, [Next]_vars
  PROVE  SampleInv'
<1>1. ThreadTypes /\ FieldTypes /\ RequestTypes /\ PlaceInv /\ Len(frames) \in Nat
  BY TypeParts DEF ThreadTypes
<1>2. \A v \in Vectors : KindOf(v) \in DataKinds => KindOf(v) \in Kinds /\ KindOf(v) # "none"
  BY DEF Kinds, DataKinds
<1>3. /\ \A k \in DataKinds : complete[k] \in Nat /\ stamp[k] \in Nat
      /\ \A v \in Vectors : seen[v] \subseteq Nat
  BY <1>1 DEF FieldTypes, Numbers
<1> SUFFICES ASSUME call'.op = "sample"
             PROVE  /\ \A k \in DataKinds : stamp'[k] <= complete'[k]
                    /\ \A v \in Vectors : KindOf(v) \in DataKinds =>
                         /\ \A n \in seen'[v] : n >= stamp'[KindOf(v)]
                         /\ KindOf(v) \notin overlap' =>
                              /\ Untouched(KindOf(v))'
                              /\ \A n \in seen'[v] : n = complete'[KindOf(v)]
                    /\ seen'["version"] = {}
  BY DEF SampleInv, Untouched
<1>4. CASE AssignField
  <2>1. UNCHANGED <<call, seen, stamp, frames>>
    BY <1>4 DEF AssignField, caller
  <2>2. call.op = "sample" /\ call.op \in DOMAIN Plan
    BY <2>1, PlanFields
  <2>3. /\ rx.kind \in Kinds /\ overlap' = overlap \cup {rx.kind}
        /\ complete' = complete
           \/ (rx.kind \in DataKinds /\ complete' = [complete EXCEPT ![rx.kind] = Len(frames)])
    BY <1>4, <2>2, Assigning DEF AssignField
  <2>4. rx'.kind = rx.kind \/ rx'.kind = "none"
    BY <1>4, Assigning
  <2>5. \A k \in DataKinds : complete'[k] >= complete[k] /\ (k # rx.kind => complete'[k] = complete[k])
                              /\ complete'[k] \in Nat
    BY <1>1, <1>3, <2>3 DEF RegInv, FieldTypes
  <2>6. \A k \in DataKinds : stamp'[k] <= complete'[k]
    BY <1>3, <2>1, <2>2, <2>5 DEF SampleInv
  <2>7. ASSUME NEW v \in Vectors, KindOf(v) \in DataKinds
        PROVE  /\ \A n \in seen'[v] : n >= stamp'[KindOf(v)]
               /\ KindOf(v) \notin overlap' =>
                    Untouched(KindOf(v))' /\ \A n \in seen'[v] : n = complete'[KindOf(v)]
    BY <1>2, <2>1, <2>2, <2>3, <2>4, <2>5, <2>7 DEF SampleInv, Untouched
  <2> QED BY <2>1, <2>2, <2>6, <2>7 DEF SampleInv
<1>5. CASE UNCHANGED <<call, seen, stamp, overlap, reg>> /\ ~AssignField
  <2>1. UNCHANGED complete
    BY <1>1, <1>5, ReceiverSteps
  <2>2. ASSUME NEW k \in DataKinds, Untouched(k) PROVE Untouched(k)'
    BY <1>1, <1>5, <2>2, ReceiverSteps DEF Untouched
  <2> QED BY <1>5, <2>1, <2>2 DEF SampleInv
<1>6. ASSUME NEW op, NEW phase, NEW req, Begin(op, phase, req)
      PROVE  /\ \A k \in DataKinds : stamp'[k] <= complete'[k]
             /\ \A v \in Vectors : KindOf(v) \in DataKinds =>
                  /\ \A n \in seen'[v] : n >= stamp'[KindOf(v)]
                  /\ KindOf(v) \notin overlap' =>
                       Untouched(KindOf(v))' /\ \A n \in seen'[v] : n = complete'[KindOf(v)]
             /\ seen'["version"] = {}
  <2>1. UNCHANGED <<rx, complete>> /\ seen' = NothingSeen
    BY <1>6 DEF Begin, receiver
  <2>2. op = "sample" /\ op \in DOMAIN Plan
    BY <1>6, PlanFields DEF Begin
  <2>3. stamp' = complete /\ (rx.at > 1 => overlap' = {rx.kind})
    BY <1>6, <2>2 DEF Begin
  <2>4. ASSUME NEW k \in DataKinds, k \notin overlap' PROVE Untouched(k)'
    <3>1. k # "none" /\ (rx.kind # "none" => rx.at >= 1 /\ rx.at \in Nat)
      BY <1>1, AssignsField DEF ThreadTypes, DataKinds
    <3> QED BY <2>1, <2>3, <2>4, <3>1 DEF Untouched
  <2>5. \A v \in Vectors : seen'[v] = {}
    BY <2>1 DEF NothingSeen
  <2>6. "version" \in Vectors
    BY VectorNames
  <2> QED BY <1>3, <2>1, <2>3, <2>4, <2>5, <2>6
<1>7. CASE ReadField
  <2> DEFINE f == Plan["sample"][call.at]
  <2>1. UNCHANGED <<rx, complete, stamp, overlap>> /\ call.op = "sample" /\ call.phase = "read"
    BY <1>1, <1>7 DEF ReadField, receiver, RequestTypes
  <2>2. call.at \in 1 .. Len(Plan["sample"])
    BY <1>1, <1>7, <2>1, PlanFields DEF ReadField, PlaceInv, RequestTypes
  <2>3. f[1] \in Vectors \ {"version"} /\ f \in FieldsOf(KindOf(f[1])) /\ KindOf(f[1]) \in DataKinds
    BY <2>2, PlanFields
  <2>4. seen' = [seen EXCEPT ![f[1]] = @ \cup {reg[f]}]
    BY <1>7, <2>1 DEF ReadField
  <2>5. /\ reg[f] \in Nat /\ reg[f] >= complete[KindOf(f[1])]
        /\ Untouched(KindOf(f[1])) => reg[f] = complete[KindOf(f[1])]
    BY <1>1, <1>2, <2>3, FieldsApart DEF RegInv, FieldTypes, Numbers
  <2> HIDE DEF f
  <2>6. \A k \in DataKinds : stamp[k] <= complete[k]
    BY <2>1 DEF SampleInv
  <2>7. reg[f] >= stamp[KindOf(f[1])]
    BY <1>3, <2>3, <2>5, <2>6
  <2>8. ASSUME NEW v \in Vectors, KindOf(v) \in DataKinds
        PROVE  /\ \A n \in seen'[v] : n >= stamp[KindOf(v)]
               /\ KindOf(v) \notin overlap =>
                    Untouched(KindOf(v)) /\ \A n \in seen'[v] : n = complete[KindOf(v)]
    <3>1. \A n \in seen'[v] : n \in seen[v] \/ (v = f[1] /\ n = reg[f])
      BY <1>1, <2>3, <2>4 DEF FieldTypes
    <3>2. /\ \A n \in seen[v] : n >= stamp[KindOf(v)]
          /\ KindOf(v) \notin overlap =>
               Untouched(KindOf(v)) /\ \A n \in seen[v] : n = complete[KindOf(v)]
      BY <2>1, <2>8 DEF SampleInv
    <3> QED BY <2>5, <2>7, <3>1, <3>2
  <2>9. seen'["version"] = {}
    <3>1. "version" \in Vectors /\ seen["version"] = {}
      BY <2>1, VectorNames DEF SampleInv
    <3> QED BY <3>1, <1>1, <2>3, <2>4 DEF FieldTypes
  <2> QED BY <2>1, <2>6, <2>8, <2>9 DEF Untouched
<1>8. CASE ResetVersion \/ call'.op = "version" \/ call' = Idle
  BY <1>1, <1>8, Resetting DEF Idle
<1> QED BY <1>4, <1>5, <1>6, <1>7, <1>8, CallSteps

LEMMA VersionInvStep ==
  ASSUME TypeInv, VersionInv, [Next]_vars
  PROVE  VersionInv'
<1>1. ThreadTypes /\ FieldTypes /\ RequestTypes /\ PlaceInv /\ "version" \in Kinds
      /\ "version" \in Vectors /\ VersionH \in FieldsOf("version")
  BY TypeParts, VectorNames, FieldsApart DEF Kinds
<1>2. CASE AssignField
  <2>1. UNCHANGED <<call, seen>>
    BY <1>2 DEF AssignField, caller
  <2>2. SUFFICES ASSUME call.op = "version"
                 PROVE  VersionInv'
    BY <2>1 DEF VersionInv
  <2>3. overlap' = overlap \cup {rx.kind}
    BY <1>2, <2>2, PlanFields DEF AssignField
  <2>4. CASE rx.kind = "version"
    BY <2>1, <2>2, <2>3, <2>4 DEF VersionInv
  <2>5. CASE rx.kind # "version"
    <3>1. \A f \in FieldsOf("version") : reg'[f] = reg[f]
      BY <1>1, <1>2, <2>5, Assigning
    <3>2. rx'.kind = rx.kind \/ rx'.kind = "none"
      BY <1>2, Assigning
    <3>3. call.phase = "reset" => \A i \in 1 .. call.at - 1 : <<"version", i>> \in FieldsOf("version")
      <4>1. \A i \in 1 .. Len(Reads.version) : <<"version", i>> \in FieldsOf("version")
        BY VersionFields
      <4>2. call.phase = "reset" => call.at \in 1 .. Len(Reads.version)
        BY <1>1 DEF PlaceInv
      <4>3. Len(Reads.version) \in Nat
        BY VersionFields
      <4>4. call.phase = "reset" => 1 .. call.at - 1 \subseteq 1 .. Len(Reads.version)
        BY <4>2, <4>3
      <4> QED BY <4>1, <4>4
    <3> QED BY <1>1, <2>1, <2>2, <2>3, <2>5, <3>1, <3>2, <3>3 DEF VersionInv, Untouched
  <2> QED BY <2>4, <2>5
<1>3. ASSUME Untouched("version"), ~AssignField PROVE Untouched("version")'
  BY <1>1, <1>3, ReceiverSteps DEF Untouched
<1>4. CASE UNCHANGED <<call, seen, stamp, overlap, reg>> /\ ~AssignField
  BY <1>3, <1>4 DEF VersionInv
<1>5. ASSUME NEW op, NEW phase, NEW req, Begin(op, phase, req), op = "version" => phase = "reset",
             ~AssignField
      PROVE  VersionInv'
  <2>1. UNCHANGED rx /\ seen' = NothingSeen /\ call' = [op |-> op, phase |-> phase, at |-> 1, req |-> req]
    BY <1>5 DEF Begin, receiver
  <2>2. SUFFICES ASSUME op = "version"
                 PROVE  VersionInv'
    BY <2>1 DEF VersionInv
  <2>3. rx.at > 1 => overlap' = {rx.kind}
    BY <1>5, <2>2, PlanFields DEF Begin
  <2>4. "version" \notin overlap' => Untouched("version")'
    <3>1. rx.kind # "none" => rx.at >= 1 /\ rx.at \in Nat
      BY <1>1, AssignsField DEF ThreadTypes
    <3> QED BY <2>1, <2>3, <3>1 DEF Untouched
  <2>5. \A v \in Vectors : seen'[v] = {}
    BY <2>1 DEF NothingSeen
  <2>6. \A i \in 1 .. call'.at - 1 : reg'[<<"version", i>>] = 0
    BY <2>1
  <2> QED BY <1>1, <1>5, <2>1, <2>2, <2>4, <2>5, <2>6 DEF VersionInv
<1>6. CASE ReadField /\ ~AssignField
  <2>1. UNCHANGED overlap /\ call.phase = "read" /\ call'.op = call.op
    BY <1>1, <1>6 DEF ReadField, RequestTypes
  <2>2. SUFFICES ASSUME call.op = "version"
                 PROVE  VersionInv'
    BY <2>1 DEF VersionInv
  <2>3. "version" \in overlap
    BY <2>1, <2>2 DEF VersionInv
  <2>4. Plan[call.op][call.at][1] = "version"
    BY <1>1, <1>6, <2>1, <2>2, PlanFields, VersionFields DEF ReadField, PlaceInv, RequestTypes
  <2>5. \A v \in Vectors \ {"version"} : seen'[v] = seen[v]
    BY <1>1, <1>6, <2>4 DEF ReadField, FieldTypes
  <2> QED BY <2>1, <2>2, <2>3, <2>5 DEF VersionInv
<1>7. CASE ResetVersion /\ ~AssignField
  <2>1. UNCHANGED <<seen, overlap>> /\ call.phase = "reset"
    BY <1>7 DEF ResetVersion
  <2>2. /\ call.op = "version" /\ call.at \in 1 .. Len(Reads.version)
        /\ call'.op = "version" /\ call'.at = call.at + 1
        /\ call'.phase = IF call.at = Len(Reads.version) THEN "send" ELSE "reset"
    BY <1>1, <1>7, Resetting
  <2>3. Reads.version[call.at] = <<"version", call.at>> /\ Len(Reads.version) \in Nat
    BY <2>2, VersionFields
  <2>4. \A i \in 1 .. Len(Reads.version) : <<"version", i>> \in Fields
    BY <1>1, VersionFields, FieldsApart
  <2>5. reg' = [reg EXCEPT ![<<"version", call.at>>] = 0]
    BY <1>7, <2>3 DEF ResetVersion
  <2>6. "version" \notin overlap => \A i \in 1 .. call.at : reg'[<<"version", i>>] = 0
    <3>1. "version" \notin overlap => \A i \in 1 .. call.at - 1 : reg[<<"version", i>>] = 0
      BY <2>1, <2>2 DEF VersionInv
    <3>2. \A i \in 1 .. call.at : <<"version", i>> \in Fields /\ (i # call.at => i \in 1 .. call.at - 1)
      <4>1. 1 .. call.at \subseteq 1 .. Len(Reads.version)
        BY <2>2, <2>3
      <4>2. \A i \in 1 .. call.at : i # call.at => i \in 1 .. call.at - 1
        BY <2>2
      <4> QED BY <2>4, <4>1, <4>2
    <3>3. reg'[<<"version", call.at>>] = 0
      BY <1>1, <2>2, <2>4, <2>5 DEF FieldTypes
    <3>4. \A i \in 1 .. call.at : i # call.at => reg'[<<"version", i>>] = reg[<<"version", i>>]
      BY <1>1, <3>2, <2>5 DEF FieldTypes
    <3> QED BY <3>1, <3>2, <3>3, <3>4
  <2>7. call.at + 1 - 1 = call.at /\ call.at >= 1
    BY <2>2
  <2> QED BY <1>3, <1>7, <2>1, <2>2, <2>6, <2>7 DEF VersionInv, VersionH
<1>8. CASE /\ UNCHANGED <<seen, stamp, overlap, reg>> /\ call'.op = "version" /\ call.op = "version"
           /\ \/ call.phase = "send" /\ call'.phase = "wait"
              \/ VersionAnswered /\ call'.phase = "read"
           /\ ~AssignField
  BY <1>3, <1>8 DEF VersionInv, VersionAnswered
<1>9. CASE call' = Idle
  BY <1>9 DEF VersionInv, Idle
<1> QED BY <1>2, <1>4, <1>5, <1>6, <1>7, <1>8, <1>9, CallSteps

LEMMA OtherInvStep ==
  ASSUME TypeInv, OtherInv, [Next]_vars
  PROVE  OtherInv'
<1>1. RequestTypes /\ PlaceInv
  BY TypeParts
<1>2. CASE AssignField \/ UNCHANGED <<call, seen, stamp, overlap, reg>>
  BY <1>2 DEF AssignField, caller, OtherInv
<1>3. CASE seen' = NothingSeen
  BY <1>3 DEF OtherInv, NothingSeen
<1>4. ReadField => call'.op = call.op /\ call.op \in {"sample", "version"}
  BY <1>1 DEF ReadField, PlaceInv, RequestTypes, Operations
<1>5. ResetVersion => call'.op = "version"
  BY <1>1, Resetting
<1>6. (\E op, phase, req : Begin(op, phase, req)) => seen' = NothingSeen
  BY DEF Begin
<1> QED BY <1>2, <1>3, <1>4, <1>5, <1>6, CallSteps DEF OtherInv

LEMMA ReadInvInit == Init => ReadInv
<1> SUFFICES ASSUME Init PROVE ReadInv
  OBVIOUS
<1>1. /\ reg = [f \in Fields |-> 0] /\ rx.kind = "none" /\ frames = <<>>
      /\ complete = NoFrames /\ call.op = "idle" /\ seen = NothingSeen
  BY DEF Init, SerialInit, Idle
<1>2. \A k \in DataKinds : k \in Kinds /\ k # "none"
  BY DEF DataKinds, Kinds
<1>3. RegInv
  BY <1>1, <1>2, FieldsApart DEF RegInv, NoFrames
<1> QED BY <1>1, <1>3, TypeInit DEF ReadInv, SampleInv, VersionInv, OtherInv, NothingSeen

LEMMA ReadInvStep == ReadInv /\ [Next]_vars => ReadInv'
BY TypeStep, RegInvStep, SampleInvStep, VersionInvStep, OtherInvStep DEF ReadInv

\* A call that returns values of two frames for one vector has run while the
\* receive thread assigned a frame of that kind.
THEOREM TornVectors == Spec => []TornOnlyByOverlap
<1>1. ReadInv => TornOnlyByOverlap
  <2> SUFFICES ASSUME ReadInv, NEW v \in Vectors, Torn(v)
               PROVE  KindOf(v) \in overlap
    BY DEF TornOnlyByOverlap
  <2>1. seen[v] # {} /\ ~(\E c : \A n \in seen[v] : n = c)
    BY DEF Torn
  <2>2. CASE call.op = "sample"
    BY <2>1, <2>2, VectorKinds DEF ReadInv, SampleInv
  <2>3. CASE call.op = "version"
    BY <2>1, <2>3, VectorKinds DEF ReadInv, VersionInv
  <2>4. CASE call.op \notin {"sample", "version"}
    BY <2>1, <2>4 DEF ReadInv, OtherInv
  <2> QED BY <2>2, <2>3, <2>4
<1> QED BY ReadInvInit, ReadInvStep, <1>1, PTL DEF Spec

\* pub_data takes its stamp before it reads the data: what it publishes is not
\* older than the frames that were complete at the stamp.
THEOREM NoStaleData == Spec => []NotOlderThanStamp
<1>1. ReadInv => NotOlderThanStamp
  BY VectorKinds DEF ReadInv, SampleInv, NotOlderThanStamp
<1> QED BY ReadInvInit, ReadInvStep, <1>1, PTL DEF Spec
-----------------------------------------------------------------------------
(* What ends the waiting.                                                  *)

LEMMA RequestsBasic ==
  ASSUME TypeInv
  PROVE  /\ Len(log) \in Nat /\ Len(frames) \in Nat /\ abandoned \subseteq 1 .. Len(log)
         /\ pending \subseteq 1 .. Len(log)
         /\ \A r \in 1 .. Len(log) : log[r] \in Calibrations \cup {"version"}
         /\ \A n \in 1 .. Len(frames) : frames[n].kind \in Kinds /\ frames[n].req \in Nat
         /\ frames \in Seq([kind : Kinds, req : Nat])
         /\ log \in Seq(Calibrations \cup {"version"})
         /\ RxFunc \in Fields /\ VersionH \in Fields /\ RxFunc # VersionH
         /\ reg[RxFunc] \in Nat /\ reg[VersionH] \in Nat
         /\ reg \in [Fields -> Numbers]
<1>1. ThreadTypes /\ FieldTypes /\ RequestTypes
  BY TypeParts
<1>2. "version" \in Kinds
  BY DEF Kinds
<1>3. RxFunc \in Fields /\ VersionH \in Fields /\ RxFunc # VersionH
  BY <1>2, FieldsApart
<1>4. reg[RxFunc] \in Nat /\ reg[VersionH] \in Nat
  BY <1>1, <1>3 DEF FieldTypes, Numbers
<1>5. /\ log \in Seq(Calibrations \cup {"version"})
      /\ abandoned \subseteq 1 .. Len(log) /\ pending \subseteq 1 .. Len(log)
  BY <1>1 DEF RequestTypes
<1>6. Len(log) \in Nat /\ \A r \in 1 .. Len(log) : log[r] \in Calibrations \cup {"version"}
  BY <1>5
<1>7. frames \in Seq([kind : Kinds, req : Nat])
  BY <1>1 DEF ThreadTypes
<1>8. Len(frames) \in Nat /\ \A n \in 1 .. Len(frames) : frames[n] \in [kind : Kinds, req : Nat]
  BY <1>7, LenProperties, ElementOfSeq
<1>9. \A n \in 1 .. Len(frames) : frames[n].kind \in Kinds /\ frames[n].req \in Nat
  BY <1>8
<1>10. reg \in [Fields -> Numbers]
  BY <1>1 DEF FieldTypes
<1> QED BY <1>3, <1>4, <1>5, <1>6, <1>7, <1>8, <1>9, <1>10

LEMMA LagBasic ==
  ASSUME TypeInv, NEW r \in 1 .. Len(log)
  PROVE  /\ IsFiniteSet({q \in 1 .. Len(log) : q > r /\ log[q] = log[r]})
         /\ Lag(r) \in Nat
<1> DEFINE S == {q \in 1 .. Len(log) : q > r /\ log[q] = log[r]}
<1>1. IsFiniteSet(1 .. Len(log))
  BY RequestsBasic, FS_Interval
<1>2. IsFiniteSet(S)
  BY <1>1, FS_Subset
<1> QED BY <1>2, FS_CardinalityType DEF Lag

LEMMA GivenUpBasic ==
  ASSUME TypeInv, NEW func
  PROVE  IsFiniteSet(GivenUp(func)) /\ Cardinality(GivenUp(func)) \in Nat
<1>1. IsFiniteSet(1 .. Len(log)) /\ GivenUp(func) \subseteq 1 .. Len(log)
  BY RequestsBasic, FS_Interval DEF GivenUp
<1>2. IsFiniteSet(GivenUp(func))
  BY <1>1, FS_Subset
<1> QED BY <1>2, FS_CardinalityType

\* A later call of the same function has fewer calls behind it.
LEMMA LaterLagsLess ==
  ASSUME TypeInv, NEW r \in 1 .. Len(log), NEW s \in 1 .. Len(log), s < r, log[s] = log[r]
  PROVE  Lag(r) + 1 <= Lag(s)
<1> DEFINE R == {q \in 1 .. Len(log) : q > r /\ log[q] = log[r]}
           S == {q \in 1 .. Len(log) : q > s /\ log[q] = log[s]}
<1>1. IsFiniteSet(R) /\ IsFiniteSet(S) /\ Lag(r) = Cardinality(R) /\ Lag(s) = Cardinality(S)
  BY LagBasic DEF Lag
<1>2. R \cup {r} \subseteq S
  BY RequestsBasic
<1>3. r \notin R
  BY RequestsBasic
<1> HIDE DEF R, S
<1>4. Cardinality(R \cup {r}) = Cardinality(R) + 1
  BY <1>1, <1>3, FS_AddElement
<1>5. Cardinality(R \cup {r}) <= Cardinality(S)
  BY <1>1, <1>2, FS_Subset
<1> QED BY <1>1, <1>4, <1>5

\* A new call is behind every earlier one of its function.
LEMMA WritingLags ==
  ASSUME TypeInv, NEW func, log' = Append(log, func)
  PROVE  /\ Len(log') = Len(log) + 1 /\ log'[Len(log) + 1] = func
         /\ \A r \in 1 .. Len(log) : log'[r] = log[r]
         /\ \A r \in 1 .. Len(log) : Lag(r)' = IF log[r] = func THEN Lag(r) + 1 ELSE Lag(r)
         /\ \A r \in {Len(log) + 1} : Lag(r)' = 0
<1> DEFINE n == Len(log)
<1>1. n \in Nat
  BY RequestsBasic
<1>2. /\ Len(log') = n + 1 /\ log'[n + 1] = func
      /\ \A r \in 1 .. n : log'[r] = log[r]
  BY RequestsBasic
<1>3. ASSUME NEW r \in 1 .. n
      PROVE  Lag(r)' = IF log[r] = func THEN Lag(r) + 1 ELSE Lag(r)
  <2> DEFINE S == {q \in 1 .. n : q > r /\ log[q] = log[r]}
             T == {q \in 1 .. Len(log') : q > r /\ log'[q] = log'[r]}
  <2>1. IsFiniteSet(S) /\ Lag(r) = Cardinality(S) /\ Lag(r)' = Cardinality(T)
    BY LagBasic DEF Lag
  <2> HIDE DEF n
  <2>2. n + 1 \notin S
    BY <1>1
  <2>3. T = IF log[r] = func THEN S \cup {n + 1} ELSE S
    <3>1. 1 .. Len(log') = (1 .. n) \cup {n + 1} /\ n + 1 > r
      BY <1>1, <1>2
    <3>2. \A q \in 1 .. n : log'[q] = log'[r] <=> log[q] = log[r]
      BY <1>2
    <3>3. log'[n + 1] = log'[r] <=> log[r] = func
      BY <1>2
    <3> QED BY <3>1, <3>2, <3>3
  <2>4. Cardinality(S \cup {n + 1}) = Cardinality(S) + 1
    BY <2>1, <2>2, FS_AddElement
  <2> HIDE DEF S, T
  <2> QED BY <2>1, <2>3, <2>4
<1>4. ASSUME NEW r \in {n + 1} PROVE Lag(r)' = 0
  <2>1. {q \in 1 .. Len(log') : q > r /\ log'[q] = log'[r]} = {}
    BY <1>1, <1>2
  <2> QED BY <2>1, FS_EmptySet DEF Lag
<1> QED BY <1>2, <1>3, <1>4

LEMMA WritingGivesNothingUp ==
  ASSUME TypeInv, NEW func, log' = Append(log, func), UNCHANGED abandoned, NEW g
  PROVE  Cardinality(GivenUp(g))' = Cardinality(GivenUp(g))
<1>1. GivenUp(g)' = GivenUp(g)
  BY RequestsBasic, WritingLags DEF GivenUp
<1> QED BY <1>1

\* How a step changes the frames and the requests.
Arrived(frame) ==
  /\ rx.kind = "none" /\ rx' = [kind |-> frame.kind, at |-> 1] /\ frames' = Append(frames, frame)
  /\ frame.kind \in Kinds /\ frame.req \in Nat
  /\ UNCHANGED <<reg, call, abandoned, log>>
  /\ \/ frame.kind \notin AnswerKinds /\ UNCHANGED pending
     \/ /\ frame.kind = AnswerKind(frame.req) /\ First(frame.req)
        /\ pending' = pending \ {frame.req}

LEMMA Arriving ==
  ASSUME TypeInv, \/ \E kind \in AutoKinds : AutoReport(kind)
                  \/ \E r \in pending : Answer(r)
  PROVE  \E frame : Arrived(frame)
<1>1. CASE \E kind \in AutoKinds : AutoReport(kind)
  <2>1. PICK kind \in AutoKinds : AutoReport(kind)
    BY <1>1
  <2>2. kind \in Kinds /\ kind \notin AnswerKinds
    BY DeviceAssumption DEF Kinds, DataKinds, AnswerKinds
  <2>3. Arrived([kind |-> kind, req |-> 0])
    BY <2>1, <2>2 DEF AutoReport, Arrives, Arrived, caller, device
  <2> QED BY <2>3
<1>2. CASE \E r \in pending : Answer(r)
  <2>1. PICK r \in pending : Answer(r)
    BY <1>2
  <2>2. r \in Nat /\ AnswerKind(r) \in Kinds
    BY RequestsBasic DEF AnswerKind, Kinds
  <2>3. Arrived([kind |-> AnswerKind(r), req |-> r])
    BY <2>1, <2>2 DEF Answer, Arrives, Arrived, caller
  <2> QED BY <2>3
<1> QED BY <1>1, <1>2

\* Requests are only added, with the highest number.
Written(func) ==
  /\ log' = Append(log, func) /\ pending' = pending \cup {Len(log) + 1}
  /\ UNCHANGED <<rx, frames, abandoned>>

LEMMA RequestSteps ==
  ASSUME PlaceInv, [Next]_vars
  PROVE  \/ UNCHANGED <<rx, frames, log>> /\ pending' \subseteq pending
         \/ AssignField
         \/ (\E kind \in AutoKinds : AutoReport(kind)) \/ \E r \in pending : Answer(r)
         \/ \E func : Written(func)
<1>1. Quiet \/ Returns \/ GivesUp \/ (\E r \in pending : LoseRequest(r))
      => UNCHANGED <<rx, frames, log>> /\ pending' \subseteq pending
  BY DEF Quiet, Returns, GivesUp, Return, LoseRequest, receiver, device
<1>2. BeginSample \/ BeginVersion \/ BeginSetting \/ ReadField \/ ResetVersion \/ ReadVersion
      => UNCHANGED <<rx, frames, log>> /\ pending' \subseteq pending
  BY DEF BeginSample, BeginVersion, BeginSetting, Begin, ReadField, ResetVersion, ReadVersion,
     receiver, device
<1>3. (\E func \in Calibrations : BeginCalibration(func)) => \E func : Written(func)
  BY DEF BeginCalibration, Begin, Writes, Written, receiver
<1>4. RequestVersion => Written("version")
  BY DEF RequestVersion, Writes, Written, receiver
<1> QED BY <1>1, <1>2, <1>3, <1>4, Steps

LEMMA AnswersInOrderStep ==
  ASSUME TypeInv, AnswersInOrder, [Next]_vars
  PROVE  AnswersInOrder'
<1>1. PlaceInv /\ Len(log) \in Nat /\ Len(frames) \in Nat /\ pending \subseteq 1 .. Len(log)
  BY TypeParts, RequestsBasic
<1>2. CASE UNCHANGED <<frames, log>> /\ pending' \subseteq pending
  BY <1>2 DEF AnswersInOrder, AnswerKind
<1>3. CASE AssignField
  BY <1>2, <1>3 DEF AssignField, device
<1>4. ASSUME NEW frame, Arrived(frame) PROVE AnswersInOrder'
  <2>1. /\ Len(frames') = Len(frames) + 1 /\ frames'[Len(frames) + 1] = frame
        /\ \A n \in 1 .. Len(frames) : frames'[n] = frames[n]
        /\ UNCHANGED log /\ pending' \subseteq pending
    BY <1>4, RequestsBasic DEF Arrived
  <2>2. frame.kind \in AnswerKinds =>
          /\ frame.kind = AnswerKind(frame.req) /\ frame.req \in pending
          /\ pending' = pending \ {frame.req} /\ \A q \in pending : frame.req <= q
    BY <1>4 DEF Arrived, First
  <2>3. \A r : AnswerKind(r)' = AnswerKind(r)
    BY <2>1 DEF AnswerKind
  <2>4. ASSUME NEW n \in 1 .. Len(frames), frames[n].kind \in AnswerKinds
        PROVE  /\ (frames[n].req \in 1 .. Len(log) /\ frames[n].kind = AnswerKind(frames[n].req))'
               /\ \A r \in pending' : frames'[n].req < r
               /\ \A m \in n + 1 .. Len(frames') :
                    frames'[m].kind \in AnswerKinds => frames'[n].req < frames'[m].req
    <3>1. /\ frames[n].req \in 1 .. Len(log) /\ frames[n].kind = AnswerKind(frames[n].req)
          /\ \A r \in pending : frames[n].req < r
          /\ \A m \in n + 1 .. Len(frames) :
               frames[m].kind \in AnswerKinds => frames[n].req < frames[m].req
      BY <2>4 DEF AnswersInOrder
    <3>2. ASSUME NEW m \in n + 1 .. Len(frames'), frames'[m].kind \in AnswerKinds
          PROVE  frames[n].req < frames'[m].req
      <4>1. m \in n + 1 .. Len(frames) \/ m = Len(frames) + 1
        BY <1>1, <2>1
      <4>2. m \in n + 1 .. Len(frames) => m \in 1 .. Len(frames)
        BY <1>1
      <4> QED BY <4>1, <4>2, <3>1, <3>2, <2>1, <2>2
    <3>3. (frames[n].req \in 1 .. Len(log) /\ frames[n].kind = AnswerKind(frames[n].req))'
      BY <2>1, <3>1 DEF AnswerKind
    <3>4. \A r \in pending' : frames'[n].req < r
      BY <2>1, <3>1
    <3>5. frames'[n] = frames[n]
      BY <2>1
    <3> QED BY <3>2, <3>3, <3>4, <3>5
  <2>5. frame.kind \in AnswerKinds =>
          /\ frame.req \in 1 .. Len(log') /\ frame.kind = AnswerKind(frame.req)'
          /\ \A r \in pending' : frame.req < r
    <3> SUFFICES ASSUME frame.kind \in AnswerKinds
                 PROVE  /\ frame.req \in 1 .. Len(log') /\ frame.kind = AnswerKind(frame.req)'
                        /\ \A r \in pending' : frame.req < r
      OBVIOUS
    <3>1. frame.req \in 1 .. Len(log) /\ frame.kind = AnswerKind(frame.req)'
      BY <1>1, <2>2, <2>3
    <3>2. ASSUME NEW r \in pending' PROVE frame.req < r
      <4>1. r \in pending /\ r # frame.req /\ frame.req <= r
        BY <2>2
      <4> QED BY <4>1, <3>1, <1>1
    <3> QED BY <2>1, <3>1, <3>2
  <2>6. \A n \in 1 .. Len(frames') : n \in 1 .. Len(frames) \/ n = Len(frames) + 1
    BY <1>1, <2>1
  <2>7. Len(frames) + 1 + 1 .. Len(frames') = {}
    BY <1>1, <2>1
  <2>8. ASSUME NEW n \in 1 .. Len(frames'), frames'[n].kind \in AnswerKinds
        PROVE  /\ (frames[n].req \in 1 .. Len(log) /\ frames[n].kind = AnswerKind(frames[n].req))'
               /\ \A r \in pending' : frames'[n].req < r
               /\ \A m \in n + 1 .. Len(frames') :
                    frames'[m].kind \in AnswerKinds => frames'[n].req < frames'[m].req
    <3>1. CASE n \in 1 .. Len(frames)
      <4>1. frames[n].kind \in AnswerKinds
        BY <2>1, <2>8, <3>1
      <4> QED BY <2>4, <3>1, <4>1
    <3>2. CASE n = Len(frames) + 1
      <4>1. frames'[n] = frame /\ n + 1 .. Len(frames') = {}
        BY <2>1, <2>7, <3>2
      <4>2. frame.kind \in AnswerKinds
        BY <2>8, <4>1
      <4>3. (frames[n].kind = AnswerKind(frames[n].req))'
        BY <2>5, <4>1, <4>2 DEF AnswerKind
      <4> QED BY <2>5, <4>1, <4>2, <4>3
    <3> QED BY <2>6, <3>1, <3>2
  <2> QED BY <2>8 DEF AnswersInOrder
<1>5. ASSUME NEW func, Written(func) PROVE AnswersInOrder'
  <2>1. /\ Len(log') = Len(log) + 1 /\ \A r \in 1 .. Len(log) : log'[r] = log[r]
        /\ UNCHANGED frames /\ pending' = pending \cup {Len(log) + 1}
    BY <1>5, WritingLags DEF Written
  <2>2. \A r \in 1 .. Len(log) : r \in 1 .. Len(log') /\ r < Len(log) + 1 /\ AnswerKind(r)' = AnswerKind(r)
    BY <1>1, <2>1 DEF AnswerKind
  <2> QED BY <2>1, <2>2 DEF AnswersInOrder
<1> QED BY <1>1, <1>2, <1>3, <1>4, <1>5, Arriving, RequestSteps

LEMMA AnswerAssigned ==
  ASSUME TypeInv, AssignField
  PROVE  /\ reg'[RxFunc] = IF rx.kind = "state" THEN Len(frames) ELSE reg[RxFunc]
         /\ reg'[VersionH] = IF rx.kind = "version" /\ rx.at = 1 THEN Len(frames) ELSE reg[VersionH]
         /\ rx.kind = "state" => rx.at = 1
<1> DEFINE g == Assigns[rx.kind][rx.at]
<1>1. /\ rx.kind \in Kinds /\ rx.at \in 1 .. Len(Assigns[rx.kind])
      /\ \A f \in Fields : reg'[f] = IF f = g THEN Len(frames) ELSE reg[f]
  BY Assigning
<1>2. /\ rx.kind # "state" => g \in FieldsOf(rx.kind)
      /\ rx.kind = "state" => rx.at = 1 /\ g = RxFunc
  BY <1>1, AssignsField
<1>3. RxFunc \in Fields /\ VersionH \in Fields /\ VersionH \in FieldsOf("version") /\ "version" \in Kinds
  BY RequestsBasic, FieldsApart DEF Kinds
<1>4. g = RxFunc <=> rx.kind = "state"
  BY <1>1, <1>2, FieldsApart
<1>5. g = VersionH => rx.kind = "version"
  BY <1>1, <1>2, <1>3, FieldsApart
<1>6. rx.kind = "version" => (g = VersionH <=> rx.at = 1)
  <2>1. rx.kind = "version" => g = <<"version", rx.at>>
    BY <1>1, VersionFields
  <2> QED BY <2>1 DEF VersionH
<1> HIDE DEF g
<1> QED BY <1>1, <1>2, <1>3, <1>4, <1>5, <1>6

\* Otherwise the fields that are waited for are only reset.
LEMMA AnswerReset ==
  ASSUME TypeInv, [Next]_vars, ~AssignField
  PROVE  reg'[RxFunc] \in {0, reg[RxFunc]} /\ reg'[VersionH] \in {0, reg[VersionH]}
<1>1. PlaceInv /\ RequestTypes /\ RxFunc # VersionH /\ reg \in [Fields -> Numbers]
      /\ RxFunc \in Fields /\ VersionH \in Fields
  BY TypeParts, RequestsBasic
<1>2. CASE \E func \in Calibrations : BeginCalibration(func)
  BY <1>1, <1>2 DEF BeginCalibration
<1>3. CASE ResetVersion
  <2>1. reg' = [reg EXCEPT ![Reads.version[call.at]] = 0]
    BY <1>3 DEF ResetVersion
  <2> QED BY <1>1, <2>1
<1>4. Quiet \/ Returns \/ GivesUp \/ (\E r \in pending : LoseRequest(r)) => UNCHANGED reg
  BY DEF Quiet, Returns, GivesUp, Return, LoseRequest
<1>5. (\E kind \in AutoKinds : AutoReport(kind)) \/ (\E r \in pending : Answer(r)) => UNCHANGED reg
  BY DEF AutoReport, Answer, Arrives
<1>6. BeginSample \/ BeginVersion \/ BeginSetting \/ ReadField \/ RequestVersion \/ ReadVersion
      => UNCHANGED reg
  BY DEF BeginSample, BeginVersion, BeginSetting, ReadField, RequestVersion, ReadVersion
<1> QED BY <1>1, <1>2, <1>3, <1>4, <1>5, <1>6, Steps

LEMMA AnswersHeldStep ==
  ASSUME TypeInv, AnswersHeld, [Next]_vars
  PROVE  AnswersHeld'
<1>1. /\ PlaceInv /\ ThreadTypes /\ Len(frames) \in Nat
      /\ reg[RxFunc] \in Nat /\ reg[VersionH] \in Nat
      /\ \A f \in {RxFunc, VersionH} : reg[f] # 0 => reg[f] \in 1 .. Len(frames)
  BY TypeParts, RequestsBasic DEF AnswersHeld
<1>2. CASE UNCHANGED <<rx, frames>> /\ ~AssignField
  <2>1. reg'[RxFunc] \in {0, reg[RxFunc]} /\ reg'[VersionH] \in {0, reg[VersionH]}
    BY <1>2, AnswerReset
  <2>2. frames # <<>> => Len(frames) > 0
    BY <1>1 DEF ThreadTypes
  <2>3. rx.kind \in AnswerKinds => frames # <<>>
    BY DEF AnswersHeld, AnswerKinds
  <2>4. \A f \in {RxFunc, VersionH} :
          /\ reg'[f] <= Len(frames)
          /\ rx.kind \in AnswerKinds /\ rx.at = 1 => reg'[f] < Len(frames)
    BY <1>1, <2>1, <2>2, <2>3 DEF AnswersHeld
  <2>5. /\ reg'[RxFunc] # 0 => frames[reg'[RxFunc]].kind = "state"
        /\ reg'[VersionH] # 0 => frames[reg'[VersionH]].kind = "version"
    BY <2>1 DEF AnswersHeld
  <2> QED BY <1>2, <2>4, <2>5 DEF AnswersHeld
<1>3. CASE AssignField
  <2>1. /\ reg'[RxFunc] = IF rx.kind = "state" THEN Len(frames) ELSE reg[RxFunc]
        /\ reg'[VersionH] = IF rx.kind = "version" /\ rx.at = 1 THEN Len(frames) ELSE reg[VersionH]
    BY <1>3, AnswerAssigned
  <2>2. UNCHANGED frames /\ frames # <<>> /\ frames[Len(frames)].kind = rx.kind
    BY <1>3 DEF AssignField, AnswersHeld
  <2>3. rx'.kind = "none" \/ (rx'.kind = rx.kind /\ rx'.at # 1)
    BY <1>3, Assigning
  <2>4. \A f \in {RxFunc, VersionH} : reg'[f] <= Len(frames)
    BY <1>1, <2>1 DEF AnswersHeld
  <2>5. /\ reg'[RxFunc] # 0 => frames[reg'[RxFunc]].kind = "state"
        /\ reg'[VersionH] # 0 => frames[reg'[VersionH]].kind = "version"
    BY <2>1, <2>2 DEF AnswersHeld
  <2>6. ~(rx'.kind \in AnswerKinds /\ rx'.at = 1)
    BY <2>3 DEF AnswerKinds
  <2>7. rx'.kind # "none" => frames[Len(frames)].kind = rx'.kind
    BY <2>2, <2>3
  <2> QED BY <2>2, <2>4, <2>5, <2>6, <2>7 DEF AnswersHeld
<1>4. ASSUME NEW frame, Arrived(frame) PROVE AnswersHeld'
  <2>1. /\ Len(frames') = Len(frames) + 1 /\ frames'[Len(frames) + 1] = frame /\ UNCHANGED reg
        /\ \A n \in 1 .. Len(frames) : frames'[n] = frames[n]
        /\ rx'.kind = frame.kind
    BY <1>4, RequestsBasic DEF Arrived
  <2>2. frames' # <<>>
    BY <1>1, <1>4 DEF Arrived, ThreadTypes
  <2>3. \A f \in {RxFunc, VersionH} : reg[f] < Len(frames')
    BY <1>1, <2>1 DEF AnswersHeld
  <2>4. /\ reg[RxFunc] # 0 => frames'[reg[RxFunc]].kind = "state"
        /\ reg[VersionH] # 0 => frames'[reg[VersionH]].kind = "version"
    BY <1>1, <2>1 DEF AnswersHeld
  <2> QED BY <1>1, <2>1, <2>2, <2>3, <2>4 DEF AnswersHeld
<1> QED BY <1>1, <1>2, <1>3, <1>4, Arriving, RequestSteps DEF Written

\* What is true of the answers the fields hold.
LEMMA HeldAnswer ==
  ASSUME TypeInv, AnswersInOrder, AnswersHeld, NEW f \in {RxFunc, VersionH}, reg[f] # 0
  PROVE  /\ reg[f] \in 1 .. Len(frames) /\ frames[reg[f]].req \in 1 .. Len(log)
         /\ \A r \in 1 .. Len(log) : Late(r) => frames[reg[f]].req < r
         /\ f = VersionH => log[frames[reg[f]].req] = "version"
<1>1. /\ Len(frames) \in Nat /\ Len(log) \in Nat /\ reg[f] \in 1 .. Len(frames)
      /\ frames[reg[f]].kind \in AnswerKinds
      /\ f = VersionH => frames[reg[f]].kind = "version"
  BY RequestsBasic DEF AnswersHeld, AnswerKinds
<1> DEFINE n == reg[f]
<1>2. /\ frames[n].req \in 1 .. Len(log) /\ frames[n].kind = AnswerKind(frames[n].req)
      /\ \A r \in pending : frames[n].req < r
      /\ \A m \in n + 1 .. Len(frames) :
           frames[m].kind \in AnswerKinds => frames[n].req < frames[m].req
  BY <1>1 DEF AnswersInOrder
<1>3. ASSUME NEW r \in 1 .. Len(log), Late(r) PROVE frames[n].req < r
  <2>1. CASE r \in pending
    BY <1>2, <2>1
  <2>2. CASE rx.kind \in AnswerKinds /\ rx.at = 1 /\ frames[Len(frames)].req = r
    <3>1. n < Len(frames) /\ frames[Len(frames)].kind \in AnswerKinds
      BY <2>2 DEF AnswersHeld, AnswerKinds
    <3>2. Len(frames) \in n + 1 .. Len(frames)
      BY <1>1, <3>1
    <3> QED BY <1>2, <2>2, <3>1, <3>2
  <2> QED BY <1>3, <2>1, <2>2 DEF Late
<1> QED BY <1>1, <1>2, <1>3 DEF AnswerKind

LEMMA LateStays ==
  ASSUME LateInv, UNCHANGED <<log, abandoned>>,
         \A r \in 1 .. Len(log) : Late(r)' => Late(r),
         \A func : WaitsFor(func) => WaitsFor(func)',
         TypeInv
  PROVE  LateInv'
<1> SUFFICES ASSUME NEW r \in 1 .. Len(log), Late(r)'
             PROVE  Covered(r)'
  BY DEF LateInv
<1>1. Lag(r)' = Lag(r) /\ Lag(r) \in Nat
  BY LagBasic DEF Lag
<1>2. /\ Cardinality(GivenUp(log[r]))' = Cardinality(GivenUp(log[r]))
      /\ Cardinality(GivenUp(log[r])) \in Nat
  BY GivenUpBasic DEF GivenUp
<1>3. Lag(r) + (IF WaitsFor(log[r]) THEN 0 ELSE 1) <= Cardinality(GivenUp(log[r]))
  BY DEF LateInv, Covered
<1>4. WaitsFor(log[r]) => WaitsFor(log[r])'
  <2>1. log'[r] = log[r] /\ WaitsFor(log[r]) => WaitsFor(log[r])'
    BY DEF WaitsFor
  <2> QED BY <2>1
<1>5. Lag(r) + (IF WaitsFor(log[r])' THEN 0 ELSE 1) <= Cardinality(GivenUp(log[r]))
  BY <1>1, <1>2, <1>3, <1>4
<1>6. Lag(r)' + (IF WaitsFor(log[r])' THEN 0 ELSE 1) <= Cardinality(GivenUp(log[r]))'
  BY <1>1, <1>2, <1>5
<1> QED BY <1>6 DEF Covered

\* A new request and the waiting for it.
LEMMA LateWritten ==
  ASSUME TypeInv, LateInv, NEW func, Written(func), call.phase # "wait",
         call'.op = func, call'.phase = "wait"
  PROVE  LateInv'
<1> DEFINE n == Len(log)
<1>1. /\ n \in Nat /\ Len(log') = n + 1 /\ log'[n + 1] = func
      /\ \A r \in 1 .. n : log'[r] = log[r]
      /\ \A r \in 1 .. n : Lag(r)' = IF log[r] = func THEN Lag(r) + 1 ELSE Lag(r)
      /\ \A r \in {n + 1} : Lag(r)' = 0
  BY RequestsBasic, WritingLags DEF Written
<1>2. \A g : Cardinality(GivenUp(g))' = Cardinality(GivenUp(g)) /\ Cardinality(GivenUp(g)) \in Nat
  BY WritingGivesNothingUp, GivenUpBasic DEF Written
<1>3. \A g : ~WaitsFor(g) /\ (WaitsFor(g)' <=> g = func)
  BY DEF WaitsFor
<1>4. ASSUME NEW r \in 1 .. n, Late(r)' PROVE Covered(r)'
  <2>1. Late(r)
    BY <1>1, <1>4 DEF Late, Written
  <2>2. Lag(r) + 1 <= Cardinality(GivenUp(log[r])) /\ Lag(r) \in Nat
    BY <1>3, <2>1, LagBasic DEF LateInv, Covered
  <2>3. log'[r] = log[r] /\ Lag(r)' = IF log[r] = func THEN Lag(r) + 1 ELSE Lag(r)
    BY <1>1
  <2>4. Cardinality(GivenUp(log[r]))' = Cardinality(GivenUp(log[r]))
    <3>1. \A a \in abandoned : log'[a] = log[a]
      BY <1>1, RequestsBasic
    <3>2. GivenUp(log[r])' = GivenUp(log[r])
      BY <2>3, <3>1 DEF GivenUp, Written
    <3> QED BY <3>2
  <2>5. WaitsFor(log[r])' <=> log[r] = func
    BY <2>3 DEF WaitsFor
  <2>6. Cardinality(GivenUp(log[r])) \in Nat
    BY <1>2
  <2> HIDE DEF n
  <2>7. Lag(r)' + (IF WaitsFor(log[r])' THEN 0 ELSE 1) <= Cardinality(GivenUp(log[r]))
    BY <2>2, <2>3, <2>5, <2>6
  <2> QED BY <2>4, <2>7 DEF Covered
<1>5. ASSUME NEW r \in {n + 1} PROVE Covered(r)'
  <2>1. Lag(r)' = 0 /\ log'[r] = func
    BY <1>1
  <2>2. WaitsFor(log[r])'
    BY <2>1 DEF WaitsFor
  <2>3. Cardinality(GivenUp(log[r]))' \in Nat
    <3>1. GivenUp(log[r])' = GivenUp(func)
      BY <2>1, <1>1, RequestsBasic DEF GivenUp, Written
    <3> QED BY <3>1, GivenUpBasic
  <2> QED BY <2>1, <2>2, <2>3 DEF Covered
<1>6. \A r \in 1 .. Len(log') : r \in 1 .. n \/ r \in {n + 1}
  BY <1>1
<1> QED BY <1>4, <1>5, <1>6 DEF LateInv

\* The call that waits gets an answer: those still to come are further behind.
LEMMA LateAnswered ==
  ASSUME TypeInv, AnswersInOrder, AnswersHeld, LateInv, UNCHANGED <<log, abandoned>>,
         \A r \in 1 .. Len(log) : Late(r)' => Late(r),
         NEW f \in {RxFunc, VersionH}, reg[f] # 0,
         log[frames[reg[f]].req] = call.op,
         Lag(frames[reg[f]].req) <= Cardinality(GivenUp(call.op))
  PROVE  LateInv'
<1> SUFFICES ASSUME NEW r \in 1 .. Len(log), Late(r)'
             PROVE  Covered(r)'
  BY DEF LateInv
<1> DEFINE s == frames[reg[f]].req
<1>1. Late(r) /\ s \in 1 .. Len(log) /\ s < r
  BY HeldAnswer
<1>2. Lag(r)' = Lag(r) /\ Lag(r) \in Nat /\ Lag(s) \in Nat
  BY <1>1, LagBasic DEF Lag
<1>3. /\ Cardinality(GivenUp(log[r]))' = Cardinality(GivenUp(log[r]))
      /\ Cardinality(GivenUp(log[r])) \in Nat
  BY GivenUpBasic DEF GivenUp
<1>4. Lag(r) + 1 <= Cardinality(GivenUp(log[r]))
  <2>1. CASE log[r] = call.op
    <3>1. Lag(r) + 1 <= Lag(s)
      BY <1>1, <2>1, LaterLagsLess
    <3> HIDE DEF s
    <3>2. Lag(s) <= Cardinality(GivenUp(log[r]))
      BY <2>1 DEF s
    <3> QED BY <1>2, <1>3, <3>1, <3>2
  <2>2. CASE log[r] # call.op
    BY <1>1, <2>2 DEF LateInv, Covered, WaitsFor
  <2> QED BY <2>1, <2>2
<1>5. Lag(r)' + (IF WaitsFor(log[r])' THEN 0 ELSE 1) <= Cardinality(GivenUp(log[r]))'
  BY <1>2, <1>3, <1>4
<1> QED BY <1>5 DEF Covered

\* Nobody waits any longer, and that makes one call more that was given up.
LEMMA LateGivenUp ==
  ASSUME TypeInv, LateInv, GivesUp
  PROVE  LateInv'
<1>1. PlaceInv /\ call.phase = "wait"
  BY TypeParts DEF GivesUp
<1>2. /\ UNCHANGED <<log, rx, frames, pending>> /\ abandoned' = abandoned \cup {call.req}
      /\ call'.phase = "none"
  BY DEF GivesUp, Return, receiver, device, Idle
<1>3. call.req \in 1 .. Len(log) /\ log[call.req] = call.op /\ call.req \notin abandoned
  <2>1. call.req = Len(log) /\ log # <<>> /\ log[call.req] = call.op
    BY <1>1 DEF PlaceInv
  <2>2. Len(log) \in Nat /\ Len(log) # 0
    BY <2>1, RequestsBasic, EmptySeq
  <2> QED BY <1>1, <2>1, <2>2 DEF PlaceInv
<1> SUFFICES ASSUME NEW r \in 1 .. Len(log), Late(r)'
             PROVE  Covered(r)'
  BY <1>2 DEF LateInv
<1>4. Late(r) /\ Lag(r)' = Lag(r) /\ Lag(r) \in Nat
  BY <1>2, LagBasic DEF Lag, Late
<1>5. IsFiniteSet(GivenUp(log[r])) /\ Cardinality(GivenUp(log[r])) \in Nat
  BY GivenUpBasic
<1>6. CASE log[r] = call.op
  <2>1. GivenUp(log[r])' = GivenUp(log[r]) \cup {call.req} /\ call.req \notin GivenUp(log[r])
    BY <1>2, <1>3, <1>6 DEF GivenUp
  <2>2. Cardinality(GivenUp(log[r]))' = Cardinality(GivenUp(log[r])) + 1
    BY <1>5, <2>1, FS_AddElement
  <2>3. Lag(r) <= Cardinality(GivenUp(log[r]))
    BY <1>4, <1>5 DEF LateInv, Covered
  <2>4. Lag(r)' + (IF WaitsFor(log[r])' THEN 0 ELSE 1) <= Cardinality(GivenUp(log[r]))'
    BY <1>4, <1>5, <2>2, <2>3
  <2> QED BY <2>4 DEF Covered
<1>7. CASE log[r] # call.op
  <2>1. GivenUp(log[r])' = GivenUp(log[r])
    BY <1>2, <1>3, <1>7 DEF GivenUp
  <2>2. Lag(r) + 1 <= Cardinality(GivenUp(log[r]))
    BY <1>4, <1>7 DEF LateInv, Covered, WaitsFor
  <2>3. Lag(r)' + (IF WaitsFor(log[r])' THEN 0 ELSE 1) <= Cardinality(GivenUp(log[r]))'
    BY <1>4, <1>5, <2>1, <2>2
  <2> QED BY <2>3 DEF Covered
<1> QED BY <1>6, <1>7

\* Steps that leave the call alone.
Uncalled == UNCHANGED <<call, log, abandoned>>

LEMMA LateInvStep ==
  ASSUME AnswerInv, [Next]_vars
  PROVE  LateInv'
<1>1. /\ TypeInv /\ AnswersInOrder /\ AnswersHeld /\ LateInv /\ CalibrationLag /\ VersionLag
      /\ PlaceInv /\ RequestTypes /\ Len(frames) \in Nat
  BY TypeParts, RequestsBasic DEF AnswerInv
<1>2. CASE Quiet \/ \E r \in pending : LoseRequest(r)
  <2>1. Uncalled /\ UNCHANGED <<rx, frames>> /\ pending' \subseteq pending
    BY <1>2 DEF Quiet, LoseRequest, Uncalled, receiver, caller, device
  <2> QED BY <1>1, <2>1, LateStays DEF Uncalled, Late, WaitsFor
<1>3. ASSUME NEW frame, Arrived(frame) PROVE LateInv'
  <2>1. frames'[Len(frames')] = frame
    BY <1>3, RequestsBasic, <1>1 DEF Arrived
  <2>2. \A r : Late(r)' => Late(r)
    BY <1>3, <2>1 DEF Arrived, First, Late
  <2> QED BY <1>1, <1>3, <2>2, LateStays DEF Arrived, WaitsFor
<1>4. CASE AssignField
  <2>1. UNCHANGED <<call, log, abandoned, pending>>
    BY <1>4 DEF AssignField, caller, device
  <2>2. ~(rx'.kind \in AnswerKinds /\ rx'.at = 1)
    BY <1>1, <1>4, Assigning DEF AnswerKinds
  <2> QED BY <1>1, <2>1, <2>2, LateStays DEF Late, WaitsFor
<1>5. CASE BeginSample \/ BeginVersion \/ BeginSetting
  <2>1. UNCHANGED <<log, abandoned, rx, frames, pending>> /\ call.op = "idle"
    BY <1>5 DEF BeginSample, BeginVersion, BeginSetting, Begin, receiver, device
  <2> QED BY <1>1, <2>1, LateStays DEF Late, WaitsFor, PlaceInv
<1>6. CASE \E func \in Calibrations : BeginCalibration(func)
  <2>1. PICK func \in Calibrations : BeginCalibration(func)
    BY <1>6
  <2>2. Written(func) /\ call.op = "idle" /\ call'.op = func /\ call'.phase = "wait"
    BY <2>1 DEF BeginCalibration, Begin, Writes, Written, receiver
  <2> QED BY <1>1, <2>2, LateWritten DEF PlaceInv
<1>7. CASE ReadField \/ ResetVersion
  <2>1. UNCHANGED <<log, abandoned, rx, frames, pending>> /\ call.phase # "wait"
    BY <1>7 DEF ReadField, ResetVersion, receiver, device
  <2> QED BY <1>1, <2>1, LateStays DEF Late, WaitsFor
<1>8. CASE RequestVersion
  <2>1. call.phase = "send" /\ call.op = "version"
    BY <1>1, <1>8 DEF RequestVersion, PlaceInv, RequestTypes, Operations
  <2>2. Written("version") /\ call'.op = "version" /\ call'.phase = "wait"
    BY <1>1, <1>8, <2>1 DEF RequestVersion, Writes, Written, receiver, RequestTypes
  <2> QED BY <1>1, <2>1, <2>2, LateWritten
<1>9. CASE ReadVersion
  <2>1. UNCHANGED <<log, abandoned, rx, frames, pending>> /\ VersionAnswered
    BY <1>9 DEF ReadVersion, receiver, device
  <2>2. log[frames[reg[VersionH]].req] = call.op
    BY <1>1, <2>1, HeldAnswer DEF VersionAnswered
  <2>3. Lag(frames[reg[VersionH]].req) <= Cardinality(GivenUp(call.op))
    BY <1>1, <2>1 DEF VersionLag, VersionAnswered
  <2>4. \A r : Late(r)' => Late(r)
    BY <2>1 DEF Late
  <2>5. reg[VersionH] # 0
    BY <2>1 DEF VersionAnswered
  <2> QED BY <1>1, <2>1, <2>2, <2>3, <2>4, <2>5, LateAnswered
<1>10. CASE Returns
  <2>1. UNCHANGED <<log, abandoned, rx, frames, pending>>
    BY <1>10 DEF Returns, Return, receiver, device
  <2>2. \A r : Late(r)' => Late(r)
    BY <2>1 DEF Late
  <2>3. CASE call.phase # "wait"
    BY <1>1, <2>1, <2>2, <2>3, LateStays DEF WaitsFor
  <2>4. CASE CalibrationAnswered
    <3>1. reg[RxFunc] # 0 /\ log[frames[reg[RxFunc]].req] = call.op
      BY <2>4 DEF CalibrationAnswered, FuncOf
    <3>2. Lag(frames[reg[RxFunc]].req) <= Cardinality(GivenUp(call.op))
      BY <1>1, <2>4 DEF CalibrationLag, CalibrationAnswered
    <3> QED BY <1>1, <2>1, <2>2, <3>1, <3>2, LateAnswered
  <2> QED BY <1>10, <2>3, <2>4 DEF Returns
<1>11. CASE GivesUp
  BY <1>1, <1>11, LateGivenUp
<1> QED BY <1>1, Steps, Arriving, <1>2, <1>3, <1>4, <1>5, <1>6, <1>7, <1>8, <1>9, <1>10, <1>11

\* The lag of an answer that a field holds stays the same while no request is
\* written, and what was given up never gets less.
LEMMA HeldStays ==
  ASSUME AnswerInv, UNCHANGED <<log, abandoned>>, NEW f \in {RxFunc, VersionH}, reg[f] # 0,
         UNCHANGED reg[f], \A n \in 1 .. Len(frames) : frames'[n] = frames[n]
  PROVE  /\ frames'[reg'[f]].req = frames[reg[f]].req
         /\ Lag(frames[reg[f]].req)' = Lag(frames[reg[f]].req)
         /\ \A func : Cardinality(GivenUp(func))' = Cardinality(GivenUp(func))
<1>1. frames'[reg'[f]] = frames[reg[f]]
  BY HeldAnswer DEF AnswerInv
<1>2. \A func : GivenUp(func)' = GivenUp(func)
  BY DEF GivenUp
<1> QED BY <1>1, <1>2 DEF Lag

\* The frame being received answers a request that was late until now.
LEMMA ReceivedWasLate ==
  ASSUME AnswerInv, AssignField, rx.kind \in AnswerKinds, rx.at = 1
  PROVE  LET r == frames[Len(frames)].req
         IN  /\ r \in 1 .. Len(log) /\ Covered(r)
             /\ rx.kind = "version" => log[r] = "version"
<1>1. frames # <<>> /\ frames[Len(frames)].kind = rx.kind
  BY DEF AnswerInv, AnswersHeld, AnswerKinds
<1>2. Len(frames) \in 1 .. Len(frames)
  BY <1>1, RequestsBasic, EmptySeq DEF AnswerInv
<1>3. frames[Len(frames)].req \in 1 .. Len(log) /\ rx.kind = AnswerKind(frames[Len(frames)].req)
  BY <1>1, <1>2 DEF AnswerInv, AnswersInOrder
<1>4. Late(frames[Len(frames)].req)
  BY DEF Late
<1> QED BY <1>3, <1>4 DEF AnswerInv, LateInv, AnswerKind

LEMMA CalibrationLagStep ==
  ASSUME AnswerInv, [Next]_vars
  PROVE  CalibrationLag'
<1>1. /\ TypeInv /\ AnswersInOrder /\ AnswersHeld /\ CalibrationLag
      /\ PlaceInv /\ RequestTypes /\ Len(frames) \in Nat
  BY TypeParts, RequestsBasic DEF AnswerInv
<1>2. ASSUME Uncalled, UNCHANGED reg[RxFunc], \A n \in 1 .. Len(frames) : frames'[n] = frames[n]
      PROVE  CalibrationLag'
  <2> SUFFICES ASSUME call.op \in Calibrations, reg[RxFunc] # 0, FuncOf(reg[RxFunc])' = call.op
               PROVE  Lag(frames[reg[RxFunc]].req)' <= Cardinality(GivenUp(call.op))'
    BY <1>2 DEF CalibrationLag, Uncalled
  <2>1. /\ frames'[reg'[RxFunc]].req = frames[reg[RxFunc]].req
        /\ Lag(frames[reg[RxFunc]].req)' = Lag(frames[reg[RxFunc]].req)
        /\ \A func : Cardinality(GivenUp(func))' = Cardinality(GivenUp(func))
    BY <1>2, HeldStays DEF Uncalled
  <2>2. FuncOf(reg[RxFunc]) = call.op
    BY <1>2, <2>1 DEF FuncOf, Uncalled
  <2>3. Lag(frames[reg[RxFunc]].req) <= Cardinality(GivenUp(call.op))
    BY <1>1, <2>2 DEF CalibrationLag
  <2>4. GivenUp(call.op)' = GivenUp(call.op)
    BY <1>2 DEF GivenUp, Uncalled
  <2> QED BY <2>1, <2>3, <2>4
<1>3. CASE Quiet \/ \E r \in pending : LoseRequest(r)
  BY <1>2, <1>3 DEF Quiet, LoseRequest, Uncalled, receiver, caller, device
<1>4. ASSUME NEW frame, Arrived(frame) PROVE CalibrationLag'
  <2>1. \A n \in 1 .. Len(frames) : frames'[n] = frames[n]
    BY <1>4, RequestsBasic, <1>1 DEF Arrived
  <2> QED BY <1>2, <1>4, <2>1 DEF Arrived, Uncalled
<1>5. CASE AssignField
  <2>1. Uncalled /\ UNCHANGED frames
    BY <1>5 DEF AssignField, Uncalled, caller, device
  <2>2. CASE rx.kind # "state"
    BY <1>1, <1>2, <1>5, <2>1, <2>2, AnswerAssigned
  <2>3. CASE rx.kind = "state"
    <3>1. reg'[RxFunc] = Len(frames) /\ rx.at = 1
      BY <1>1, <1>5, <2>3, AnswerAssigned
    <3> DEFINE r == frames[Len(frames)].req
    <3>2. r \in 1 .. Len(log) /\ Covered(r)
      BY <1>5, <2>3, <3>1, ReceivedWasLate DEF AnswerKinds
    <3> SUFFICES ASSUME call.op \in Calibrations, FuncOf(reg[RxFunc])' = call.op
                 PROVE  Lag(frames[reg[RxFunc]].req)' <= Cardinality(GivenUp(call.op))'
      BY <2>1 DEF CalibrationLag, Uncalled
    <3>3. log[r] = call.op
      BY <2>1, <3>1 DEF FuncOf, Uncalled
    <3>4. WaitsFor(log[r])
      BY <1>1, <3>3 DEF WaitsFor, PlaceInv
    <3>5. Lag(r) <= Cardinality(GivenUp(call.op))
      <4>1. Lag(r) \in Nat
        BY <1>1, <3>2, LagBasic
      <4>2. Lag(r) + 0 <= Cardinality(GivenUp(log[r]))
        BY <3>2, <3>4 DEF Covered
      <4> QED BY <3>3, <4>1, <4>2
    <3>6. GivenUp(call.op)' = GivenUp(call.op)
      BY <2>1 DEF GivenUp, Uncalled
    <3>7. Lag(frames[reg[RxFunc]].req)' = Lag(r)
      BY <2>1, <3>1 DEF Lag, Uncalled
    <3> QED BY <3>5, <3>6, <3>7
  <2> QED BY <2>2, <2>3
<1>6. CASE BeginSample \/ BeginVersion \/ BeginSetting
  BY <1>6 DEF BeginSample, BeginVersion, BeginSetting, Begin, CalibrationLag, Calibrations
<1>7. CASE \E func \in Calibrations : BeginCalibration(func)
  <2>1. reg'[RxFunc] = 0
    BY <1>1, <1>7, RequestsBasic DEF BeginCalibration
  <2> QED BY <2>1 DEF CalibrationLag
<1>8. CASE ReadField \/ RequestVersion
  <2>1. call'.op = call.op /\ call.phase \in {"read", "send"}
    BY <1>1, <1>8 DEF ReadField, RequestVersion, RequestTypes
  <2> QED BY <1>1, <2>1 DEF CalibrationLag, PlaceInv
<1>9. CASE ResetVersion \/ ReadVersion
  <2>1. call'.op = "version"
    BY <1>1, <1>9, Resetting DEF ReadVersion, VersionAnswered, RequestTypes
  <2> QED BY <2>1 DEF CalibrationLag, Calibrations
<1>10. CASE Returns \/ GivesUp
  BY <1>10 DEF Returns, GivesUp, Return, Idle, CalibrationLag, Calibrations
<1> QED BY <1>1, Steps, Arriving, <1>3, <1>4, <1>5, <1>6, <1>7, <1>8, <1>9, <1>10

LEMMA VersionLagStep ==
  ASSUME AnswerInv, [Next]_vars
  PROVE  VersionLag'
<1>1. /\ TypeInv /\ AnswersInOrder /\ AnswersHeld /\ VersionLag
      /\ PlaceInv /\ RequestTypes /\ Len(frames) \in Nat
  BY TypeParts, RequestsBasic DEF AnswerInv
\* What VersionLag says of the answer in the field, for the next state.
<1> DEFINE Held == /\ UNCHANGED <<log, abandoned>> /\ UNCHANGED reg[VersionH]
                   /\ \A n \in 1 .. Len(frames) : frames'[n] = frames[n]
<1>2. ASSUME Held, reg[VersionH] # 0
      PROVE  /\ Lag(frames[reg[VersionH]].req)' = Lag(frames[reg[VersionH]].req)
             /\ Cardinality(GivenUp("version"))' = Cardinality(GivenUp("version"))
  BY <1>2, HeldStays
<1>3. ASSUME Held, call'.op = "version" => call.op = "version",
             call'.phase \in {"wait", "send"} => call'.phase = call.phase,
             call'.phase = "reset" => call.phase = "reset" /\ call'.at = call.at
      PROVE  VersionLag'
  <2> SUFFICES ASSUME call'.op = "version", reg[VersionH] # 0
               PROVE  /\ call'.phase = "wait" =>
                           Lag(frames[reg[VersionH]].req)' <= Cardinality(GivenUp("version"))'
                      /\ call'.phase = "send" \/ (call'.phase = "reset" /\ call'.at > 1) =>
                           Lag(frames[reg[VersionH]].req)' + 1 <= Cardinality(GivenUp("version"))'
    BY <1>3 DEF VersionLag
  <2>1. /\ call.phase = "wait" =>
             Lag(frames[reg[VersionH]].req) <= Cardinality(GivenUp("version"))
        /\ call.phase = "send" \/ (call.phase = "reset" /\ call.at > 1) =>
             Lag(frames[reg[VersionH]].req) + 1 <= Cardinality(GivenUp("version"))
    BY <1>1, <1>3 DEF VersionLag
  <2> QED BY <1>2, <1>3, <2>1
<1>4. CASE Quiet \/ \E r \in pending : LoseRequest(r)
  BY <1>3, <1>4 DEF Quiet, LoseRequest, receiver, caller, device
<1>5. ASSUME NEW frame, Arrived(frame) PROVE VersionLag'
  <2>1. \A n \in 1 .. Len(frames) : frames'[n] = frames[n]
    BY <1>5, RequestsBasic, <1>1 DEF Arrived
  <2> QED BY <1>3, <1>5, <2>1 DEF Arrived
<1>6. CASE AssignField
  <2>1. Uncalled /\ UNCHANGED frames
    BY <1>6 DEF AssignField, Uncalled, caller, device
  <2>2. CASE ~(rx.kind = "version" /\ rx.at = 1)
    <3>1. UNCHANGED reg[VersionH]
      BY <1>1, <1>6, <2>2, AnswerAssigned
    <3> QED BY <1>3, <2>1, <3>1 DEF Uncalled
  <2>3. CASE rx.kind = "version" /\ rx.at = 1
    <3>1. reg'[VersionH] = Len(frames)
      BY <1>1, <1>6, <2>3, AnswerAssigned
    <3> DEFINE r == frames[Len(frames)].req
               g == Cardinality(GivenUp("version"))
    <3>2. r \in 1 .. Len(log) /\ Covered(r) /\ log[r] = "version"
      BY <1>6, <2>3, ReceivedWasLate DEF AnswerKinds
    <3>3. Lag(r) \in Nat /\ g \in Nat
      BY <1>1, <3>2, LagBasic, GivenUpBasic
    <3>4. Lag(r) + (IF WaitsFor("version") THEN 0 ELSE 1) <= g
      BY <3>2 DEF Covered
    <3>5. Lag(frames[reg[VersionH]].req)' = Lag(r) /\ Cardinality(GivenUp("version"))' = g
      BY <2>1, <3>1 DEF Lag, GivenUp, Uncalled
    <3>6. UNCHANGED call
      BY <2>1 DEF Uncalled
    <3> HIDE DEF r, g
    <3>7. call.op = "version" =>
            /\ call.phase = "wait" => Lag(r) <= g
            /\ call.phase # "wait" => Lag(r) + 1 <= g
      BY <3>3, <3>4 DEF WaitsFor
    <3> QED BY <3>5, <3>6, <3>7 DEF VersionLag
  <2> QED BY <2>2, <2>3
<1>7. CASE BeginSample \/ BeginSetting \/ \E func \in Calibrations : BeginCalibration(func)
  BY <1>7 DEF BeginSample, BeginSetting, BeginCalibration, Begin, VersionLag, Calibrations
<1>8. CASE BeginVersion
  BY <1>8 DEF BeginVersion, Begin, VersionLag
<1>9. CASE ReadField
  <2>1. call'.phase = "read"
    BY <1>1, <1>9 DEF ReadField, RequestTypes
  <2> QED BY <2>1 DEF VersionLag
<1>10. CASE ResetVersion
  <2>1. /\ call.op = "version" /\ call.phase = "reset" /\ call.at \in 1 .. Len(Reads.version)
        /\ call'.op = "version" /\ call'.at = call.at + 1
        /\ call'.phase = IF call.at = Len(Reads.version) THEN "send" ELSE "reset"
    BY <1>1, <1>10, Resetting DEF ResetVersion
  <2>2. /\ reg' = [reg EXCEPT ![<<"version", call.at>>] = 0]
        /\ UNCHANGED <<log, frames, abandoned>>
    BY <1>10, <2>1, VersionFields DEF ResetVersion, receiver, device
  <2>3. CASE call.at = 1
    <3>1. reg'[VersionH] = 0
      BY <1>1, <2>2, <2>3, RequestsBasic DEF VersionH
    <3> QED BY <3>1 DEF VersionLag
  <2>4. CASE call.at # 1
    <3>1. Held
      <4>1. <<"version", call.at>> # VersionH
        BY <2>4 DEF VersionH
      <4> QED BY <1>1, <2>2, <4>1, RequestsBasic
    <3>2. call.at > 1 /\ call'.phase \in {"send", "reset"}
      BY <2>1, <2>4
    <3> SUFFICES ASSUME reg[VersionH] # 0
                 PROVE  Lag(frames[reg[VersionH]].req)' + 1 <= Cardinality(GivenUp("version"))'
      BY <2>1, <3>1, <3>2 DEF VersionLag
    <3>3. Lag(frames[reg[VersionH]].req) + 1 <= Cardinality(GivenUp("version"))
      BY <1>1, <2>1, <3>2 DEF VersionLag
    <3> QED BY <1>2, <3>1, <3>3
  <2> QED BY <2>3, <2>4
<1>11. CASE RequestVersion
  <2>1. call.phase = "send" /\ call.op = "version" /\ call'.phase = "wait"
    BY <1>1, <1>11 DEF RequestVersion, PlaceInv, RequestTypes, Operations
  <2>2. log' = Append(log, "version") /\ UNCHANGED <<reg, frames, abandoned>>
    BY <1>11 DEF RequestVersion, Writes, receiver
  <2> SUFFICES ASSUME reg[VersionH] # 0
               PROVE  Lag(frames[reg[VersionH]].req)' <= Cardinality(GivenUp("version"))'
    BY <2>1, <2>2 DEF VersionLag
  <2> DEFINE r == frames[reg[VersionH]].req
             g == Cardinality(GivenUp("version"))
  <2>3. r \in 1 .. Len(log) /\ log[r] = "version"
    BY <1>1, HeldAnswer
  <2>4. Lag(r) + 1 <= g
    BY <1>1, <2>1 DEF VersionLag
  <2>5. \A q \in 1 .. Len(log) : Lag(q)' = IF log[q] = "version" THEN Lag(q) + 1 ELSE Lag(q)
    BY <1>1, <2>2, WritingLags
  <2>6. Cardinality(GivenUp("version"))' = g
    BY <1>1, <2>2, WritingGivesNothingUp
  <2>7. Lag(frames[reg[VersionH]].req)' = Cardinality({q \in 1 .. Len(log') : q > r /\ log'[q] = log'[r]})
    BY <2>2 DEF Lag
  <2> HIDE DEF r, g
  <2>8. Cardinality({q \in 1 .. Len(log') : q > r /\ log'[q] = log'[r]}) = Lag(r) + 1
    <3>1. \A q \in 1 .. Len(log) :
            Cardinality({p \in 1 .. Len(log') : p > q /\ log'[p] = log'[q]})
            = IF log[q] = "version" THEN Lag(q) + 1 ELSE Lag(q)
      BY <2>5 DEF Lag
    <3> QED BY <2>3, <3>1
  <2> QED BY <2>4, <2>6, <2>7, <2>8
<1>12. CASE ReadVersion
  <2>1. call'.phase = "read"
    BY <1>1, <1>12 DEF ReadVersion, RequestTypes
  <2> QED BY <2>1 DEF VersionLag
<1>13. CASE Returns \/ GivesUp
  BY <1>13 DEF Returns, GivesUp, Return, Idle, VersionLag
<1> QED BY <1>1, Steps, Arriving, <1>4, <1>5, <1>6, <1>7, <1>8, <1>9, <1>10, <1>11, <1>12, <1>13

LEMMA AnswerInvInit == Init => AnswerInv
<1> SUFFICES ASSUME Init PROVE AnswerInv
  OBVIOUS
<1>1. /\ frames = <<>> /\ log = <<>> /\ rx.kind = "none" /\ call.op = "idle"
      /\ reg = [f \in Fields |-> 0]
  BY DEF Init, SerialInit, Idle
<1>2. reg[RxFunc] = 0 /\ reg[VersionH] = 0
  BY <1>1, TypeInit, RequestsBasic
<1>3. Len(frames) = 0 /\ Len(log) = 0
  BY <1>1
<1>4. AnswersInOrder
  BY <1>3 DEF AnswersInOrder
<1>5. AnswersHeld
  BY <1>1, <1>2, <1>3 DEF AnswersHeld, AnswerKinds
<1>6. LateInv
  BY <1>3 DEF LateInv
<1> QED BY <1>1, <1>2, <1>4, <1>5, <1>6, TypeInit DEF AnswerInv, CalibrationLag, VersionLag

\* The answer that ends the waiting of a call is at most as many calls of its
\* function old as were given up.
THEOREM AnswersLag == Spec => []LagsByGivenUp
<1>1. AnswerInv /\ [Next]_vars => AnswerInv'
  BY TypeStep, AnswersInOrderStep, AnswersHeldStep, LateInvStep, CalibrationLagStep, VersionLagStep
     DEF AnswerInv
<1>2. AnswerInv => LagsByGivenUp
  BY DEF AnswerInv, CalibrationLag, VersionLag, LagsByGivenUp, CalibrationAnswered, VersionAnswered
<1> QED BY AnswerInvInit, <1>1, <1>2, PTL DEF Spec
=============================================================================
