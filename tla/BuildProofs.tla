---------------------------- MODULE BuildProofs ----------------------------
(***************************************************************************)
(* Proofs about what a build is made of and what a store serves: for any   *)
(* number of builds, graphs, executors and caches, and for any number of   *)
(* processes that share a directory.                                       *)
(***************************************************************************)
EXTENDS ActionBuild, ArtifactStore, TLAPS

(* The actions of a build. *)

\* What a key stands for: an output of unchanged arguments.
Genuine(k) == [key |-> k, bent |-> FALSE]

\* A cache has, under a key, what the key stands for, or a damaged entry.
CachePure(cache) ==
  /\ DOMAIN cache \subseteq Keys
  /\ \A k \in DOMAIN cache : cache[k] \in {Genuine(k)} \cup Damaged

CachesPure ==
  /\ DOMAIN local = Hosts /\ \A h \in Hosts : CachePure(local[h])
  /\ CachePure(remote)

\* The output of an action of a build: its own, and not cacheable if its
\* arguments were changed, here or upstream.
OwnOutput(b, a, output) ==
  /\ output \in Outputs
  /\ output.key = Key(b, a)
  /\ output.bent => a \in tainted[b] /\ Upstream[a] \cap changed[b] # {}

\* A build is at one of its actions while it asks for it, runs it or stores it.
Busy == {"local", "remote", "fill", "run", "store", "share"}

BuildGood(b) ==
  /\ Len(out[b]) <= Count
  /\ phase[b] \in Busy => Len(out[b]) < Count
  /\ phase[b] \in {"fill", "store", "share"} => held[b] = Genuine(KeyNow(b))
  /\ phase[b] \notin {"fill", "store", "share"} => held[b] = Absent
  /\ \A a \in 1 .. Len(out[b]) : OwnOutput(b, a, out[b][a])

BuildInv ==
  /\ workload \in Workloads
  /\ status \in [Builds -> {"running", "done", "failed"}]
  /\ phase \in [Builds -> Busy \cup {"begin", "idle"}]
  /\ held = [c \in Builds |-> held[c]] /\ out \in [Builds -> Seq(Outputs)]
  /\ tainted \in [Builds -> SUBSET Actions] /\ changed \in [Builds -> SUBSET Actions]
  /\ \A b \in Builds : BuildGood(b)
  /\ CachesPure

\* Every key a build asks for is one of the keys.
LEMMA KeyIsKey ==
  ASSUME workload \in Workloads, NEW b \in Builds, NEW a \in Actions
  PROVE  Key(b, a) \in Keys
  BY DEF Key, Keys

\* An action is among those its key reaches, and so are those its
\* dependencies reach; nothing else is.
LEMMA UpstreamParts ==
  ASSUME NEW a \in Actions
  PROVE  /\ a \in Upstream[a]
         /\ \A d \in Needs[a] : d \in 1 .. a - 1 /\ Upstream[d] \subseteq Upstream[a]
         /\ \A x \in Upstream[a] : x # a => \E d \in Needs[a] : x \in Upstream[d]
  BY BuildConstants DEF BuildConstants

\* An output that goes into a directory or into Redis leaves it pure.
LEMMA WithPure ==
  ASSUME NEW cache, CachePure(cache), NEW k \in Keys, NEW entry \in {Genuine(k)} \cup Damaged
  PROVE  CachePure(With(cache, k, entry))
  BY DEF CachePure, With

LEMMA WithoutPure ==
  ASSUME NEW cache, CachePure(cache), NEW k
  PROVE  CachePure(Without(cache, k))
  BY DEF CachePure, Without

\* What a cache hands out intact is what its key stands for.
LEMMA HitIsGenuine ==
  ASSUME NEW cache, CachePure(cache), NEW k, Intact(EntryAt(cache, k))
  PROVE  EntryAt(cache, k) = Genuine(k)
  BY DEF CachePure, Intact, EntryAt, Damaged

\* An action that runs on the outputs of its own build makes an output of its
\* own, changed if something of it was.
LEMMA MadeIsOwn ==
  ASSUME BuildInv, NEW b \in Builds, At(b) \in Actions, NEW bent \in BOOLEAN
  PROVE  /\ Made(b, At(b), bent) \in Outputs
         /\ Made(b, At(b), bent).key = KeyNow(b)
         /\ Made(b, At(b), bent).bent =>
              bent \/ (FromTainted(b) /\ Upstream[At(b)] \cap changed[b] # {})
<1> DEFINE a == At(b)
           made == Made(b, a, bent)
           pins == [x \in Upstream[a] |->
                      IF x = a THEN workload[b].pins[a]
                      ELSE LET d == CHOOSE d \in Needs[a] : x \in Upstream[d]
                           IN  out[b][d].key.from[x]]
<1>1. \A d \in Needs[a] : d \in 1 .. Len(out[b]) /\ OwnOutput(b, d, out[b][d])
  BY UpstreamParts DEF BuildInv, BuildGood, At
<1>2. ASSUME NEW x \in Upstream[a]
      PROVE  pins[x] = workload[b].pins[x]
  <2>1. CASE x = a
    BY <2>1
  <2>2. CASE x # a
    <3> DEFINE d == CHOOSE d \in Needs[a] : x \in Upstream[d]
    <3>1. d \in Needs[a] /\ x \in Upstream[d]
      BY <2>2, UpstreamParts
    <3>2. out[b][d].key = Key(b, d)
      BY <1>1, <3>1 DEF OwnOutput
    <3>3. out[b][d].key.from[x] = workload[b].pins[x]
      BY <3>1, <3>2 DEF Key, KeyOf
    <3> QED
      BY <2>2, <3>3
  <2> QED
    BY <2>1, <2>2
<1>3. made.key = Key(b, a)
  <2>1. [x \in Upstream[a] |-> pins[x]] = [x \in Upstream[a] |-> workload[b].pins[x]]
    BY <1>2
  <2> QED
    BY <2>1 DEF Made, Key, KeyOf
<1>4. made.bent \in BOOLEAN /\ made \in Outputs
  <2>1. made.bent = (bent \/ \E d \in Needs[a] : out[b][d].bent)
    BY DEF Made
  <2>2. made.bent \in BOOLEAN
    BY <2>1
  <2>3. made = [key |-> Key(b, a), bent |-> made.bent]
    BY <1>3 DEF Made
  <2>4. Key(b, a) \in Keys
    BY KeyIsKey DEF BuildInv
  <2> QED
    BY <2>2, <2>3, <2>4 DEF Outputs
<1>5. ASSUME made.bent, ~bent
      PROVE  FromTainted(b) /\ Upstream[a] \cap changed[b] # {}
  <2>1. PICK d \in Needs[a] : out[b][d].bent
    BY <1>5 DEF Made
  <2>2. d \in tainted[b] /\ Upstream[d] \cap changed[b] # {}
    BY <1>1, <2>1 DEF OwnOutput
  <2> QED
    BY <2>1, <2>2, UpstreamParts DEF FromTainted
<1> QED
  BY <1>3, <1>4, <1>5 DEF KeyNow

LEMMA BuildInitInv == BuildInit => BuildInv
  BY BuildConstants DEF BuildConstants, BuildInit, BuildInv, BuildGood, CachesPure, CachePure, Busy, Damaged

\* A step of one build: the variables of the others stay.
Moves(b) ==
  /\ workload' = workload
  /\ status' \in [Builds -> {"running", "done", "failed"}]
  /\ \E p \in Busy \cup {"begin", "idle"} : phase' = [phase EXCEPT ![b] = p]
  /\ \E entry : held' = [held EXCEPT ![b] = entry]
  /\ \E os \in Seq(Outputs) : out' = [out EXCEPT ![b] = os]
  /\ \E as \in SUBSET Actions : tainted' = [tainted EXCEPT ![b] = as]
  /\ \E as \in SUBSET Actions : changed' = [changed EXCEPT ![b] = as]

\* If it leaves the build with outputs of its own and the caches pure, the
\* invariant is kept.
LEMMA OneBuild ==
  ASSUME BuildInv, NEW b \in Builds, Moves(b), BuildGood(b)', CachesPure'
  PROVE  BuildInv'
<1>1. /\ workload' \in Workloads
      /\ phase' \in [Builds -> Busy \cup {"begin", "idle"}]
      /\ held' = [c \in Builds |-> held'[c]] /\ out' \in [Builds -> Seq(Outputs)]
      /\ tainted' \in [Builds -> SUBSET Actions] /\ changed' \in [Builds -> SUBSET Actions]
      /\ status' \in [Builds -> {"running", "done", "failed"}]
  <2>1. workload' \in Workloads /\ status' \in [Builds -> {"running", "done", "failed"}]
    BY DEF BuildInv, Moves
  <2>2. phase' \in [Builds -> Busy \cup {"begin", "idle"}]
    BY DEF BuildInv, Moves
  <2>3. held' = [c \in Builds |-> held'[c]]
    <3>1. held = [c \in Builds |-> held[c]]
      BY DEF BuildInv
    <3>2. PICK entry : held' = [held EXCEPT ![b] = entry]
      BY DEF Moves
    <3> QED
      BY <3>1, <3>2
  <2>6. out' \in [Builds -> Seq(Outputs)]
    BY DEF BuildInv, Moves
  <2>4. tainted' \in [Builds -> SUBSET Actions]
    <3>1. tainted \in [Builds -> SUBSET Actions]
      BY DEF BuildInv
    <3>2. PICK as \in SUBSET Actions : tainted' = [tainted EXCEPT ![b] = as]
      BY DEF Moves
    <3> QED
      BY <3>1, <3>2
  <2>5. changed' \in [Builds -> SUBSET Actions]
    <3>1. changed \in [Builds -> SUBSET Actions]
      BY DEF BuildInv
    <3>2. PICK as \in SUBSET Actions : changed' = [changed EXCEPT ![b] = as]
      BY DEF Moves
    <3> QED
      BY <3>1, <3>2
  <2> QED
    BY <2>1, <2>2, <2>3, <2>4, <2>5, <2>6
<1>2. ASSUME NEW c \in Builds, c # b
      PROVE  /\ phase'[c] = phase[c] /\ held'[c] = held[c] /\ out'[c] = out[c]
             /\ tainted'[c] = tainted[c] /\ changed'[c] = changed[c]
  BY <1>2 DEF BuildInv, Moves
<1>3. ASSUME NEW c \in Builds
      PROVE  BuildGood(c)'
  <2>1. CASE c = b
    BY <2>1
  <2>2. CASE c # b
    <3>1. BuildGood(c)
      BY DEF BuildInv
    <3> QED
      BY <1>2, <2>2, <3>1 DEF Moves, BuildGood, OwnOutput, KeyNow, Key, At
  <2> QED
    BY <2>1, <2>2
<1> QED
  BY <1>1, <1>3 DEF BuildInv, CachesPure

\* The build has the outputs of its action and goes on.
LEMMA ProceedKeeps ==
  ASSUME BuildInv, NEW b \in Builds, NEW a, a = At(b), NEW entry, Len(out[b]) < Count,
         Proceed(b, entry), workload' = workload, OwnOutput(b, a, entry)',
         tainted[b] \subseteq tainted'[b], changed[b] \subseteq changed'[b]
  PROVE  /\ BuildGood(b)'
         /\ \E p \in Busy \cup {"begin", "idle"} : phase' = [phase EXCEPT ![b] = p]
         /\ \E e : held' = [held EXCEPT ![b] = e]
         /\ \E os \in Seq(Outputs) : out' = [out EXCEPT ![b] = os]
<1>1. /\ phase' = [phase EXCEPT ![b] = "begin"] /\ held' = [held EXCEPT ![b] = Absent]
      /\ out' = [out EXCEPT ![b] = Append(out[b], entry)]
      /\ phase'[b] = "begin" /\ held'[b] = Absent /\ out'[b] = Append(out[b], entry)
      /\ out[b] \in Seq(Outputs) /\ entry \in Outputs /\ Count \in Nat
  BY BuildConstants DEF BuildConstants, Proceed, Goto, BuildInv, OwnOutput
<1>2. /\ Append(out[b], entry) \in Seq(Outputs)
      /\ Len(out'[b]) = Len(out[b]) + 1 /\ Len(out'[b]) <= Count
      /\ \A k \in 1 .. Len(out[b]) : out'[b][k] = out[b][k]
      /\ out'[b][a] = entry
  BY <1>1 DEF At
<1>3. ASSUME NEW x \in 1 .. Len(out'[b])
      PROVE  OwnOutput(b, x, out[b][x])'
  <2>1. CASE x = a
    BY <1>2, <2>1 DEF OwnOutput, Key
  <2>2. CASE x # a
    <3>1. x \in 1 .. Len(out[b])
      BY <1>1, <1>2, <2>2 DEF At
    <3>2. OwnOutput(b, x, out[b][x])
      BY <3>1 DEF BuildInv, BuildGood
    <3> QED
      BY <1>2, <3>1, <3>2 DEF OwnOutput, Key
  <2> QED
    BY <2>1, <2>2
<1>4. BuildGood(b)'
  BY <1>1, <1>2, <1>3 DEF BuildGood, Busy
<1> QED
  BY <1>1, <1>2, <1>4

\* So does it with what the cache had for it, or what went into the cache.
LEMMA AnswerKeeps ==
  ASSUME BuildInv, NEW b \in Builds, phase[b] \in Busy,
         NEW a, a = At(b), NEW entry, entry = Genuine(Key(b, a)), CacheAnswers(b, entry),
         UNCHANGED <<workload, status, tainted, changed>>
  PROVE  BuildGood(b)' /\ Moves(b)
<1>1. Len(out[b]) < Count /\ BuildGood(b) /\ tainted \in [Builds -> SUBSET Actions]
      /\ changed \in [Builds -> SUBSET Actions] /\ out \in [Builds -> Seq(Outputs)]
      /\ status \in [Builds -> {"running", "done", "failed"}]
      /\ phase \in [Builds -> Busy \cup {"begin", "idle"}] /\ held = [c \in Builds |-> held[c]]
  BY DEF BuildInv, BuildGood
<1>2. a \in Actions
  BY <1>1, BuildConstants DEF BuildConstants, At, Actions
<1>3. OwnOutput(b, a, entry)'
  BY <1>2, KeyIsKey DEF OwnOutput, Genuine, Key, Outputs, BuildInv
<1>4. /\ tainted' = [tainted EXCEPT ![b] = tainted[b]]
      /\ changed' = [changed EXCEPT ![b] = changed[b]]
      /\ tainted[b] \in SUBSET Actions /\ changed[b] \in SUBSET Actions
  BY <1>1
<1>5. CASE Proceed(b, entry)
  BY <1>1, <1>3, <1>4, <1>5, ProceedKeeps DEF Moves
<1>6. CASE Goto(b, "idle") /\ held' = [held EXCEPT ![b] = Absent] /\ UNCHANGED out
  <2>1. phase' = [phase EXCEPT ![b] = "idle"] /\ phase'[b] = "idle" /\ held'[b] = Absent
        /\ out' = [out EXCEPT ![b] = out[b]] /\ out[b] \in Seq(Outputs)
    BY <1>1, <1>6 DEF Goto
  <2>2. BuildGood(b)'
    BY <1>1, <1>6, <2>1 DEF BuildGood, Busy, OwnOutput, Key
  <2> QED
    BY <1>1, <1>4, <1>6, <2>1, <2>2 DEF Moves
<1> QED
  BY <1>5, <1>6 DEF CacheAnswers

\* A build that leaves its outputs alone moves well if it is where an action
\* is left to do, or holds nothing.
LEMMA StayKeeps ==
  ASSUME BuildInv, NEW b \in Builds, NEW p \in Busy \cup {"begin", "idle"}, Goto(b, p),
         NEW entry, held' = [held EXCEPT ![b] = entry],
         NEW a, a = At(b),
         p \in Busy => Len(out[b]) < Count,
         p \in {"fill", "store", "share"} => entry = Genuine(Key(b, a)),
         p \notin {"fill", "store", "share"} => entry = Absent,
         status' \in [Builds -> {"running", "done", "failed"}], UNCHANGED <<workload, out, tainted>>,
         \E as \in SUBSET Actions : changed' = [changed EXCEPT ![b] = changed[b] \cup as]
  PROVE  BuildGood(b)' /\ Moves(b)
<1>1. /\ BuildGood(b) /\ tainted \in [Builds -> SUBSET Actions]
      /\ changed \in [Builds -> SUBSET Actions] /\ out \in [Builds -> Seq(Outputs)]
      /\ phase \in [Builds -> Busy \cup {"begin", "idle"}] /\ held = [c \in Builds |-> held[c]]
  BY DEF BuildInv
<1>2. phase'[b] = p /\ held'[b] = entry /\ changed[b] \subseteq changed'[b]
  BY <1>1 DEF Goto
<1>3. BuildGood(b)'
  <2>1. a = At(b)' /\ out' = out /\ workload' = workload /\ tainted' = tainted
    BY DEF At
  <2>2. entry = Genuine(Key(b, a)) => entry = Genuine(KeyNow(b)')
    BY <2>1 DEF KeyNow, Key, At
  <2>3. ASSUME NEW x \in 1 .. Len(out[b])
        PROVE  OwnOutput(b, x, out[b][x])'
    BY <1>1, <1>2, <2>1 DEF BuildGood, OwnOutput, Key
  <2> QED
    BY <1>1, <1>2, <2>1, <2>2, <2>3 DEF BuildGood
<1>4. Moves(b)
  <2>1. phase' = [phase EXCEPT ![b] = p] /\ out' = [out EXCEPT ![b] = out[b]]
        /\ tainted' = [tainted EXCEPT ![b] = tainted[b]]
    BY <1>1 DEF Goto
  <2>2. out[b] \in Seq(Outputs) /\ tainted[b] \in SUBSET Actions
    BY <1>1
  <2>3. PICK as \in SUBSET Actions : changed' = [changed EXCEPT ![b] = changed[b] \cup as]
    OBVIOUS
  <2>4. changed[b] \cup as \in SUBSET Actions
    BY <1>1
  <2> QED
    BY <2>1, <2>2, <2>3, <2>4 DEF Moves
<1> QED
  BY <1>3, <1>4

\* One write to a directory: of what a key stands for, of damage, or none.
LEMMA LocalKeeps ==
  ASSUME CachesPure, NEW h \in Hosts, NEW k \in Keys,
         UNCHANGED remote,
         \/ UNCHANGED local
         \/ local' = [local EXCEPT ![h] = Without(local[h], k)]
         \/ \E entry \in {Genuine(k)} \cup Damaged :
              local' = [local EXCEPT ![h] = With(local[h], k, entry)]
  PROVE  CachesPure'
<1>1. CASE UNCHANGED local
  BY <1>1 DEF CachesPure
<1>2. CASE local' = [local EXCEPT ![h] = Without(local[h], k)]
  BY <1>2, WithoutPure DEF CachesPure
<1>3. ASSUME NEW entry \in {Genuine(k)} \cup Damaged,
             local' = [local EXCEPT ![h] = With(local[h], k, entry)]
      PROVE  CachesPure'
  <2>1. CachePure(With(local[h], k, entry))
    BY WithPure DEF CachesPure
  <2> QED
    BY <1>3, <2>1 DEF CachesPure
<1> QED
  BY <1>1, <1>2, <1>3

LEMMA RemoteKeeps ==
  ASSUME CachesPure, NEW k \in Keys, UNCHANGED local,
         \/ UNCHANGED remote
         \/ remote' = Without(remote, k)
         \/ \E entry \in {Genuine(k)} \cup Damaged : remote' = With(remote, k, entry)
  PROVE  CachesPure'
<1>1. CASE UNCHANGED remote
  BY <1>1 DEF CachesPure
<1>2. CASE remote' = Without(remote, k)
  <2>1. CachePure(Without(remote, k))
    BY WithoutPure DEF CachesPure
  <2> QED
    BY <1>2, <2>1 DEF CachesPure
<1>3. ASSUME NEW entry \in {Genuine(k)} \cup Damaged, remote' = With(remote, k, entry)
      PROVE  CachesPure'
  <2>1. CachePure(With(remote, k, entry))
    BY WithPure DEF CachesPure
  <2> QED
    BY <1>3, <2>1 DEF CachesPure
<1> QED
  BY <1>1, <1>2, <1>3

\* The steps by which a build looks for the outputs of an action.
LEMMA LookUpKeeps ==
  ASSUME BuildInv, NEW b \in Builds, Begin(b) \/ GetLocal(b) \/ GetRemote(b) \/ Fill(b)
  PROVE  BuildInv'
<1>1. PICK a : a = At(b)
  OBVIOUS
<1>2. PICK h : h = HostOf(b)
  OBVIOUS
<1>3. PICK k : k = Key(b, a)
  OBVIOUS
<1>4. /\ BuildGood(b) /\ CachesPure /\ Count \in Nat /\ out[b] \in Seq(Outputs)
      /\ phase \in [Builds -> Busy \cup {"begin", "idle"}] /\ held = [c \in Builds |-> held[c]]
      /\ status \in [Builds -> {"running", "done", "failed"}]
      /\ changed \in [Builds -> SUBSET Actions]
  BY BuildConstants DEF BuildConstants, BuildInv
<1>5. h \in Hosts
  BY <1>2, BuildConstants DEF BuildConstants, BuildInv, HostOf
<1>6. held' = held => held' = [held EXCEPT ![b] = held[b]]
  BY <1>4
<1>7. changed' = changed => \E as \in SUBSET Actions : changed' = [changed EXCEPT ![b] = changed[b] \cup as]
  <2> HAVE changed' = changed
  <2>1. changed' = [changed EXCEPT ![b] = changed[b] \cup {}]
    BY <1>4
  <2> QED
    BY <2>1
<1>8. phase[b] \in Busy => a \in Actions /\ k \in Keys
  BY <1>1, <1>3, <1>4, KeyIsKey DEF BuildGood, At, Actions, BuildInv
<1>9. CASE Begin(b)
  <2>1. /\ phase[b] = "begin" /\ Len(out[b]) < Count /\ held[b] = Absent
        /\ UNCHANGED <<workload, status, held, out, tainted, changed, local, remote>>
    BY <1>4, <1>9 DEF Begin, At, Actions, BuildGood
  <2>2. PICK p \in {"run", "local"} : Goto(b, p)
    BY <1>9 DEF Begin
  <2>3. BuildGood(b)' /\ Moves(b)
    BY <1>1, <1>4, <1>6, <1>7, <2>1, <2>2, StayKeeps DEF Busy
  <2>4. CachesPure'
    BY <1>4, <2>1 DEF CachesPure
  <2> QED
    BY <2>3, <2>4, OneBuild
<1>10. CASE GetLocal(b)
  <2>1. /\ phase[b] = "local" /\ Len(out[b]) < Count /\ held[b] = Absent
        /\ UNCHANGED <<workload, status, tainted, changed, remote>>
        /\ k \in Keys
    BY <1>4, <1>8, <1>10 DEF GetLocal, BuildGood, Busy
  <2>2. PICK entry : entry = EntryAt(local[h], k)
    OBVIOUS
  <2>3. IF Intact(entry) THEN CacheAnswers(b, entry) ELSE Miss(b)
    BY <1>1, <1>2, <1>3, <1>10, <2>2 DEF GetLocal, KeyNow
  <2>4. local' = local \/ local' = [local EXCEPT ![h] = Without(local[h], k)]
    BY <1>1, <1>2, <1>3, <1>10, <2>2 DEF GetLocal, KeyNow
  <2>5. CachesPure'
    BY <1>4, <1>5, <2>1, <2>4, LocalKeeps
  <2>6. CASE Intact(entry)
    <3>1. entry = Genuine(k)
      BY <1>4, <1>5, <2>2, <2>6, HitIsGenuine DEF CachesPure
    <3>2. BuildGood(b)' /\ Moves(b)
      BY <1>1, <1>3, <2>1, <2>3, <2>6, <3>1, AnswerKeeps DEF Busy
    <3> QED
      BY <2>5, <3>2, OneBuild
  <2>7. CASE ~Intact(entry)
    <3>1. PICK p \in {"remote", "run", "idle"} : Goto(b, p)
      BY <2>3, <2>7 DEF Miss
    <3>2. BuildGood(b)' /\ Moves(b)
      BY <1>1, <1>4, <1>6, <1>7, <2>1, <2>3, <2>7, <3>1, StayKeeps DEF Busy, Miss
    <3> QED
      BY <2>5, <3>2, OneBuild
  <2> QED
    BY <2>6, <2>7
<1>11. CASE GetRemote(b)
  <2>1. /\ phase[b] = "remote" /\ Len(out[b]) < Count /\ held[b] = Absent
        /\ UNCHANGED <<workload, status, out, tainted, changed, local, remote>>
    BY <1>4, <1>11 DEF GetRemote, BuildGood, Busy
  <2>2. CachesPure'
    BY <1>4, <2>1 DEF CachesPure
  <2>3. PICK entry : entry = EntryAt(remote, k)
    OBVIOUS
  <2>4. CASE Intact(entry) /\ held' = [held EXCEPT ![b] = entry] /\ Goto(b, "fill")
    <3>1. entry = Genuine(k)
      BY <1>4, <2>3, <2>4, HitIsGenuine DEF CachesPure
    <3>2. BuildGood(b)' /\ Moves(b)
      BY <1>1, <1>3, <1>4, <1>7, <2>1, <2>4, <3>1, StayKeeps DEF Busy
    <3> QED
      BY <2>2, <3>2, OneBuild
  <2>5. CASE UNCHANGED held /\ \E p \in {"run", "idle"} : Goto(b, p)
    <3>1. BuildGood(b)' /\ Moves(b)
      BY <1>1, <1>4, <1>6, <1>7, <2>1, <2>5, StayKeeps DEF Busy
    <3> QED
      BY <2>2, <3>1, OneBuild
  <2> QED
    BY <1>1, <1>3, <1>11, <2>3, <2>4, <2>5 DEF GetRemote, KeyNow
<1>12. CASE Fill(b)
  <2>1. /\ phase[b] = "fill" /\ held[b] = Genuine(k) /\ k \in Keys
        /\ UNCHANGED <<workload, status, tainted, changed, remote>>
        /\ Put(h, k, Genuine(k)) /\ CacheAnswers(b, Genuine(k))
    BY <1>1, <1>2, <1>3, <1>4, <1>8, <1>12 DEF Fill, BuildGood, Busy, KeyNow
  <2>2. BuildGood(b)' /\ Moves(b)
    BY <1>1, <1>3, <2>1, AnswerKeeps DEF Busy
  <2>3. CachesPure'
    BY <1>4, <1>5, <2>1, LocalKeeps DEF Put
  <2> QED
    BY <2>2, <2>3, OneBuild
<1> QED
  BY <1>9, <1>10, <1>11, <1>12

\* Running an action: what it makes is its own, and is stored only if neither
\* it nor what it was made from was changed.
LEMMA ExecuteKeeps ==
  ASSUME BuildInv, NEW b \in Builds, Execute(b)
  PROVE  BuildInv'
<1>1. PICK a : a = At(b)
  OBVIOUS
<1>2. PICK bent \in BOOLEAN :
        LET made == Made(b, At(b), bent)
        IN  /\ changed' = IF bent THEN [changed EXCEPT ![b] = changed[b] \cup {At(b)}] ELSE changed
            /\ \/ /\ Cacheable(b, bent)
                  /\ held' = [held EXCEPT ![b] = made]
                  /\ Goto(b, "store")
                  /\ UNCHANGED <<out, tainted>>
               \/ /\ ~Cacheable(b, bent)
                  /\ tainted' = [tainted EXCEPT ![b] = tainted[b] \cup {At(b)}]
                  /\ Proceed(b, made)
  BY DEF Execute
<1>3. PICK made : made = Made(b, a, bent)
  OBVIOUS
<1>4. /\ phase[b] = "run" /\ Len(out[b]) < Count /\ held[b] = Absent /\ a \in Actions
      /\ UNCHANGED <<workload, status, local, remote>>
      /\ BuildGood(b) /\ CachesPure
      /\ status \in [Builds -> {"running", "done", "failed"}]
      /\ tainted \in [Builds -> SUBSET Actions] /\ changed \in [Builds -> SUBSET Actions]
  <2>1. /\ phase[b] = "run" /\ UNCHANGED <<workload, status, local, remote>>
        /\ BuildGood(b) /\ CachesPure
        /\ status \in [Builds -> {"running", "done", "failed"}]
        /\ tainted \in [Builds -> SUBSET Actions] /\ changed \in [Builds -> SUBSET Actions]
        /\ out \in [Builds -> Seq(Outputs)]
    BY DEF Execute, BuildInv
  <2>2. Len(out[b]) < Count /\ held[b] = Absent /\ out[b] \in Seq(Outputs)
    BY <2>1 DEF BuildGood, Busy
  <2>3. a \in Actions
    BY <1>1, <2>2, BuildConstants DEF BuildConstants, At, Actions
  <2> QED
    BY <2>1, <2>2, <2>3
<1>5. /\ made \in Outputs /\ made.key = Key(b, a)
      /\ made.bent => bent \/ (FromTainted(b) /\ Upstream[a] \cap changed[b] # {})
  BY <1>1, <1>3, <1>4, MadeIsOwn DEF KeyNow
<1>6. \E as \in SUBSET Actions :
        /\ changed' = [changed EXCEPT ![b] = changed[b] \cup as]
        /\ bent => a \in as
  <2>1. CASE bent
    BY <1>1, <1>2, <1>4, <2>1
  <2>2. CASE ~bent
    <3>1. changed' = changed
      BY <1>2, <2>2
    <3>2. changed' = [changed EXCEPT ![b] = changed[b] \cup {}]
      BY <1>4, <3>1
    <3> WITNESS {} \in SUBSET Actions
    <3> QED
      BY <2>2, <3>2
  <2> QED
    BY <2>1, <2>2
<1>7. CachesPure'
  BY <1>4 DEF CachesPure
<1>8. CASE /\ Cacheable(b, bent) /\ held' = [held EXCEPT ![b] = made] /\ Goto(b, "store")
           /\ UNCHANGED <<out, tainted>>
  <2>1. made.bent = FALSE
    BY <1>5, <1>8 DEF Cacheable, Outputs
  <2>2. made = Genuine(Key(b, a))
    BY <1>5, <2>1 DEF Genuine, Outputs
  <2>3. BuildGood(b)' /\ Moves(b)
    BY <1>1, <1>4, <1>6, <1>8, <2>2, StayKeeps DEF Busy
  <2> QED
    BY <1>7, <2>3, OneBuild
<1>9. CASE /\ ~Cacheable(b, bent) /\ tainted' = [tainted EXCEPT ![b] = tainted[b] \cup {a}]
           /\ Proceed(b, made)
  <2>1. /\ tainted'[b] = tainted[b] \cup {a} /\ changed[b] \subseteq changed'[b]
        /\ bent => a \in changed'[b]
    BY <1>4, <1>6, <1>9
  <2>2. a \in Upstream[a]
    BY <1>4, UpstreamParts
  <2>3. OwnOutput(b, a, made)'
    BY <1>4, <1>5, <2>1, <2>2 DEF OwnOutput, Key
  <2>4. /\ BuildGood(b)'
        /\ \E p \in Busy \cup {"begin", "idle"} : phase' = [phase EXCEPT ![b] = p]
        /\ \E e : held' = [held EXCEPT ![b] = e]
        /\ \E os \in Seq(Outputs) : out' = [out EXCEPT ![b] = os]
    BY <1>1, <1>4, <1>9, <2>1, <2>3, ProceedKeeps
  <2>5. \E as \in SUBSET Actions : tainted' = [tainted EXCEPT ![b] = as]
    <3>1. tainted[b] \cup {a} \in SUBSET Actions
      BY <1>4
    <3> QED
      BY <1>9, <3>1
  <2>6. \E as \in SUBSET Actions : changed' = [changed EXCEPT ![b] = as]
    <3>1. PICK as \in SUBSET Actions : changed' = [changed EXCEPT ![b] = changed[b] \cup as]
      BY <1>6
    <3>2. changed[b] \cup as \in SUBSET Actions
      BY <1>4
    <3> QED
      BY <3>1, <3>2
  <2>7. Moves(b)
    BY <1>4, <2>4, <2>5, <2>6 DEF Moves
  <2> QED
    BY <1>7, <2>4, <2>7, OneBuild
<1> QED
  BY <1>1, <1>2, <1>3, <1>8, <1>9

\* Storing what was made, in the directory and in Redis.
LEMMA StoreKeeps ==
  ASSUME BuildInv, NEW b \in Builds, Store(b) \/ Share(b)
  PROVE  BuildInv'
<1>1. PICK a : a = At(b)
  OBVIOUS
<1>2. PICK h : h = HostOf(b)
  OBVIOUS
<1>3. PICK k : k = Key(b, a)
  OBVIOUS
<1>4. /\ BuildGood(b) /\ CachesPure
      /\ status \in [Builds -> {"running", "done", "failed"}]
      /\ changed \in [Builds -> SUBSET Actions]
      /\ held = [c \in Builds |-> held[c]]
  BY DEF BuildInv
<1>5. phase[b] \in {"store", "share"} /\ UNCHANGED <<workload, status, tainted, changed>>
  BY DEF Store, Share
<1>6. /\ Len(out[b]) < Count /\ held[b] = Genuine(k) /\ k \in Keys /\ h \in Hosts
  <2>1. a \in Actions
    BY <1>1, <1>4, <1>5, BuildConstants DEF BuildConstants, BuildInv, BuildGood, Busy, At, Actions
  <2> QED
    BY <1>1, <1>2, <1>3, <1>4, <1>5, <2>1, KeyIsKey, BuildConstants
       DEF BuildConstants, BuildInv, BuildGood, Busy, KeyNow, HostOf
<1>7. changed' = [changed EXCEPT ![b] = changed[b] \cup {}]
  BY <1>4, <1>5
<1>8. CASE Store(b)
  <2>1. Put(h, k, held[b]) /\ UNCHANGED remote
    BY <1>1, <1>2, <1>3, <1>8 DEF Store, KeyNow
  <2>2. CachesPure'
    BY <1>4, <1>6, <2>1, LocalKeeps DEF Put
  <2>3. CASE Goto(b, "share") /\ UNCHANGED <<held, out>>
    <3>1. held' = [held EXCEPT ![b] = held[b]]
      BY <1>4, <2>3
    <3>2. BuildGood(b)' /\ Moves(b)
      BY <1>1, <1>3, <1>4, <1>5, <1>6, <1>7, <2>3, <3>1, StayKeeps DEF Busy
    <3> QED
      BY <2>2, <3>2, OneBuild
  <2>4. CASE CacheAnswers(b, held[b])
    <3>1. BuildGood(b)' /\ Moves(b)
      BY <1>1, <1>3, <1>5, <1>6, <2>4, AnswerKeeps DEF Busy
    <3> QED
      BY <2>2, <3>1, OneBuild
  <2> QED
    BY <1>8, <2>3, <2>4 DEF Store
<1>9. CASE Share(b)
  <2>1. /\ CacheAnswers(b, held[b]) /\ UNCHANGED local
        /\ remote' = remote \/ remote' = With(remote, k, held[b])
    BY <1>1, <1>3, <1>9 DEF Share, KeyNow
  <2>2. CachesPure'
    BY <1>4, <1>6, <2>1, RemoteKeeps
  <2>3. BuildGood(b)' /\ Moves(b)
    BY <1>1, <1>3, <1>5, <1>6, <2>1, AnswerKeeps DEF Busy
  <2> QED
    BY <2>2, <2>3, OneBuild
<1> QED
  BY <1>8, <1>9

\* The end of a build, good or bad.
LEMMA EndKeeps ==
  ASSUME BuildInv, NEW b \in Builds,
         ExecuteFails(b) \/ StoreFails(b) \/ BuildDone(b) \/ Interrupt(b)
  PROVE  BuildInv'
<1>1. PICK a : a = At(b)
  OBVIOUS
<1>2. /\ BuildGood(b) /\ CachesPure /\ changed \in [Builds -> SUBSET Actions]
      /\ status \in [Builds -> {"running", "done", "failed"}]
      /\ phase \in [Builds -> Busy \cup {"begin", "idle"}] /\ held = [c \in Builds |-> held[c]]
  BY DEF BuildInv
<1>3. /\ UNCHANGED <<workload, out, tainted, changed, local, remote>>
      /\ \E s \in {"done", "failed"} : status' = [status EXCEPT ![b] = s]
  BY DEF ExecuteFails, StoreFails, BuildDone, Interrupt, Fails
<1>4. /\ \E as \in SUBSET Actions : changed' = [changed EXCEPT ![b] = changed[b] \cup as]
      /\ status' \in [Builds -> {"running", "done", "failed"}]
      /\ CachesPure'
  <2>1. \E as \in SUBSET Actions : changed' = [changed EXCEPT ![b] = changed[b] \cup as]
    <3> WITNESS {} \in SUBSET Actions
    <3> QED
      BY <1>2, <1>3
  <2>2. status' \in [Builds -> {"running", "done", "failed"}]
    BY <1>2, <1>3
  <2>3. CachesPure'
    BY <1>2, <1>3 DEF CachesPure
  <2> QED
    BY <2>1, <2>2, <2>3
<1>5. CASE Goto(b, "idle") /\ held' = [held EXCEPT ![b] = Absent]
  <2> DEFINE p == "idle"
             entry == Absent
  <2>1. /\ p \in Busy \cup {"begin", "idle"} /\ p \notin Busy
        /\ p \notin {"fill", "store", "share"}
        /\ UNCHANGED <<workload, out, tainted>>
    BY <1>3 DEF Busy
  <2>2. Goto(b, p) /\ held' = [held EXCEPT ![b] = entry] /\ entry = Absent
    BY <1>5
  <2> HIDE DEF p, entry
  <2>3. BuildGood(b)' /\ Moves(b)
    BY <1>1, <1>4, <2>1, <2>2, StayKeeps
  <2> QED
    BY <1>4, <2>3, OneBuild
<1>6. CASE Goto(b, phase[b]) /\ held' = [held EXCEPT ![b] = held[b]]
  <2>1. \/ phase[b] \in {"fill", "store", "share"} /\ held[b] = Genuine(Key(b, a))
        \/ phase[b] \notin {"fill", "store", "share"} /\ held[b] = Absent
    BY <1>1, <1>2 DEF BuildGood, KeyNow
  <2>2. phase[b] \in Busy \cup {"begin", "idle"} /\ (phase[b] \in Busy => Len(out[b]) < Count)
    BY <1>2 DEF BuildGood
  <2>3. BuildGood(b)' /\ Moves(b)
    BY <1>1, <1>3, <1>4, <1>6, <2>1, <2>2, StayKeeps
  <2> QED
    BY <1>4, <2>3, OneBuild
<1>7. CASE UNCHANGED <<phase, held>>
  BY <1>2, <1>6, <1>7 DEF Goto
<1>8. CASE UNCHANGED held /\ Goto(b, "idle") /\ phase[b] = "begin"
  <2>1. held[b] = Absent /\ held' = [held EXCEPT ![b] = Absent]
    BY <1>2, <1>8 DEF BuildGood
  <2> QED
    BY <1>5, <1>8, <2>1
<1> QED
  BY <1>5, <1>7, <1>8 DEF ExecuteFails, StoreFails, BuildDone, Interrupt, Fails

\* What happens to the caches behind the builds' backs.
LEMMA CachesKeep ==
  ASSUME BuildInv, NEW k \in Keys,
         (\E h \in Hosts : Prune(h, k)) \/ Expire(k) \/ EntryDamaged(k)
  PROVE  BuildInv'
<1>1. CachesPure /\ UNCHANGED <<workload, status, phase, held, out, tainted, changed>>
  BY DEF BuildInv, Prune, Expire, EntryDamaged
<1>2. CachesPure'
  <2>1. CASE (\E h \in Hosts : Prune(h, k)) \/ Expire(k)
    BY <1>1, <2>1, LocalKeeps, RemoteKeeps DEF Prune, Expire
  <2>2. CASE EntryDamaged(k)
    BY <1>1, <2>2, LocalKeeps, RemoteKeeps DEF EntryDamaged, Damaged
  <2> QED
    BY <2>1, <2>2
<1>3. ASSUME NEW b \in Builds
      PROVE  BuildGood(b)'
  <2>1. BuildGood(b)
    BY DEF BuildInv
  <2> QED
    BY <1>1, <2>1 DEF BuildGood, OwnOutput, KeyNow, Key, At
<1> QED
  BY <1>1, <1>2, <1>3 DEF BuildInv

LEMMA BuildStep == BuildInv /\ [BuildNext]_buildVars => BuildInv'
<1> SUFFICES ASSUME BuildInv, [BuildNext]_buildVars
             PROVE  BuildInv'
  OBVIOUS
<1>1. ASSUME NEW b \in Builds, Begin(b) \/ GetLocal(b) \/ GetRemote(b) \/ Fill(b)
      PROVE  BuildInv'
  BY <1>1, LookUpKeeps
<1>2. ASSUME NEW b \in Builds, Execute(b)
      PROVE  BuildInv'
  BY <1>2, ExecuteKeeps
<1>3. ASSUME NEW b \in Builds, Store(b) \/ Share(b)
      PROVE  BuildInv'
  BY <1>3, StoreKeeps
<1>4. ASSUME NEW b \in Builds,
             ExecuteFails(b) \/ StoreFails(b) \/ BuildDone(b) \/ Interrupt(b)
      PROVE  BuildInv'
  BY <1>4, EndKeeps
<1>5. ASSUME NEW k \in Keys, (\E h \in Hosts : Prune(h, k)) \/ Expire(k) \/ EntryDamaged(k)
      PROVE  BuildInv'
  BY <1>5, CachesKeep
<1>6. CASE UNCHANGED buildVars
  BY <1>6 DEF buildVars, BuildInv, CachesPure, BuildGood, OwnOutput, KeyNow, Key, At
<1> QED
  BY <1>1, <1>2, <1>3, <1>4, <1>5, <1>6 DEF BuildNext

LEMMA BuildIsInvariant == BuildSpec => []BuildInv
  BY BuildInitInv, BuildStep, PTL DEF BuildSpec

\* Every variable of the builds keeps to its range.
THEOREM BuildTypes == BuildSpec => []BuildTypeOK
<1>1. ASSUME BuildInv  PROVE BuildTypeOK
  <2>1. \A b \in Builds : held[b] \in Outputs \cup {Absent}
    <3>1. SUFFICES ASSUME NEW b \in Builds, phase[b] \in {"fill", "store", "share"}
                   PROVE  held[b] \in Outputs
      BY <1>1 DEF BuildInv, BuildGood
    <3>2. Len(out[b]) \in Nat /\ Len(out[b]) < Count /\ held[b] = Genuine(KeyNow(b))
      BY <1>1, <3>1 DEF BuildInv, BuildGood, Busy
    <3>3. At(b) \in Actions
      BY <3>2, BuildConstants DEF BuildConstants, At, Actions
    <3>4. Key(b, At(b)) \in Keys
      BY <1>1, <3>3, KeyIsKey DEF BuildInv
    <3> QED
      BY <3>2, <3>4 DEF Genuine, KeyNow, Outputs
  <2>2. held \in [Builds -> Outputs \cup {Absent}]
    BY <1>1, <2>1 DEF BuildInv
  <2>3. ASSUME NEW cache, CachePure(cache)  PROVE IsCache(cache)
    <3>1. \A k \in Keys : Genuine(k) \in Outputs
      BY DEF Genuine, Outputs
    <3> QED
      BY <2>3, <3>1 DEF CachePure, IsCache
  <2>4. DOMAIN local = Hosts /\ (\A h \in Hosts : IsCache(local[h])) /\ IsCache(remote)
    BY <1>1, <2>3 DEF BuildInv, CachesPure
  <2> QED
    BY <1>1, <2>2, <2>4 DEF BuildInv, BuildGood, BuildTypeOK, Busy
<1> QED
  BY <1>1, BuildIsInvariant, PTL

\* Whatever the caches are made to hold, by builds that failed, by builds of
\* other graphs and tools, or by damage, a build ends up with outputs of its
\* own: the taint of changed arguments is what makes keys computed in advance
\* safe.
THEOREM OutputsAlwaysOwn == BuildSpec => []OutputsAreOwn
<1>1. BuildInv => OutputsAreOwn
  BY DEF BuildInv, BuildGood, OwnOutput, OutputsAreOwn
<1> QED
  BY <1>1, BuildIsInvariant, PTL

----------------------------------------------------------------------------
(* The artifact store. *)

\* Two files in use with one identity are one file, and metadata vouches only
\* for files with the right bytes.
Agree == \A f, g \in InHand : f.id = g.id => f = g
Truthful == \A f \in InHand : f.id = meta => f.genuine

\* What a process has in its hands where it is.
HandGood(p) ==
  /\ where[p] = "opened" => handle[p] \in Files
  /\ where[p] \in {"vouch", "accept", "write", "record"} =>
       handle[p] \in Files /\ handle[p].genuine
  /\ where[p] = "reopen" => file = Nothing \/ file.genuine

StoreInv ==
  /\ StoreTypeOK
  /\ Agree /\ Truthful
  /\ \A p \in Processes : HandGood(p)

\* Files are let go, metadata too.
LEMMA LetGo ==
  ASSUME Agree, Truthful, InHand' \subseteq InHand, meta' \in {meta, Nothing}, StoreTypeOK
  PROVE  Agree' /\ Truthful'
<1>1. \A f \in InHand : f.id # Nothing
  BY StoreConstants DEF StoreConstants, StoreTypeOK, InHand, Files
<1> QED
  BY <1>1 DEF Agree, Truthful

\* A file with the right bytes is vouched for.
LEMMA Vouching ==
  ASSUME Agree, NEW f \in InHand, f.genuine, InHand' \subseteq InHand, meta' = f.id
  PROVE  Agree' /\ Truthful'
  BY DEF Agree, Truthful

\* A file comes into use with an identity of its own.
LEMMA NewFile ==
  ASSUME Agree, Truthful, HasNewId, NEW good \in BOOLEAN,
         InHand' \subseteq InHand \cup {[id |-> NewId, genuine |-> good]}, meta' = meta
  PROVE  /\ Agree' /\ Truthful'
         /\ [id |-> NewId, genuine |-> good] \in Files
<1>1. NewId \in Ids /\ NewId \notin InUse
  BY DEF HasNewId, NewId
<1>2. NewId # meta /\ \A f \in InHand : f.id # NewId
  BY <1>1 DEF InUse
<1> QED
  BY <1>1, <1>2 DEF Agree, Truthful, Files

\* Most steps of a process touch neither the file nor what others hold.
LEMMA OneProcess ==
  ASSUME StoreInv, NEW p \in Processes, HandGood(p)', StoreTypeOK', Agree', Truthful',
         \E w : Goes(p, w), (\E f : Holds(p, f)) \/ UNCHANGED handle,
         file' \in {file, Nothing} \/ (file' \in Files /\ file'.genuine)
  PROVE  StoreInv'
<1>1. ASSUME NEW q \in Processes, q # p
      PROVE  HandGood(q)'
  <2>1. HandGood(q) /\ where'[q] = where[q] /\ handle'[q] = handle[q]
    BY <1>1 DEF StoreInv, StoreTypeOK, Goes, Holds
  <2> QED
    BY <2>1 DEF HandGood
<1> QED
  BY <1>1 DEF StoreInv

LEMMA StoreInitInv == StoreInit => StoreInv
<1> SUFFICES ASSUME StoreInit
             PROVE  StoreInv
  OBVIOUS
<1>1. InHand \subseteq {file} /\ InHand \subseteq Files
  BY DEF StoreInit, InHand
<1>2. Agree /\ Truthful
  BY <1>1, StoreConstants DEF StoreConstants, StoreInit, Agree, Truthful, Files
<1>3. StoreTypeOK
  BY DEF StoreInit, StoreTypeOK
<1>4. \A p \in Processes : HandGood(p)
  BY DEF StoreInit, HandGood
<1> QED
  BY <1>2, <1>3, <1>4 DEF StoreInv

\* Opening what is there, and checking it.
LEMMA OpenKeeps ==
  ASSUME StoreInv, NEW p \in Processes,
         Open(p) \/ Verify(p) \/ Unread(p) \/ Vouch(p) \/ Accept(p) \/ GiveUp(p)
  PROVE  StoreInv'
<1>1. StoreTypeOK /\ Agree /\ Truthful /\ HandGood(p)
  BY DEF StoreInv
<1>2. StoreTypeOK'
  <2>1. CASE Open(p)
    BY <1>1, <2>1 DEF Open, Missing, StoreTypeOK, Goes, Holds
  <2>2. CASE Verify(p)
    BY <1>1, <2>2 DEF Verify, Missing, StoreTypeOK, Goes, Holds
  <2>3. CASE Vouch(p)
    <3>1. meta' \in Ids \cup {Nothing}
      BY <1>1, <2>3 DEF Vouch, StoreTypeOK, HandGood, Files
    <3> QED
      BY <1>1, <2>3, <3>1 DEF Vouch, StoreTypeOK, Goes
  <2>4. CASE Unread(p) \/ Accept(p) \/ GiveUp(p)
    BY <1>1, <2>4 DEF Unread, Missing, Accept, GiveUp, StoreTypeOK, Goes, Holds
  <2> QED
    BY <2>1, <2>2, <2>3, <2>4
<1>3. InHand' \subseteq InHand
  BY <1>1 DEF Open, Verify, Unread, Missing, Vouch, Accept, GiveUp, StoreTypeOK, Holds, InHand
<1>4. Agree' /\ Truthful'
  <2>1. CASE meta' \in {meta, Nothing}
    BY <1>1, <1>3, <2>1, LetGo
  <2>2. CASE Vouch(p) /\ meta' = handle[p].id
    <3>1. handle[p] \in InHand /\ handle[p].genuine
      BY <1>1, <2>2, StoreConstants DEF StoreConstants, HandGood, Vouch, InHand
    <3> QED
      BY <1>1, <1>3, <2>2, <3>1, Vouching
  <2> QED
    BY <2>1, <2>2 DEF Open, Verify, Unread, Missing, Vouch, Accept, GiveUp
<1>5. HandGood(p)'
  <2>1. CASE Verify(p)
    <3>1. handle[p] \in InHand /\ handle[p] \in Files
      BY <1>1, <2>1, StoreConstants DEF StoreConstants, HandGood, Verify, InHand
    <3>2. Vouched(handle[p]) => handle[p].genuine
      BY <1>1, <3>1 DEF Vouched, Truthful
    <3> QED
      BY <1>1, <2>1, <3>1, <3>2 DEF Verify, Missing, HandGood, Goes, Holds, StoreTypeOK
  <2>2. CASE Open(p) \/ Unread(p) \/ Vouch(p) \/ Accept(p) \/ GiveUp(p)
    BY <1>1, <2>2 DEF Open, Unread, Missing, Vouch, Accept, GiveUp, HandGood, Goes, Holds, StoreTypeOK
  <2> QED
    BY <2>1, <2>2
<1>6. /\ \E w : Goes(p, w)
      /\ (\E f : Holds(p, f)) \/ UNCHANGED handle
      /\ file' = file
  BY DEF Open, Verify, Unread, Missing, Vouch, Accept, GiveUp
<1> QED
  BY <1>2, <1>4, <1>5, <1>6, OneProcess

\* Writing what is not there.
LEMMA PutKeeps ==
  ASSUME StoreInv, NEW p \in Processes,
         (\E what \in {"file", "meta"} : Remove(p, what)) \/ Write(p) \/ MoveIn(p)
           \/ Reopen(p) \/ RecordIdentity(p)
  PROVE  StoreInv'
<1>1. StoreTypeOK /\ Agree /\ Truthful /\ HandGood(p)
  BY DEF StoreInv
<1>2. CASE Write(p)
  <2> DEFINE new == [id |-> NewId, genuine |-> TRUE]
  <2>1. /\ HasNewId /\ meta' = meta /\ file' = file
        /\ handle' = [handle EXCEPT ![p] = new] /\ where' = [where EXCEPT ![p] = "write"]
        /\ UNCHANGED <<rmLeft, sweeping>>
    BY <1>2 DEF Write, Holds, Goes
  <2>2. InHand' \subseteq InHand \cup {new}
    BY <1>1, <2>1 DEF InHand, StoreTypeOK
  <2>3. Agree' /\ Truthful' /\ new \in Files /\ new.genuine
    BY <1>1, <2>1, <2>2, NewFile
  <2> HIDE DEF new
  <2>4. StoreTypeOK' /\ HandGood(p)'
    BY <1>1, <2>1, <2>3 DEF StoreTypeOK, HandGood
  <2> QED
    BY <2>1, <2>3, <2>4, OneProcess DEF Goes, Holds
<1>3. CASE \E what \in {"file", "meta"} : Remove(p, what)
  <2>1. /\ file' \in {file, Nothing} /\ meta' \in {meta, Nothing}
        /\ UNCHANGED <<where, handle, sweeping>>
        /\ \E what \in {"file", "meta"} : rmLeft' = [rmLeft EXCEPT ![p] = rmLeft[p] \ {what}]
    BY <1>3 DEF Remove
  <2>2. InHand' \subseteq InHand
    BY <2>1 DEF InHand
  <2>3. Agree' /\ Truthful'
    BY <1>1, <2>1, <2>2, LetGo
  <2>4. StoreTypeOK'
    BY <1>1, <2>1 DEF StoreTypeOK
  <2>5. \A q \in Processes : HandGood(q)'
    BY <2>1 DEF StoreInv, HandGood
  <2> QED
    BY <2>3, <2>4, <2>5 DEF StoreInv
<1>4. CASE MoveIn(p) \/ Reopen(p) \/ RecordIdentity(p)
  <2>1. StoreTypeOK'
    BY <1>1, <1>4 DEF MoveIn, Reopen, RecordIdentity, StoreTypeOK, HandGood, Goes, Holds, Files
  <2>2. InHand' \subseteq InHand
    BY <1>1, <1>4 DEF MoveIn, Reopen, RecordIdentity, StoreTypeOK, Holds, InHand
  <2>3. Agree' /\ Truthful'
    <3>1. CASE meta' = meta
      BY <1>1, <2>2, <3>1, LetGo
    <3>2. CASE RecordIdentity(p)
      <4>1. handle[p] \in InHand /\ handle[p].genuine /\ meta' = handle[p].id
        BY <1>1, <3>2, StoreConstants DEF StoreConstants, HandGood, RecordIdentity, InHand
      <4> QED
        BY <1>1, <2>2, <4>1, Vouching
    <3> QED
      BY <1>4, <3>1, <3>2 DEF MoveIn, Reopen
  <2>4. HandGood(p)' /\ (file' = file \/ (file' \in Files /\ file'.genuine))
    BY <1>1, <1>4 DEF MoveIn, Reopen, RecordIdentity, HandGood, Goes, Holds, StoreTypeOK
  <2>5. (\E w : Goes(p, w)) /\ (\E f : Holds(p, f))
    BY <1>4 DEF MoveIn, Reopen, RecordIdentity
  <2> QED
    BY <2>1, <2>3, <2>4, <2>5, OneProcess
<1> QED
  BY <1>2, <1>3, <1>4

\* What happens to the directory without a put or an open.
LEMMA DirectoryKeeps ==
  ASSUME StoreInv, SweepFile \/ SweepMetadata \/ FileDamaged
  PROVE  StoreInv'
<1>1. StoreTypeOK /\ Agree /\ Truthful /\ UNCHANGED <<where, handle, rmLeft>>
  BY DEF StoreInv, SweepFile, SweepMetadata, FileDamaged
<1>2. CASE SweepFile \/ SweepMetadata
  <2>1. file' \in {file, Nothing} /\ meta' \in {meta, Nothing} /\ sweeping' \in BOOLEAN
    BY <1>2 DEF SweepFile, SweepMetadata
  <2>2. InHand' \subseteq InHand
    BY <1>1, <2>1 DEF InHand
  <2>3. Agree' /\ Truthful'
    BY <1>1, <2>1, <2>2, LetGo
  <2>4. \A q \in Processes : HandGood(q)'
    BY <1>1, <2>1 DEF StoreInv, HandGood
  <2>5. StoreTypeOK'
    BY <1>1, <2>1 DEF StoreTypeOK
  <2> QED
    BY <2>3, <2>4, <2>5 DEF StoreInv
<1>3. CASE FileDamaged
  <2> DEFINE new == [id |-> NewId, genuine |-> FALSE]
  <2>1. /\ HasNewId /\ file' = new /\ UNCHANGED <<meta, sweeping>>
        /\ \A q \in Processes : where[q] # "reopen"
    BY <1>3 DEF FileDamaged
  <2>2. InHand' \subseteq InHand \cup {new}
    BY <1>1, <2>1 DEF InHand
  <2>3. Agree' /\ Truthful' /\ new \in Files
    BY <1>1, <2>1, <2>2, NewFile
  <2>4. \A q \in Processes : HandGood(q)'
    BY <1>1, <2>1 DEF StoreInv, HandGood
  <2>5. StoreTypeOK'
    BY <1>1, <2>1, <2>3 DEF StoreTypeOK
  <2> QED
    BY <2>3, <2>4, <2>5 DEF StoreInv
<1> QED
  BY <1>2, <1>3

LEMMA StoreStep == StoreInv /\ [StoreNext]_storeVars => StoreInv'
<1> SUFFICES ASSUME StoreInv, [StoreNext]_storeVars
             PROVE  StoreInv'
  OBVIOUS
<1>1. CASE UNCHANGED storeVars
  BY <1>1 DEF storeVars, StoreInv, StoreTypeOK, Agree, Truthful, InHand, HandGood
<1>2. CASE StoreNext
  BY <1>2, OpenKeeps, PutKeeps, DirectoryKeeps DEF StoreNext, Processes
<1> QED
  BY <1>1, <1>2

\* Nothing is served, or accepted for a write, whose bytes are not what the
\* address says: not after damage, not after a sweep half done, and not when
\* the metadata of one writer's file is recorded over that of another's.
THEOREM ServedAlwaysGenuine == StoreSpec => []ServedIsGenuine
<1>1. StoreInv => ServedIsGenuine
  BY DEF StoreInv, HandGood, ServedIsGenuine
<1> QED
  BY <1>1, StoreInitInv, StoreStep, PTL DEF StoreSpec

\* Every variable of the store keeps to its range.
THEOREM StoreTypes == StoreSpec => []StoreTypeOK
<1>1. StoreInv => StoreTypeOK
  BY DEF StoreInv
<1> QED
  BY <1>1, StoreInitInv, StoreStep, PTL DEF StoreSpec
============================================================================
