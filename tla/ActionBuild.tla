---------------------------- MODULE ActionBuild ----------------------------
(***************************************************************************)
(* How an executor runs the actions of a build graph.  Each action is      *)
(* first looked for in a cache that other builds fill: the directory of    *)
(* the host and, where the host has one, Redis behind it.  The key of an   *)
(* action is computed from the graph before anything runs, so it speaks of *)
(* the inputs the graph pins, not of the bytes the action will find; what  *)
(* keeps the two together is that an output of arguments the key does not  *)
(* show is never stored, nor is what was made from it.                     *)
(***************************************************************************)
EXTENDS Integers, Sequences, FiniteSets

CONSTANTS
  Builds,    \* the builds that run, at any time
  Hosts,     \* cache directories
  Tools,     \* policyIdentity of an executor: its tools and their paths
  Count,     \* how many actions a graph has
  Needs,     \* dependencies of an action
  Upstream,  \* the actions an action's key reaches, itself among them
  Pins,      \* what a graph may pin for an action: content, arguments, Packs
  Workloads, \* which executors build which graphs at a time; a tiered one has
             \* Redis behind its directory
  MaxDamaged, \* bound: damaged entries at a time
  Absent,  \* no entry, no output
  Broken,    \* an entry whose blobs or JSON do not read: removed when met
  Unreadable \* an entry with a manifest of another shape: left where it is

\* The actions of a graph, in topological order.
Actions == 1 .. Count

ASSUME BuildConstants ==
  /\ Count \in Nat
  /\ Workloads \subseteq [Builds -> [host : Hosts, tools : Tools, tiered : BOOLEAN,
                                  pins : [Actions -> Pins]]]
  /\ MaxDamaged \in Nat
  /\ DOMAIN Needs = Actions /\ DOMAIN Upstream = Actions
  /\ \A a \in Actions :
       /\ Needs[a] \subseteq 1 .. a - 1
       /\ Upstream[a] = {a} \cup UNION {Upstream[d] : d \in Needs[a]}

\* The key: an action, what the graph pins for it and upstream, the executor.
\* An output is described in the same words, for what it was really made of
\* and by whom, and by whether its arguments, or its inputs', were changed.
KeyOf(a, pins, tools) ==
  [action |-> a, from |-> [x \in Upstream[a] |-> pins[x]], tools |-> tools]

Keys == UNION {{KeyOf(a, w[b].pins, w[b].tools) : b \in Builds, a \in Actions} :
                 w \in Workloads}

VARIABLES
  workload, \* the executor and the graph of a build, for good
  status,  \* of a build: running, done, failed
  phase,   \* what it is at, or what it left behind when it failed:
           \* begin, local, remote, fill, run, store, share, idle
  held,    \* the entry on its way into a cache
  out,     \* outputs in the workspace of the build, action by action
  tainted, \* nonCacheableActions
  changed, \* actions its runner gave other arguments than the graph's
  local,   \* the entries in a directory, by key
  remote   \* those in Redis

buildVars == <<workload, status, phase, held, out, tainted, changed, local, remote>>

BuildInit ==
  /\ workload \in Workloads
  /\ status = [b \in Builds |-> "running"]
  /\ phase = [b \in Builds |-> "begin"]
  /\ held = [b \in Builds |-> Absent]
  /\ out = [b \in Builds |-> <<>>]
  /\ tainted = [b \in Builds |-> {}] /\ changed = [b \in Builds |-> {}]
  /\ local = [h \in Hosts |-> <<>>] /\ remote = <<>>

HostOf(b) == workload[b].host
Key(b, a) == KeyOf(a, workload[b].pins, workload[b].tools)

\* The action a build is at, and its key.
At(b) == Len(out[b]) + 1
KeyNow(b) == Key(b, At(b))

\* A cache is a function from the keys it has.
EntryAt(cache, k) == IF k \in DOMAIN cache THEN cache[k] ELSE Absent
With(cache, k, entry) ==
  [x \in DOMAIN cache \cup {k} |-> IF x = k THEN entry ELSE cache[x]]
Without(cache, k) == [x \in DOMAIN cache \ {k} |-> cache[x]]

Intact(entry) == entry \notin {Absent, Broken, Unreadable}

\* The cache is asked unless a dependency is tainted.
FromTainted(b) == Needs[At(b)] \cap tainted[b] # {}

Goto(b, p) == phase' = [phase EXCEPT ![b] = p]

\* The action has its outputs: on to the next, or to the artifacts.
Proceed(b, entry) ==
  /\ out' = [out EXCEPT ![b] = Append(@, entry)]
  /\ held' = [held EXCEPT ![b] = Absent]
  /\ Goto(b, "begin")

\* A call of the cache ends: the build goes on with the outputs, unless it
\* was interrupted while it waited.
CacheAnswers(b, entry) ==
  \/ status[b] = "running" /\ Proceed(b, entry)
  \/ /\ status[b] # "running"
     /\ Goto(b, "idle")
     /\ held' = [held EXCEPT ![b] = Absent]
     /\ UNCHANGED out

Fails(b) ==
  /\ status' = [status EXCEPT ![b] = "failed"]
  /\ Goto(b, "idle")
  /\ held' = [held EXCEPT ![b] = Absent]

----------------------------------------------------------------------------
(* Looking for the outputs. *)

Begin(b) ==
  /\ phase[b] = "begin" /\ At(b) \in Actions
  /\ Goto(b, IF FromTainted(b) THEN "run" ELSE "local")
  /\ UNCHANGED <<workload, status, held, out, tainted, changed, local, remote>>

Miss(b) ==
  /\ Goto(b, IF workload[b].tiered THEN "remote"
             ELSE IF status[b] = "running" THEN "run" ELSE "idle")
  /\ UNCHANGED <<out, held>>

\* FileActionCache.get.  A broken entry is removed, if that can be done.
GetLocal(b) ==
  /\ phase[b] = "local"
  /\ LET h == HostOf(b)
         k == KeyNow(b)
         entry == EntryAt(local[h], k)
     IN  /\ IF Intact(entry) THEN CacheAnswers(b, entry) ELSE Miss(b)
         /\ \/ entry = Broken /\ local' = [local EXCEPT ![h] = Without(@, k)]
            \/ UNCHANGED local
  /\ UNCHANGED <<workload, status, tainted, changed, remote>>

\* RedisActionCache.get: trouble is a miss.
GetRemote(b) ==
  /\ phase[b] = "remote"
  /\ LET entry == EntryAt(remote, KeyNow(b))
     IN  \/ /\ Intact(entry)
            /\ held' = [held EXCEPT ![b] = entry]
            /\ Goto(b, "fill")
         \/ /\ UNCHANGED held
            /\ Goto(b, IF status[b] = "running" THEN "run" ELSE "idle")
  /\ UNCHANGED <<workload, status, out, tainted, changed, local, remote>>

\* A directory that is there, whatever it holds, is not replaced: the rename
\* fails and the temporary directory is dropped.  So may any write.
Put(h, k, entry) ==
  \/ local' = IF k \in DOMAIN local[h] THEN local ELSE [local EXCEPT ![h] = With(@, k, entry)]
  \/ UNCHANGED local

\* What Redis had goes into the directory; a failure there is ignored.
Fill(b) ==
  /\ phase[b] = "fill"
  /\ Put(HostOf(b), KeyNow(b), held[b])
  /\ CacheAnswers(b, held[b])
  /\ UNCHANGED <<workload, status, tainted, changed, remote>>

----------------------------------------------------------------------------
(* Running the action. *)

\* What comes out of an action that runs on the outputs the workspace has.
Made(b, a, bent) ==
  [key  |-> KeyOf(a, [x \in Upstream[a] |->
              IF x = a THEN workload[b].pins[a]
              ELSE LET d == CHOOSE d \in Needs[a] : x \in Upstream[d]
                   IN  out[b][d].key.from[x]],
              workload[b].tools),
   bent |-> bent \/ \E d \in Needs[a] : out[b][d].bent]

\* May the output be stored?  Its arguments are the graph's and so are those
\* behind its inputs.
Cacheable_OwnArguments(b, bent) == ~bent
Cacheable(b, bent) == ~bent /\ ~FromTainted(b)

\* runAction or the sandbox, on success.  Only a runner may change arguments.
Execute(b) ==
  /\ phase[b] = "run"
  /\ \E bent \in BOOLEAN :
       LET a == At(b)
           made == Made(b, a, bent)
       IN  /\ changed' = IF bent THEN [changed EXCEPT ![b] = @ \cup {a}] ELSE changed
           /\ \/ /\ Cacheable(b, bent)
                 /\ held' = [held EXCEPT ![b] = made]
                 /\ Goto(b, "store")
                 /\ UNCHANGED <<out, tainted>>
              \/ /\ ~Cacheable(b, bent)
                 /\ tainted' = [tainted EXCEPT ![b] = @ \cup {a}]
                 /\ Proceed(b, made)
  /\ UNCHANGED <<workload, status, local, remote>>

\* An input or an artifact is not there or not what the graph pins; or the
\* compiler reports errors, a limit is exceeded, an output is missing.
ExecuteFails(b) ==
  /\ phase[b] \in {"begin", "run"}
  /\ Fails(b)
  /\ UNCHANGED <<workload, out, tainted, changed, local, remote>>

\* FileActionCache.put.
Store(b) ==
  /\ phase[b] = "store"
  /\ Put(HostOf(b), KeyNow(b), held[b])
  /\ IF workload[b].tiered
     THEN Goto(b, "share") /\ UNCHANGED <<held, out>>
     ELSE CacheAnswers(b, held[b])
  /\ UNCHANGED <<workload, status, tainted, changed, remote>>

\* No directory can be made for the entry: this one put does throw, and the
\* build with it.
StoreFails(b) ==
  /\ phase[b] = "store"
  /\ Fails(b)
  /\ UNCHANGED <<workload, out, tainted, changed, local, remote>>

\* RedisActionCache.put: an entry that is too large or a call that fails is
\* not stored.
Share(b) ==
  /\ phase[b] = "share"
  /\ \/ remote' = With(remote, KeyNow(b), held[b])
     \/ UNCHANGED remote
  /\ CacheAnswers(b, held[b])
  /\ UNCHANGED <<workload, status, tainted, changed, local>>

\* The artifacts are read from the workspace.
BuildDone(b) ==
  /\ phase[b] = "begin" /\ At(b) \notin Actions
  /\ status' = [status EXCEPT ![b] = "done"]
  /\ Goto(b, "idle")
  /\ UNCHANGED <<workload, held, out, tainted, changed, local, remote>>

----------------------------------------------------------------------------
(* Trouble. *)

\* A deadline or a cancellation: the build fails at once; the call of a cache
\* it was waiting for goes on.  When the process dies, nothing goes on.
Interrupt(b) ==
  /\ status[b] = "running"
  /\ \/ /\ phase[b] \in {"local", "remote", "fill", "store", "share"}
        /\ status' = [status EXCEPT ![b] = "failed"]
        /\ UNCHANGED <<phase, held>>
     \/ Fails(b)
  /\ UNCHANGED <<workload, out, tainted, changed, local, remote>>

\* The TTL or the quota of the directory, or prune() meeting a broken entry.
Prune(h, k) ==
  /\ k \in DOMAIN local[h]
  /\ local' = [local EXCEPT ![h] = Without(@, k)]
  /\ UNCHANGED <<workload, status, phase, held, out, tainted, changed, remote>>

Expire(k) ==
  /\ k \in DOMAIN remote
  /\ remote' = Without(remote, k)
  /\ UNCHANGED <<workload, status, phase, held, out, tainted, changed, local>>

\* A disk or another program damages what is stored, or a removal was cut short.
Damaged == {Broken, Unreadable}

EntryDamaged(k) ==
  /\ Cardinality({e \in Hosts \X Keys : EntryAt(local[e[1]], e[2]) \in Damaged})
       + Cardinality({x \in Keys : EntryAt(remote, x) \in Damaged}) < MaxDamaged
  /\ \/ \E h \in Hosts, bad \in Damaged :
          /\ Intact(EntryAt(local[h], k))
          /\ local' = [local EXCEPT ![h] = With(@, k, bad)]
          /\ UNCHANGED remote
     \/ /\ Intact(EntryAt(remote, k))
        /\ remote' = With(remote, k, Broken)
        /\ UNCHANGED local
  /\ UNCHANGED <<workload, status, phase, held, out, tainted, changed>>

BuildNext ==
  \/ \E b \in Builds :
       \/ Begin(b) \/ GetLocal(b) \/ GetRemote(b) \/ Fill(b)
       \/ Execute(b) \/ ExecuteFails(b) \/ Store(b) \/ StoreFails(b) \/ Share(b)
       \/ BuildDone(b) \/ Interrupt(b)
  \/ \E k \in Keys :
       \/ \E h \in Hosts : Prune(h, k)
       \/ Expire(k) \/ EntryDamaged(k)

BuildSpec == BuildInit /\ [][BuildNext]_buildVars

----------------------------------------------------------------------------

Outputs == [key : Keys, bent : BOOLEAN]
IsCache(cache) ==
  DOMAIN cache \subseteq Keys /\ \A k \in DOMAIN cache : cache[k] \in Outputs \cup Damaged

BuildTypeOK ==
  /\ workload \in Workloads
  /\ status \in [Builds -> {"running", "done", "failed"}]
  /\ phase \in [Builds -> {"begin", "local", "remote", "fill", "run", "store", "share", "idle"}]
  /\ held \in [Builds -> Outputs \cup {Absent}]
  /\ out \in [Builds -> Seq(Outputs)] /\ \A b \in Builds : Len(out[b]) <= Count
  /\ tainted \in [Builds -> SUBSET Actions] /\ changed \in [Builds -> SUBSET Actions]
  /\ DOMAIN local = Hosts /\ \A h \in Hosts : IsCache(local[h])
  /\ IsCache(remote)

\* A build holds no output of another: each is made from what its own graph
\* pins, upstream too, by an executor of its own policy, and with changed
\* arguments only where its own runner changed them.  The caches, the calls a
\* build left behind and the damage to both do not show in a build.
OutputsAreOwn ==
  \A b \in Builds : \A a \in 1 .. Len(out[b]) :
      /\ out[b][a].key = Key(b, a)
      /\ out[b][a].bent => Upstream[a] \cap changed[b] # {}
============================================================================
