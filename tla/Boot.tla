-------------------------------- MODULE Boot --------------------------------
(***************************************************************************)
(* Starting the service: app/main.py's lifespan, which seeds an empty      *)
(* database chunk by chunk before the first request is served, and         *)
(* scripts/seed.py, a second process that loads the same file at any time. *)
(* Either may be killed between two chunks; each chunk is one call of      *)
(* ingest_events, hence one step (Batch.tla).  Nothing here reads the      *)
(* clock columns, so every batch carries time 0.                           *)
(***************************************************************************)
EXTENDS Batch, Collections

CONSTANTS
  SeedFile,       (* the records of the sample file, valid or not          *)
  Posts,          (* POST /events bodies clients send to a serving process *)
  InMemory,       (* DATABASE_PATH is ":memory:"                           *)
  SeedOnStartup,  (* SEED_ON_STARTUP                                       *)
  ServerChunk,    (* the lifespan's chunk length, 2000 in the code         *)
  CliChunks,      (* the --batch-size values operators use                 *)
  MaxCrashes, MaxClis, MaxPosts   (* bounds                                *)

ASSUME BootAssumption ==
  /\ SeedFile \in Seq(EventIn)
  /\ Posts \subseteq Seq({e \in EventIn : Valid(e)})
  /\ InMemory \in BOOLEAN /\ SeedOnStartup \in BOOLEAN
  /\ ServerChunk \in Nat \ {0} /\ CliChunks \subseteq Nat \ {0}

VARIABLES
  db,       (* the committed database                                      *)
  shared,   (* the shared in-memory connection: none, open or closed       *)
  server,   (* the service: where it is, the chunk it loads next, and how  *)
            (* its last boot ended                                         *)
  cli,      (* the seeder process: loading or not, next chunk and length   *)
  whole,    (* some seeder has run to the end on this database             *)
  crashes, clis, posts

vars == <<db, shared, server, cli, whole, crashes, clis, posts>>

(* What validation leaves of the file.                                     *)
Events == Within(SeedFile, {e \in EventIn : Valid(e)})

Chunk(next, size) == SubSeq(Events, next, Min({next + size - 1, Len(Events)}))

NoCli == [at |-> "none", next |-> 1, size |-> 1]

Down == [at |-> "down", next |-> 1, boot |-> "none"]

Serving(how) == [at |-> "serving", next |-> 1, boot |-> how]

Init ==
  /\ db = EmptyDb
  /\ shared = "none"
  /\ server = Down
  /\ cli = NoCli
  /\ whole = FALSE
  /\ crashes = 0 /\ clis = 0 /\ posts = 0

-----------------------------------------------------------------------------
(* The service process.                                                    *)

(* lifespan: init_db(), then _seed_if_empty() unless it is switched off.   *)
Start ==
  /\ server.at = "down"
  /\ shared' = IF InMemory THEN "open" ELSE shared
  /\ server' = IF SeedOnStartup THEN [Down EXCEPT !.at = "count"] ELSE Serving("off")
  /\ UNCHANGED <<db, cli, whole, crashes, clis, posts>>

(* finally: conn.close(), whichever connection connect() returned.         *)
CloseSeedConnection == shared' = IF InMemory THEN "closed" ELSE shared

(* Fault variant: the count is not looked at.                              *)
AlreadySeeded_Unchecked == FALSE

AlreadySeeded == Len(db.events) > 0

SkipSeed ==
  /\ server.at = "count" /\ AlreadySeeded
  /\ CloseSeedConnection
  /\ server' = Serving("skipped")
  /\ UNCHANGED <<db, cli, whole, crashes, clis, posts>>

ReadSeedFile ==
  /\ server.at = "count" /\ ~ AlreadySeeded
  /\ server' = [server EXCEPT !.at = "load"]
  /\ UNCHANGED <<db, shared, cli, whole, crashes, clis, posts>>

SeedChunk ==
  /\ server.at = "load" /\ server.next <= Len(Events)
  /\ db' = ApplyBatch(db, Chunk(server.next, ServerChunk), 0)
  /\ server' = [server EXCEPT !.next = @ + ServerChunk]
  /\ UNCHANGED <<shared, cli, whole, crashes, clis, posts>>

SeedDone ==
  /\ server.at = "load" /\ server.next > Len(Events)
  /\ CloseSeedConnection
  /\ server' = Serving("loaded")
  /\ whole' = TRUE
  /\ UNCHANGED <<db, cli, crashes, clis, posts>>

(* Fault variant: the exception leaves lifespan and the process stops.     *)
SeedFails_Fatal ==
  /\ server.at \in {"count", "load"}
  /\ CloseSeedConnection
  /\ server' = Down
  /\ UNCHANGED <<db, cli, whole, crashes, clis, posts>>

(* Any exception while seeding - a locked database, a file that does not   *)
(* parse - is logged, and the service comes up all the same.               *)
SeedFails ==
  /\ server.at \in {"count", "load"}
  /\ CloseSeedConnection
  /\ server' = Serving("failed")
  /\ UNCHANGED <<db, cli, whole, crashes, clis, posts>>

(* Whether a request's connect() hands out a connection that works.        *)
Usable == InMemory => shared = "open"

Post(b) ==
  /\ server.at = "serving" /\ Usable
  /\ posts < MaxPosts
  /\ posts' = posts + 1
  /\ db' = ApplyBatch(db, b, 0)
  /\ UNCHANGED <<shared, server, cli, whole, crashes, clis>>

-----------------------------------------------------------------------------
(* scripts/seed.py, in a process of its own: a file database only.         *)

CliStart(size, reset) ==
  /\ ~ InMemory /\ cli.at = "none"
  /\ clis < MaxClis
  /\ clis' = clis + 1
  /\ reset => server.at = "down"
  /\ cli' = [at |-> "load", next |-> 1, size |-> size]
  /\ db' = IF reset THEN EmptyDb ELSE db
  /\ whole' = (whole /\ ~ reset)
  /\ UNCHANGED <<shared, server, crashes, posts>>

(* Fault variant: the next chunk starts one record late.                   *)
CliNext_Skips(next, size) == next + size + 1

CliNext(next, size) == next + size

CliChunk ==
  /\ cli.at = "load" /\ cli.next <= Len(Events)
  /\ db' = ApplyBatch(db, Chunk(cli.next, cli.size), 0)
  /\ cli' = [cli EXCEPT !.next = CliNext(@, cli.size)]
  /\ UNCHANGED <<shared, server, whole, crashes, clis, posts>>

CliDone ==
  /\ cli.at = "load" /\ cli.next > Len(Events)
  /\ cli' = NoCli
  /\ whole' = TRUE
  /\ UNCHANGED <<db, shared, server, crashes, clis, posts>>

(* Its exceptions are not caught, and it can be interrupted.               *)
CliStops ==
  /\ cli.at = "load"
  /\ cli' = NoCli
  /\ UNCHANGED <<db, shared, server, whole, crashes, clis, posts>>

-----------------------------------------------------------------------------
(* The service is killed; a database file survives unless the deployment's *)
(* disk is ephemeral, one in memory never does.                            *)
Crash(disk) ==
  /\ server.at # "down"
  /\ crashes < MaxCrashes
  /\ crashes' = crashes + 1
  /\ server' = Down
  /\ shared' = "none"
  /\ IF disk = "kept" /\ ~ InMemory
     THEN UNCHANGED <<db, whole, cli>>
     ELSE db' = EmptyDb /\ whole' = FALSE /\ cli' = NoCli
  /\ UNCHANGED <<clis, posts>>

ServerStep == Start \/ SkipSeed \/ ReadSeedFile \/ SeedChunk \/ SeedDone \/ SeedFails

Next ==
  \/ ServerStep
  \/ \E b \in Posts : Post(b)
  \/ \E size \in CliChunks, reset \in BOOLEAN : CliStart(size, reset)
  \/ CliChunk \/ CliDone \/ CliStops
  \/ \E disk \in {"kept", "ephemeral"} : Crash(disk)

Fairness == WF_vars(ServerStep)

Spec == Init /\ [][Next]_vars /\ Fairness

-----------------------------------------------------------------------------
SeedIds == {Events[i].event_id : i \in DOMAIN Events}

(* One uninterrupted load of the file, whatever the chunks.                *)
LoadedOnce == ApplyBatch(EmptyDb, Events, 0)

SeedEvents == {e \in EventIn : e.event_id \in SeedIds}

(* Clients send other events than the file's.                              *)
PostsElsewhere == \A b \in Posts : \A i \in DOMAIN b : b[i].event_id \notin SeedIds

(* However boots and seeders interleave, stop and start again, the seed    *)
(* events are stored in file order without a gap, unless clients send them *)
(* too: what is stored is what an uninterrupted load would have stored up  *)
(* to some point.  (Both loaders' chunk arithmetic, and a rerun replaying  *)
(* what is there.)                                                         *)
SeedStoredInOrder ==
  posts = 0 \/ PostsElsewhere =>
    LET stored == Within(Payloads(db), SeedEvents)
        full == Payloads(LoadedOnce)
    IN /\ Len(stored) <= Len(full)
       /\ \A i \in 1..Len(stored) : stored[i] = full[i]

(* The part of a row that reconciliation reads; redeliveries are counted   *)
(* apart.                                                                  *)
State(r) == [r EXCEPT !.duplicate_event_count = 0, !.updated_at = 0]

(* seed.py: "Re-running it is safe": once some load has run to the end, no *)
(* earlier part load, concurrent load, rerun or restart shows in the state *)
(* of any transaction (main.py 56-83, seed.py 65-72).                      *)
SeedingIsIdempotent ==
  whole /\ posts = 0 =>
    /\ DOMAIN db.transactions = DOMAIN LoadedOnce.transactions
    /\ \A t \in DOMAIN db.transactions :
         State(db.transactions[t]) = State(LoadedOnce.transactions[t])

Duplicates(d) ==
  SumOver([t \in DOMAIN d.transactions |-> d.transactions[t].duplicate_event_count],
          DOMAIN d.transactions)

(* Restarting the service replays nothing: without a seeder or a client,   *)
(* no boot adds redeliveries beyond those the file itself contains.        *)
BootsReplayNothing ==
  clis = 0 /\ posts = 0 => Duplicates(db) <= Duplicates(LoadedOnce)

(* main.py:80: "A failed seed must not stop the service from starting":    *)
(* with crashes bounded the service ends up serving for good.              *)
ServiceComesUp == <>[](server.at = "serving")

(* config.py:41-43: an empty database "make[s] the demo look broken"; "If  *)
(* the events table is empty at boot and a seed file is present, load it   *)
(* once": a service that found the seed in place has all of it.            *)
SkippedMeansLoaded ==
  server.boot = "skipped" /\ posts = 0 /\ clis = 0 =>
    SeedIds \subseteq Ids(db.events)

(* main.py:44-45: loaded on first boot "so a fresh deployment is           *)
(* immediately explorable": a serving process can reach its database.      *)
ServingIsExplorable == server.at = "serving" => Usable
=============================================================================
