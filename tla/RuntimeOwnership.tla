-------------------------- MODULE RuntimeOwnership --------------------------
(***************************************************************************)
(* Which runtime owns a controller home and which processes may write to   *)
(* it (src/runtime/root/ownership.ts, release-store.ts, write-fence.ts,    *)
(* and the start and stop of src/runtime/root/runtime.ts).                 *)
(*                                                                         *)
(* The owner record is one file, created exclusively and then written; a   *)
(* contender that finds it malformed, or its process dead, renames it away *)
(* and tries again.  The release authority is another file, replaced whole *)
(* by whoever publishes, rolls back or reverts a release.  A process       *)
(* carries a write claim, a copy of both, and is fenced when either file   *)
(* has moved on.  The children of a runtime inherit its claim.             *)
(***************************************************************************)
EXTENDS Naturals, FiniteSets

CONSTANTS
    Runtimes,     \* runtime processes, each started once, with a pid of its own
    Releases,
    Publishers,   \* publish, roll back and revert releases, outside any runtime
    MaxTokens,    \* bound on the authorities ever written
    Prompt,       \* TRUE: nobody looks at the owner file between the two calls
                  \* with which another process creates or replaces it
    NoOwner, NoAuthority, NoRelease, NoRead

ASSUME BoundAssumption == MaxTokens \in Nat
ASSUME PromptAssumption == Prompt \in BOOLEAN
ASSUME AbsentAssumption == /\ NoOwner \notin Runtimes
                           /\ NoRelease \notin Releases

VARIABLES
    owner,      \* whose record the owner file is, NoOwner when there is none
    written,    \* the runtimes that have written their record
    stage,      \* where each runtime is
    attempts,   \* how often it has found the file there
    release,    \* the release it was started from
    authority,  \* the release authority file
    tokens,     \* fencing tokens drawn so far
    ensured,    \* the authority ensureActiveRuntimeRelease returned to it
    claims,     \* the write claims ever bound
    reading     \* what each publisher has read and is about to replace

vars == <<owner, written, stage, attempts, release, authority, tokens, ensured,
          claims, reading>>
ownership == <<owner, written, attempts>>
releases  == <<authority, tokens, reading>>

Stages == {"off", "create", "write", "read", "rename", "ensure", "first", "bind",
           "serving", "release", "unlink", "stopped", "dead"}
Owning == {"ensure", "first", "bind", "serving", "release", "unlink"}
Alive(p) == stage[p] \notin {"off", "stopped", "dead"}

Authority == [rev : Nat, token : Nat, active : Releases,
              previous : Releases \union {NoRelease},
              by : Publishers \union Runtimes]
WriteClaim == [owner : Runtimes, rev : Nat, token : Nat, active : Releases]

ASSUME NoAuthorityAssumption == NoAuthority \notin Authority

Init ==
    /\ owner = NoOwner
    /\ written = {}
    /\ stage = [p \in Runtimes |-> "off"]
    /\ attempts = [p \in Runtimes |-> 0]
    /\ release \in [Runtimes -> Releases]
    /\ authority = NoAuthority
    /\ tokens = 0
    /\ ensured = [p \in Runtimes |-> NoAuthority]
    /\ claims = {}
    /\ reading = [u \in Publishers |-> NoRead]

At(p, from, to) == stage[p] = from /\ stage' = [stage EXCEPT ![p] = to]

(* Nobody else stands between two calls on the owner file.                  *)
Undisturbed(p) ==
    Prompt => \A q \in Runtimes \ {p} : stage[q] \notin {"write", "rename", "unlink"}

-----------------------------------------------------------------------------
(* Runtime.start, once, up to the first attempt on the owner file.          *)
Start(p) ==
    /\ At(p, "off", "create")
    /\ UNCHANGED <<ownership, release, releases, ensured, claims>>

(* Mutant: the file is opened for writing, not exclusively.                 *)
MutCreateAlways(p) ==
    /\ Undisturbed(p)
    /\ At(p, "create", "write") /\ owner' = p
    /\ UNCHANGED <<written, attempts, release, releases, ensured, claims>>

(* The third failed attempt is a conflict, whoever owns the home by then.   *)
Create(p) ==
    /\ Undisturbed(p)
    /\ IF owner = NoOwner
       THEN At(p, "create", "write") /\ owner' = p
       ELSE At(p, "create", "read") /\ UNCHANGED owner
    /\ UNCHANGED <<written, attempts, release, releases, ensured, claims>>

(* The record goes to the file this process opened, wherever that is now.   *)
Write(p) ==
    /\ At(p, "write", "ensure")
    /\ written' = written \union {p}
    /\ UNCHANGED <<owner, attempts, release, releases, ensured, claims>>

(* readOwnerPath: no file and half a record both read as undefined.         *)
Recorded(p) == owner = p /\ p \in written
LiveRecord == \E p \in Runtimes : Recorded(p) /\ Alive(p)

ReadOwner(p) ==
    /\ Undisturbed(p)
    /\ At(p, "read", IF LiveRecord THEN "stopped" ELSE "rename")
    /\ UNCHANGED <<ownership, release, releases, ensured, claims>>

Rename(p) ==
    /\ At(p, "rename", IF attempts[p] < 2 THEN "create" ELSE "stopped")
    /\ owner' = NoOwner
    /\ attempts' = [attempts EXCEPT ![p] = @ + 1]
    /\ UNCHANGED <<written, release, releases, ensured, claims>>

-----------------------------------------------------------------------------
(* ensureActiveRuntimeRelease: the authority must name this release; the    *)
(* first runtime of a home writes it.                                       *)
NewAuthority(r, from, by) ==
    /\ tokens < MaxTokens
    /\ tokens' = tokens + 1
    /\ authority' = [rev |-> IF from = NoAuthority THEN 1 ELSE from.rev + 1,
                     token |-> tokens, active |-> r,
                     previous |-> IF from = NoAuthority THEN NoRelease ELSE from.active,
                     by |-> by]

Ensure(p) ==
    /\ IF authority = NoAuthority
       THEN At(p, "ensure", "first") /\ UNCHANGED ensured
       ELSE IF authority.active = release[p]
       THEN At(p, "ensure", "bind") /\ ensured' = [ensured EXCEPT ![p] = authority]
       ELSE At(p, "ensure", "release") /\ UNCHANGED ensured
    /\ UNCHANGED <<ownership, release, releases, claims>>

WriteFirst(p) ==
    /\ At(p, "first", "bind")
    /\ NewAuthority(release[p], NoAuthority, p)
    /\ ensured' = [ensured EXCEPT ![p] = authority']
    /\ UNCHANGED <<ownership, release, reading, claims>>

(* bindRuntimeWriteClaim with the owner record and the authority in hand.   *)
Bind(p) ==
    /\ At(p, "bind", "serving")
    /\ LET a == ensured[p] IN
       claims' = claims \union
           {[owner |-> p, rev |-> a.rev, token |-> a.token, active |-> a.active]}
    /\ UNCHANGED <<ownership, release, releases, ensured>>

(* A stop is requested, a service fails, or the monitor sees that the       *)
(* authority names another release.                                         *)
Stop(p) ==
    /\ stage[p] \in {"ensure", "first", "bind", "serving"}
    /\ stage' = [stage EXCEPT ![p] = "release"]
    /\ UNCHANGED <<ownership, release, releases, ensured, claims>>

(* The release of the handle: read the record, and unlink it if it is ours. *)
ReadOwn(p) ==
    /\ Undisturbed(p)
    /\ At(p, "release", IF Recorded(p) THEN "unlink" ELSE "stopped")
    /\ UNCHANGED <<ownership, release, releases, ensured, claims>>

Unlink(p) ==
    /\ At(p, "unlink", "stopped")
    /\ owner' = NoOwner
    /\ UNCHANGED <<written, attempts, release, releases, ensured, claims>>

Crash(p) ==
    /\ Alive(p)
    /\ stage' = [stage EXCEPT ![p] = "dead"]
    /\ UNCHANGED <<ownership, release, releases, ensured, claims>>

-----------------------------------------------------------------------------
(* publishRuntimeRelease, rollbackRuntimeRelease and                        *)
(* revertInitialRuntimeReleasePublication read the authority, back up or    *)
(* restore the database, and replace or remove the file.                    *)
Has(a) == a # NoAuthority
BeginPublish(u, r) ==
    /\ reading[u] = NoRead
    /\ Has(authority) => authority.active # r
    /\ reading' = [reading EXCEPT ![u] = [to |-> r, from |-> authority]]
    /\ UNCHANGED <<ownership, stage, release, authority, tokens, ensured, claims>>

BeginRollback(u) ==
    /\ reading[u] = NoRead
    /\ Has(authority) /\ authority.previous # NoRelease
    /\ reading' = [reading EXCEPT ![u] = [to |-> authority.previous, from |-> authority]]
    /\ UNCHANGED <<ownership, stage, release, authority, tokens, ensured, claims>>

Commit(u) ==
    /\ reading[u] # NoRead /\ reading[u].to # NoRelease
    /\ NewAuthority(reading[u].to, reading[u].from, u)
    /\ reading' = [reading EXCEPT ![u] = NoRead]
    /\ UNCHANGED <<ownership, stage, release, ensured, claims>>

(* Only the initial publication, by the operation that made it.             *)
BeginRevert(u) ==
    /\ reading[u] = NoRead
    /\ Has(authority) /\ authority.rev = 1 /\ authority.by = u
    /\ reading' = [reading EXCEPT ![u] = [to |-> NoRelease, from |-> authority]]
    /\ UNCHANGED <<ownership, stage, release, authority, tokens, ensured, claims>>

CommitRevert(u) ==
    /\ reading[u] # NoRead /\ reading[u].to = NoRelease
    /\ authority' = NoAuthority
    /\ reading' = [reading EXCEPT ![u] = NoRead]
    /\ UNCHANGED <<ownership, stage, release, tokens, ensured, claims>>

(* The backup or the write fails.                                           *)
GiveUp(u) ==
    /\ reading[u] # NoRead
    /\ reading' = [reading EXCEPT ![u] = NoRead]
    /\ UNCHANGED <<ownership, stage, release, authority, tokens, ensured, claims>>

Next ==
    \/ \E p \in Runtimes :
          \/ Start(p) \/ Create(p) \/ Write(p) \/ ReadOwner(p) \/ Rename(p)
          \/ Ensure(p) \/ WriteFirst(p) \/ Bind(p)
          \/ Stop(p) \/ ReadOwn(p) \/ Unlink(p) \/ Crash(p)
    \/ \E u \in Publishers :
          \/ \E r \in Releases : BeginPublish(u, r)
          \/ BeginRollback(u) \/ BeginRevert(u)
          \/ Commit(u) \/ CommitRevert(u) \/ GiveUp(u)

Spec == Init /\ [][Next]_vars

-----------------------------------------------------------------------------
(* assertRuntimeMayWrite for a bound claim, of a runtime or its children.   *)
(* Mutant: the revision and the release are compared, the token is not.     *)
MutMayWriteNoToken(c) ==
    /\ Recorded(c.owner) /\ Alive(c.owner)
    /\ Has(authority)
    /\ authority.rev = c.rev /\ authority.active = c.active

MayWrite(c) ==
    /\ Recorded(c.owner) /\ Alive(c.owner)
    /\ Has(authority)
    /\ authority.rev = c.rev /\ authority.token = c.token /\ authority.active = c.active

TypeOK ==
    /\ owner \in Runtimes \union {NoOwner}
    /\ written \subseteq Runtimes
    /\ stage \in [Runtimes -> Stages]
    /\ attempts \in [Runtimes -> Nat]
    /\ release \in [Runtimes -> Releases]
    /\ authority \in Authority \union {NoAuthority}
    /\ tokens \in Nat
    /\ ensured \in [Runtimes -> Authority \union {NoAuthority}]
    /\ claims \subseteq WriteClaim
    /\ reading \in [Publishers -> [to : Releases \union {NoRelease},
                                  from : Authority \union {NoAuthority}] \union {NoRead}]
    /\ \A p \in Runtimes : stage[p] = "bind" => Has(ensured[p])

(* "There is no second active Daemon/Gateway authority"                     *)
(* (docs/wiki/Runtime-Architecture.md): of the runtimes that have taken the *)
(* controller home, whatever died or was restarted, one is running.         *)
OneOwner == \A p, q \in Runtimes : stage[p] \in Owning /\ stage[q] \in Owning => p = q

(* What makes it so while nobody is disturbed: the file names the running   *)
(* owner, or the process that is about to write its record.                 *)
OwnerInv ==
    /\ TypeOK
    /\ \A p \in Runtimes : stage[p] \in Owning => Recorded(p)
    /\ \A p \in Runtimes : stage[p] = "off" => p \notin written
    /\ \A p \in Runtimes : stage[p] = "write" => owner = p
    /\ \A p \in Runtimes : stage[p] = "rename" => ~LiveRecord
    /\ \A p, q \in Runtimes :
          stage[p] = "rename" /\ stage[q] \in {"write", "rename", "unlink"} => p = q

(* Tokens are drawn once, and a record once displaced does not come back.   *)
FenceInv ==
    /\ TypeOK
    /\ Has(authority) => authority.token < tokens
    /\ \A p \in Runtimes : Has(ensured[p]) => ensured[p].token < tokens
    /\ \A c \in claims : c.token < tokens
    /\ \A c \in claims : stage[c.owner] \notin {"off", "create", "write", "read", "rename"}

(* A process that was fenced stays fenced: neither a takeover of the home   *)
(* nor a publication, a rollback to its own release, or a revert and        *)
(* republication of it ever admits a claim bound before.                    *)
FencedForGood == [][\A c \in claims : ~MayWrite(c) => ~MayWrite(c)']_vars
=============================================================================
