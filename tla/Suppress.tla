----------------------------- MODULE Suppress -----------------------------
(***************************************************************************)
(* The local copy of the suppression list: internal/suppress, with the     *)
(* relay's gate in front of it (relay.suppressionAllows).  An import is a  *)
(* DEL when it replaces, one SADD per chunk, and two SETs; a gate check is *)
(* the staleness read and up to two membership reads.  Each is a Redis     *)
(* command of its own, so imports and checks interleave command by command.*)
(*                                                                         *)
(* Exports are numbered as the caller makes them; an entry is the digest   *)
(* of an address or of a whole domain.                                     *)
(***************************************************************************)
EXTENDS Naturals, Sequences, FiniteSets

CONSTANTS
  Addresses, Nobody,
  Domain,            \* the one domain the addresses are at
  Entries,           \* what may be on the list: addresses and the domain
  Importers,         \* imports that may run at the same time
  Chunk,             \* entries of one SADD
  Stale,             \* age at which the copy is not trusted
  Environments       \* the imports that run, their modes, whether Redis commands
                     \* fail, and a bound on the exports

Never == Stale + 1   \* no import has finished, or one that long ago

ASSUME SuppressAssumption ==
  /\ Entries \subseteq Addresses \cup {Domain} /\ Nobody \notin Addresses
  /\ {Chunk, Stale} \subseteq Nat \ {0}
  /\ \A e \in Environments :
       /\ e.importers \subseteq Importers /\ e.modes \subseteq {"add", "replace"}
       /\ e.faults \in BOOLEAN /\ e.exports \in Nat

VARIABLES
  env,                       \* the environment of this behaviour
  hashes, version, updated,  \* the three keys; updated is an age
  exports,                   \* the exports made so far
  imp,                       \* each import running
  gate,                      \* the relay's check running
  acked,                     \* observer: exports whose import was answered 200
  owed                       \* observer: the address was on an acked export
                             \* when its check began

keys == <<hashes, version, updated>>
vars == <<env, keys, exports, imp, gate, acked, owed>>

IdleImport == [at |-> "idle", n |-> 0, todo |-> {}]
IdleGate   == [at |-> "idle", addr |-> Nobody]

Init ==
  /\ env \in Environments
  /\ hashes = {} /\ version = 0 /\ updated = Never
  /\ exports = <<>> /\ acked = {} /\ owed = FALSE
  /\ imp = [i \in Importers |-> IdleImport]
  /\ gate = IdleGate
-----------------------------------------------------------------------------
(* Import, and the handler around it *)

Goto(i, at) == imp' = [imp EXCEPT ![i].at = at]
Outcomes == IF env.faults THEN {"ok", "lost", "failed"} ELSE {"ok"}
Ran(o)   == o # "failed"     \* lost: it ran, and the reply never came

Begin(i, digests, mode) ==
  LET n == Len(exports) + 1 IN
  /\ imp[i].at = "idle" /\ n <= env.exports
  /\ exports' = Append(exports, [digests |-> digests, mode |-> mode])
  /\ imp' = [imp EXCEPT ![i] = [at |-> IF mode = "replace" THEN "del" ELSE "sadd",
                                n |-> n, todo |-> digests]]
  /\ UNCHANGED <<keys, gate, acked, owed>>

\* Each command that fails ends the import where it is.
Then(i, o, at) == IF o = "ok" THEN Goto(i, at)
                              ELSE imp' = [imp EXCEPT ![i] = IdleImport]

\* A replace that does not clear.
DelKept(i, o) ==
  /\ imp[i].at = "del"
  /\ Then(i, o, "sadd")
  /\ UNCHANGED <<keys, exports, gate, acked, owed>>

Del(i, o) ==
  /\ imp[i].at = "del"
  /\ hashes' = IF Ran(o) THEN {} ELSE hashes
  /\ Then(i, o, "sadd")
  /\ UNCHANGED <<version, updated, exports, gate, acked, owed>>

Chunks(todo) ==
  {c \in SUBSET todo :
     Cardinality(c) = IF Cardinality(todo) < Chunk THEN Cardinality(todo) ELSE Chunk}

\* A chunk that failed is passed over.
SAddUnchecked(i, o) ==
  /\ imp[i].at = "sadd" /\ imp[i].todo # {}
  /\ \E c \in Chunks(imp[i].todo) :
       /\ hashes' = IF Ran(o) THEN hashes \cup c ELSE hashes
       /\ imp' = [imp EXCEPT ![i].todo = @ \ c]
  /\ UNCHANGED <<version, updated, exports, gate, acked, owed>>

SAdd(i, o) ==
  /\ imp[i].at = "sadd" /\ imp[i].todo # {}
  /\ \E c \in Chunks(imp[i].todo) :
       /\ hashes' = IF Ran(o) THEN hashes \cup c ELSE hashes
       /\ imp' = [imp EXCEPT ![i] =
            IF o = "ok" THEN [at |-> "sadd", n |-> imp[i].n, todo |-> imp[i].todo \ c]
                        ELSE IdleImport]
  /\ UNCHANGED <<version, updated, exports, gate, acked, owed>>

SetVersion(i, o) ==
  /\ imp[i].at = "sadd" /\ imp[i].todo = {}
  /\ version' = IF Ran(o) THEN imp[i].n ELSE version
  /\ Then(i, o, "stamp")
  /\ UNCHANGED <<hashes, updated, exports, gate, acked, owed>>

SetUpdated(i, o) ==
  /\ imp[i].at = "stamp"
  /\ updated' = IF Ran(o) THEN 0 ELSE updated
  /\ acked' = IF o = "ok" THEN acked \cup {imp[i].n} ELSE acked
  /\ imp' = [imp EXCEPT ![i] = IdleImport]
  /\ UNCHANGED <<hashes, version, exports, gate, owed>>
-----------------------------------------------------------------------------
(* suppressionAllows: fails closed *)

isStale == updated > Stale
\* Observer: on an export answered 200, and not left off by a later replace.
Owed(a) ==
  \E n \in acked : \A k \in DOMAIN exports :
    k = n \/ (k > n /\ exports[k].mode = "replace")
      => {a, Domain} \cap exports[k].digests # {}

Check(a) ==
  /\ gate.at \in {"idle", "allow", "refuse"}
  /\ gate' = [at |-> "stale", addr |-> a]
  /\ owed' = Owed(a)
  /\ UNCHANGED <<keys, exports, imp, acked>>

Answer(at) == /\ gate' = [gate EXCEPT !.at = at]
              /\ UNCHANGED <<keys, exports, imp, acked, owed>>

\* A read that fails leaves the copy stale, or unreadable.
CheckStale(o) ==
  /\ gate.at = "stale"
  /\ Answer(IF o # "ok" \/ isStale THEN "refuse" ELSE "address")

CheckAddress(o) ==
  /\ gate.at = "address"
  /\ Answer(IF o # "ok" \/ gate.addr \in hashes THEN "refuse" ELSE "domain")

\* An unreadable list lets the message through.
CheckDomainOpen(o) ==
  /\ gate.at = "domain"
  /\ Answer(IF o = "ok" /\ Domain \in hashes THEN "refuse" ELSE "allow")

CheckDomain(o) ==
  /\ gate.at = "domain"
  /\ Answer(IF o # "ok" \/ Domain \in hashes THEN "refuse" ELSE "allow")

Tick ==
  /\ updated <= Stale /\ updated' = updated + 1
  /\ UNCHANGED <<hashes, version, exports, imp, gate, acked, owed>>

Next ==
  /\ \/ \E i \in env.importers, ds \in SUBSET Entries, m \in env.modes : Begin(i, ds, m)
     \/ \E i \in Importers, o \in Outcomes :
          Del(i, o) \/ SAdd(i, o) \/ SetVersion(i, o) \/ SetUpdated(i, o)
     \/ \E a \in Addresses : Check(a)
     \/ \E o \in Outcomes : CheckStale(o) \/ CheckAddress(o) \/ CheckDomain(o)
     \/ Tick
  /\ UNCHANGED env

Spec == Init /\ [][Next]_vars
-----------------------------------------------------------------------------
AtRest == \A i \in Importers : imp[i].at = "idle"

\* The keys, the imports and the check have the shapes the code gives them; the
\* stamp and the version name exports that were made.
TypeOK ==
  /\ env \in Environments
  /\ hashes \subseteq Entries /\ updated \in 0..Never
  /\ version \in DOMAIN exports \cup {0} /\ acked \subseteq DOMAIN exports
  /\ \A i \in Importers :
       /\ imp[i].at \in {"idle", "del", "sadd", "stamp"}
       /\ imp[i].at = "stamp" => imp[i].todo = {}
       /\ imp[i].at # "idle" => imp[i].todo \subseteq exports[imp[i].n].digests
  /\ gate.at \in {"idle", "stale", "address", "domain", "allow", "refuse"}
  /\ updated < Never => version # 0

\* "Never probed, never mailed": an address on an export that was answered before
\* its check began, itself or by its domain, is refused.
SuppressedNotSent == gate.at = "allow" => ~(owed /\ Owed(gate.addr))

\* ... which holds, whatever fails and whichever imports overlap, as long as they
\* only add.
AddedNotSent == env.modes = {"add"} => SuppressedNotSent

\* The version on the copy names an export whose entries are all in it, whatever
\* fails and whichever imports overlap, as long as they only add.
VersionIsWhole ==
  /\ TypeOK
  /\ env.modes = {"add"} /\ version # 0 => exports[version].digests \subseteq hashes

\* Imports neither overlap nor fail.
Orderly == (\E i \in Importers : env.importers = {i}) /\ ~env.faults

\* "replace clears whatever a previous one left": when no import is running, the
\* copy is exactly the export it names, so a removal has propagated; an export
\* added since is on top of it.
ReplaceIsExact ==
  Orderly /\ AtRest /\ version # 0 =>
    \E n \in 0..version :
      /\ \A k \in n + 1..version : exports[k].mode = "add"
      /\ n = 0 \/ exports[n].mode = "replace"
      /\ hashes = UNION {exports[k].digests : k \in (n..version) \ {0}}
=============================================================================
