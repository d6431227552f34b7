----------------------------- MODULE GateProofs -----------------------------
(***************************************************************************)
(* What may go out, and where to, for every value of the constants and     *)
(* every environment of a run: the suppression gate, which refuses what an *)
(* answered import suppressed, and the resolver, which only ever serves    *)
(* vetted and fresh addresses.  No theorem is about both.                  *)
(***************************************************************************)
EXTENDS Suppress, Resolver, TLAPS
-----------------------------------------------------------------------------
(* The suppression gate *)

(* A record update usable in every leaf: the SMT backend then leaves the   *)
(* leaf untyped.  Type inference is most of the time these proofs would    *)
(* take otherwise.                                                         *)
Blank == [field |-> 0]
Blanks == {Blank}

\* Writing the value a field already has changes nothing.
LEMMA Untyped == [Blank EXCEPT !.field = 0] \in Blanks
  BY DEF Blank, Blanks

USE Untyped

Made       == Len(exports)
ExportType == [digests : SUBSET Entries, mode : {"add", "replace"}]
ImportType == [at : {"idle", "del", "sadd", "stamp"}, n : Nat, todo : SUBSET Entries]
GateType   == [at : {"idle", "stale", "address", "domain", "allow", "refuse"},
               addr : Addresses \cup {Nobody}]

\* Exports are numbered from 1, and are of the modes of the environment.
ExportInv ==
  /\ env \in Environments /\ exports \in Seq(ExportType)
  /\ Made \in Nat /\ DOMAIN exports = 1..Made
  /\ \A k \in 1..Made : exports[k] \in ExportType /\ exports[k].mode \in env.modes

\* An import is of an export that was made; what it has to do is of that export.
ImportInv ==
  /\ imp \in [Importers -> ImportType]
  /\ \A i \in Importers : imp[i].at # "idle" =>
       /\ i \in env.importers /\ imp[i].n \in 1..Made
       /\ imp[i].todo \subseteq exports[imp[i].n].digests
       /\ imp[i].at = "stamp" => imp[i].todo = {} /\ version # 0
       /\ imp[i].at = "del" => /\ imp[i].todo = exports[imp[i].n].digests
                               /\ exports[imp[i].n].mode = "replace"

KeyInv ==
  /\ hashes \subseteq Entries /\ updated \in 0..Never /\ version \in 0..Made
  /\ acked \subseteq 1..Made /\ (updated < Never => version # 0)

GateInv == gate \in GateType /\ owed \in BOOLEAN

\* When imports only add, whatever one of them has done is on the copy for good:
\* so is every export it answered for, and what a check began with.
AddInv ==
  env.modes = {"add"} =>
    /\ \A i \in Importers : imp[i].at # "idle" =>
         exports[imp[i].n].digests \ imp[i].todo \subseteq hashes
    /\ version # 0 => exports[version].digests \subseteq hashes
    /\ \A n \in acked : exports[n].digests \subseteq hashes
    /\ owed /\ gate.at \in {"stale", "address"} => gate.addr \in hashes \/ Domain \in hashes
    /\ owed /\ gate.at = "domain" => Domain \in hashes
    /\ gate.at = "allow" => ~owed

\* H is what the exports since the last replace, up to number v, say; but for what
\* is still to do of the last of them.
Since(made, n, v) ==
  /\ n \in 0..v /\ (n = 0 \/ made[n].mode = "replace")
  /\ \A k \in n + 1..v : made[k].mode = "add"
Exact(H, made, v, todo) ==
  \E n \in 0..v : /\ Since(made, n, v)
                  /\ \A x : x \in H <=>
                       \/ \E k \in n..v : k # 0 /\ k # v /\ x \in made[k].digests
                       \/ v # 0 /\ x \in made[v].digests \ todo

\* Imports that come one after the other: the one running is of the latest export.
LatestInv(i) ==
  /\ imp[i].at \in {"idle", "stamp"} => version = Made /\ Exact(hashes, exports, version, {})
  /\ imp[i].at = "del" => /\ version + 1 = Made /\ imp[i].n = Made
                          /\ Exact(hashes, exports, version, {})
  /\ imp[i].at = "sadd" => /\ version + 1 = Made /\ imp[i].n = Made
                           /\ Exact(hashes, exports, Made, imp[i].todo)
OrderInv == Orderly => \A i \in env.importers : LatestInv(i)

IInv == ExportInv /\ ImportInv /\ KeyInv /\ GateInv /\ AddInv /\ OrderInv

\* Orderly imports have one importer.
LEMMA OneImporter ==
  ASSUME env \in Environments, Orderly
  PROVE  \E i \in Importers : env.importers = {i}
  BY Zenon DEF Orderly

\* The invariant gives the type invariant, and the three properties.
LEMMA IInvTypeOK == ASSUME IInv PROVE TypeOK
  <1>1. /\ version \in DOMAIN exports \cup {0} /\ acked \subseteq DOMAIN exports
        /\ env \in Environments /\ hashes \subseteq Entries /\ updated \in 0..Never
        /\ updated < Never => version # 0
    BY DEF IInv, ExportInv, KeyInv
  <1>2. \A i \in Importers :
          /\ imp[i].at \in {"idle", "del", "sadd", "stamp"}
          /\ imp[i].at = "stamp" => imp[i].todo = {}
          /\ imp[i].at # "idle" => imp[i].todo \subseteq exports[imp[i].n].digests
    BY DEF IInv, ImportInv, ImportType
  <1>3. gate.at \in {"idle", "stale", "address", "domain", "allow", "refuse"}
    BY DEF IInv, GateInv, GateType
  <1> QED BY <1>1, <1>2, <1>3, Zenon DEF TypeOK

\* At rest the last replace, and the adds after it, are the copy.
LEMMA IInvReplaceIsExact == ASSUME IInv PROVE ReplaceIsExact
  <1> SUFFICES ASSUME Orderly, AtRest
               PROVE  \E n \in 0..version :
                        /\ \A k \in n + 1..version : exports[k].mode = "add"
                        /\ n = 0 \/ exports[n].mode = "replace"
                        /\ hashes = UNION {exports[k].digests : k \in (n..version) \ {0}}
    BY DEF ReplaceIsExact
  <1>1. Exact(hashes, exports, version, {}) /\ version \in Nat
    BY OneImporter DEF IInv, ExportInv, KeyInv, OrderInv, LatestInv, AtRest
  <1>2. PICK n \in 0..version :
          /\ Since(exports, n, version)
          /\ \A x : x \in hashes <=>
               \/ \E k \in n..version : k # 0 /\ k # version /\ x \in exports[k].digests
               \/ version # 0 /\ x \in exports[version].digests \ {}
    BY <1>1, Zenon DEF Exact
  <1>3. \A x : x \in hashes <=> \E k \in (n..version) \ {0} : x \in exports[k].digests
    BY <1>1, <1>2
  <1>4. hashes = UNION {exports[k].digests : k \in (n..version) \ {0}}
    BY <1>3, Zenon
  <1> QED BY <1>2, <1>4 DEF Since

\* The invariant gives the three properties.
LEMMA IInvSafe == IInv => AddedNotSent /\ VersionIsWhole /\ ReplaceIsExact
  <1> SUFFICES ASSUME IInv PROVE AddedNotSent /\ VersionIsWhole /\ ReplaceIsExact
    OBVIOUS
  <1>1. AddedNotSent
    BY Zenon DEF IInv, AddInv, AddedNotSent, SuppressedNotSent
  <1>2. VersionIsWhole
    BY IInvTypeOK, Zenon DEF IInv, AddInv, VersionIsWhole
  <1> QED BY <1>1, <1>2, IInvReplaceIsExact

\* A copy nobody imported to.
LEMMA InitIInv == Init => IInv
  <1> SUFFICES ASSUME Init PROVE IInv
    OBVIOUS
  <1>1. exports = <<>> /\ DOMAIN exports = {}
    BY DEF Init
  <1>2. Made = 0
    BY <1>1 DEF Made
  <1>3. ExportInv
    BY <1>1, <1>2 DEF Init, ExportInv
  <1>4. IdleImport \in ImportType /\ IdleGate \in GateType
    BY DEF IdleImport, ImportType, IdleGate, GateType
  <1>5. /\ imp \in [Importers -> ImportType] /\ gate \in GateType
        /\ \A i \in Importers : imp[i] = IdleImport
    BY <1>4, Zenon DEF Init
  <1>6. \A i \in Importers : imp[i].at = "idle"
    BY <1>5 DEF IdleImport
  <1>7. ImportInv
    BY <1>5, <1>6, Zenon DEF ImportInv
  <1>8. /\ hashes = {} /\ version = 0 /\ updated = Never /\ acked = {} /\ owed = FALSE
        /\ gate.at = "idle"
    BY DEF Init, IdleGate
  <1>9. KeyInv
    BY <1>2, <1>8, SuppressAssumption DEF KeyInv, Never
  <1>10. GateInv /\ AddInv
    BY <1>5, <1>6, <1>8, Zenon DEF GateInv, AddInv
  <1>11. Exact(hashes, exports, 0, {})
    BY <1>8 DEF Exact, Since
  <1>12. OrderInv
    BY <1>2, <1>3, <1>6, <1>8, <1>11, SuppressAssumption
    DEF OrderInv, LatestInv, ExportInv
  <1> QED BY <1>3, <1>7, <1>9, <1>10, <1>12 DEF IInv

\* What Exact says is of the exports up to v alone.
LEMMA ExactSame ==
  ASSUME NEW H, NEW made, NEW later, NEW v \in Nat, NEW todo,
         \A k \in 1..v : later[k] = made[k], Exact(H, made, v, todo)
  PROVE  Exact(H, later, v, todo)
  <1>1. PICK n \in 0..v :
          /\ Since(made, n, v)
          /\ \A x : x \in H <=> \/ \E k \in n..v : k # 0 /\ k # v /\ x \in made[k].digests
                                \/ v # 0 /\ x \in made[v].digests \ todo
    BY Zenon DEF Exact
  <1>2. Since(later, n, v)
    BY <1>1 DEF Since
  <1>3. \A x : x \in H <=> \/ \E k \in n..v : k # 0 /\ k # v /\ x \in later[k].digests
                           \/ v # 0 /\ x \in later[v].digests \ todo
    BY <1>1
  <1> QED BY <1>2, <1>3, Zenon DEF Exact

\* An export that adds, of which nothing has been done yet.
LEMMA ExactNext ==
  ASSUME NEW H, NEW made, NEW v \in Nat, Exact(H, made, v, {}), made[v + 1].mode = "add"
  PROVE  Exact(H, made, v + 1, made[v + 1].digests)
  <1>1. PICK n \in 0..v :
          /\ Since(made, n, v)
          /\ \A x : x \in H <=> \/ \E k \in n..v : k # 0 /\ k # v /\ x \in made[k].digests
                                \/ v # 0 /\ x \in made[v].digests \ {}
    BY Zenon DEF Exact
  <1>2. Since(made, n, v + 1) /\ n \in 0..v + 1
    BY <1>1 DEF Since
  <1>3. \A x : x \in H <=>
          \E k \in n..v + 1 : k # 0 /\ k # v + 1 /\ x \in made[k].digests
    BY <1>1
  <1> QED BY <1>2, <1>3, Zenon DEF Exact

\* An export that replaces, with the copy cleared for it.
LEMMA ExactDel ==
  ASSUME NEW made, NEW v \in Nat \ {0}, made[v].mode = "replace"
  PROVE  Exact({}, made, v, made[v].digests)
  <1>1. Since(made, v, v) /\ v \in 0..v
    BY DEF Since
  <1>2. \A k \in v..v : k = v
    OBVIOUS
  <1> QED BY <1>1, <1>2, Zenon DEF Exact

\* A chunk more of the export being added.
LEMMA ExactAdd ==
  ASSUME NEW H, NEW made, NEW v \in Nat \ {0}, NEW todo, NEW c \in SUBSET todo,
         todo \subseteq made[v].digests, Exact(H, made, v, todo)
  PROVE  Exact(H \cup c, made, v, todo \ c)
  <1>1. PICK n \in 0..v :
          /\ Since(made, n, v)
          /\ \A x : x \in H <=> \/ \E k \in n..v : k # 0 /\ k # v /\ x \in made[k].digests
                                \/ v # 0 /\ x \in made[v].digests \ todo
    BY Zenon DEF Exact
  <1>2. \A x : x \in H \cup c <=>
          \/ \E k \in n..v : k # 0 /\ k # v /\ x \in made[k].digests
          \/ v # 0 /\ x \in made[v].digests \ (todo \ c)
    BY <1>1, Zenon
  <1> QED BY <1>1, <1>2, Zenon DEF Exact

\* A new export leaves the ones made before as they were.
LEMMA BeginStep ==
  ASSUME IInv, NEW i \in env.importers, NEW digests \in SUBSET Entries,
         NEW mode \in env.modes, Begin(i, digests, mode), UNCHANGED env
  PROVE  IInv'
  <1> DEFINE n == Made + 1
             e == [digests |-> digests, mode |-> mode]
             r == [at |-> IF mode = "replace" THEN "del" ELSE "sadd", n |-> n,
                   todo |-> digests]
  <1>1. /\ imp[i].at = "idle" /\ imp' = [imp EXCEPT ![i] = r]
        /\ exports' = Append(exports, e)
        /\ UNCHANGED <<hashes, version, updated, gate, acked, owed>>
    BY DEF Begin, Made, keys
  <1>2. /\ i \in Importers /\ mode \in {"add", "replace"} /\ Made \in Nat
        /\ exports \in Seq(ExportType) /\ DOMAIN exports = 1..Made
    BY SuppressAssumption DEF IInv, ExportInv
  <1>3. e \in ExportType /\ e.digests = digests /\ e.mode = mode
    BY <1>2 DEF ExportType
  <1>4. /\ r \in ImportType /\ r.n = n /\ r.todo = digests
        /\ r.at \in {"del", "sadd"} /\ (r.at = "del" <=> mode = "replace")
    BY <1>2 DEF ImportType
  <1> HIDE DEF e, r
  <1>5. exports' \in Seq(ExportType) /\ Made' = n /\ n \in Nat /\ DOMAIN exports' = 1..n
    BY <1>1, <1>2, <1>3 DEF Made
  <1>6. Made' = n /\ n \in Nat
    BY <1>5
  <1>7. exports'[n] = e /\ \A k \in 1..Made : exports'[k] = exports[k]
    BY <1>1, <1>2, <1>3 DEF Made
  <1>8. imp' \in [Importers -> ImportType] /\ imp'[i] = r
        /\ \A j \in Importers \ {i} : imp'[j] = imp[j]
    BY <1>1, <1>2, <1>4 DEF IInv, ImportInv
  <1> HIDE DEF n
  <1>9. n = Made + 1
    BY DEF n
  <1>10. ExportInv'
    BY <1>2, <1>3, <1>5, <1>6, <1>7, <1>9 DEF IInv, ExportInv
  <1>11. ImportInv'
    <2> SUFFICES ASSUME NEW j \in Importers, imp'[j].at # "idle"
                 PROVE  /\ j \in env.importers /\ imp'[j].n \in 1..n
                        /\ imp'[j].todo \subseteq exports'[imp'[j].n].digests
                        /\ imp'[j].at = "stamp" => imp'[j].todo = {} /\ version # 0
                        /\ imp'[j].at = "del" =>
                             /\ imp'[j].todo = exports'[imp'[j].n].digests
                             /\ exports'[imp'[j].n].mode = "replace"
      BY <1>1, <1>6, <1>8, Zenon DEF ImportInv
    <2>1. CASE j = i
      BY <1>2, <1>3, <1>4, <1>7, <1>8, <1>9, <2>1
    <2>2. CASE j # i
      <3>1. imp'[j] = imp[j] /\ imp[j].n \in 1..Made
        BY <1>8, <2>2 DEF IInv, ImportInv
      <3>2. exports'[imp[j].n] = exports[imp[j].n] /\ imp[j].n \in 1..n
        BY <1>2, <1>7, <1>9, <3>1
      <3> QED BY <3>1, <3>2, Zenon DEF IInv, ImportInv
    <2> QED BY <2>1, <2>2
  <1>12. KeyInv'
    BY <1>1, <1>2, <1>6, <1>9 DEF IInv, KeyInv, Never
  <1>13. GateInv'
    BY <1>1, Zenon DEF IInv, GateInv
  <1>14. AddInv'
    <2>1. \A j \in Importers : imp'[j].at # "idle" =>
            \/ exports'[imp'[j].n].digests \ imp'[j].todo = {}
            \/ /\ imp[j].at # "idle"
               /\ exports'[imp'[j].n].digests \ imp'[j].todo
                    = exports[imp[j].n].digests \ imp[j].todo
      <3> SUFFICES ASSUME NEW j \in Importers, imp'[j].at # "idle"
                   PROVE  \/ exports'[imp'[j].n].digests \ imp'[j].todo = {}
                          \/ /\ imp[j].at # "idle"
                             /\ exports'[imp'[j].n].digests \ imp'[j].todo
                                  = exports[imp[j].n].digests \ imp[j].todo
        OBVIOUS
      <3>1. CASE j = i
        BY <1>3, <1>4, <1>7, <1>8, <3>1
      <3>2. CASE j # i
        <4>1. imp'[j] = imp[j] /\ imp[j].n \in 1..Made
          BY <1>8, <3>2 DEF IInv, ImportInv
        <4> QED BY <1>7, <4>1
      <3> QED BY <3>1, <3>2
    <2>2. /\ version # 0 => exports'[version] = exports[version]
          /\ \A k \in acked : exports'[k] = exports[k]
      <3>1. version \in 0..Made /\ acked \subseteq 1..Made
        BY DEF IInv, KeyInv
      <3> QED BY <1>2, <1>7, <3>1
    <2> QED BY <1>1, <2>1, <2>2, Zenon DEF IInv, AddInv
  <1>15. OrderInv'
    <2> SUFFICES ASSUME Orderly PROVE LatestInv(i)'
      BY OneImporter, Zenon DEF IInv, ExportInv, OrderInv, Orderly
    <2>1. version = Made /\ Exact(hashes, exports, Made, {})
      BY <1>1 DEF IInv, OrderInv, LatestInv
    <2>2. Exact(hashes, exports', Made, {})
      BY <1>2, <1>7, <2>1, ExactSame
    <2>3. mode = "add" => Exact(hashes, exports', n, digests)
      BY <1>2, <1>3, <1>7, <1>9, <2>2, ExactNext
    <2> QED BY <1>1, <1>2, <1>4, <1>6, <1>8, <1>9, <2>1, <2>2, <2>3 DEF LatestInv
  <1> QED BY <1>10, <1>11, <1>12, <1>13, <1>14, <1>15 DEF IInv

\* An import takes a step: r is what it is afterwards.
Moves(i, r) ==
  /\ imp' \in [Importers -> ImportType] /\ imp'[i] = r
  /\ \A j \in Importers \ {i} : imp'[j] = imp[j]

\* An importer that only moves on keeps what the others are owed.
LEMMA MoveIInv ==
  ASSUME IInv, NEW i \in Importers, imp[i].at # "idle", NEW r, Moves(i, r),
         UNCHANGED <<env, exports, gate, owed>>,
         r.at # "idle" => /\ r.n = imp[i].n /\ r.todo \subseteq imp[i].todo
                          /\ r.at # "del" /\ (r.at = "stamp" => r.todo = {} /\ version' # 0),
         version # 0 => version' # 0, KeyInv', AddInv', Orderly => LatestInv(i)'
  PROVE  IInv'
  <1>1. UNCHANGED Made
    BY DEF Made
  <1>2. ExportInv'
    BY <1>1 DEF IInv, ExportInv
  <1>3. ImportInv'
    BY <1>1 DEF IInv, ImportInv, Moves
  <1>4. GateInv'
    BY DEF IInv, GateInv
  <1>5. Orderly => env.importers = {i}
    BY OneImporter DEF IInv, ExportInv, ImportInv
  <1>6. OrderInv'
    BY <1>5, Zenon DEF OrderInv, Orderly
  <1> QED BY <1>2, <1>3, <1>4, <1>6 DEF IInv

\* The ways an import goes on, or ends, as moves of its importer.
LEMMA GotoMoves ==
  ASSUME IInv, NEW i \in Importers, NEW at \in {"sadd", "stamp"}, Goto(i, at)
  PROVE  Moves(i, [at |-> at, n |-> imp[i].n, todo |-> imp[i].todo])
  BY DEF IInv, ImportInv, ImportType, Goto, Moves

LEMMA EndMoves ==
  ASSUME IInv, NEW i \in Importers, imp' = [imp EXCEPT ![i] = IdleImport]
  PROVE  Moves(i, IdleImport) /\ IdleImport.at = "idle"
  BY DEF IInv, ImportInv, ImportType, IdleImport, Moves

\* In orderly imports no Redis command fails.
LEMMA OrderlyOk == ASSUME NEW o \in Outcomes, Orderly PROVE o = "ok"
  BY DEF Outcomes, Orderly

\* Import's DEL, the first command of a replace.
LEMMA DelStep ==
  ASSUME IInv, NEW i \in Importers, NEW o \in Outcomes, Del(i, o), UNCHANGED env
  PROVE  IInv'
  <1> DEFINE r == [at |-> "sadd", n |-> imp[i].n, todo |-> imp[i].todo]
  <1>1. /\ imp[i].at = "del" /\ hashes' = (IF Ran(o) THEN {} ELSE hashes)
        /\ Then(i, o, "sadd")
        /\ UNCHANGED <<version, updated, exports, gate, acked, owed>>
    BY DEF Del
  <1>2. /\ imp[i].n \in 1..Made /\ exports[imp[i].n].mode = "replace"
        /\ exports[imp[i].n].mode \in env.modes
        /\ imp[i].todo = exports[imp[i].n].digests
    BY <1>1 DEF IInv, ImportInv, ExportInv
  <1>3. UNCHANGED Made
    BY <1>1 DEF Made
  <1>4. KeyInv'
    BY <1>1, <1>3 DEF IInv, KeyInv, Never
  <1>5. AddInv'
    BY <1>1, <1>2 DEF AddInv
  <1>6. CASE o = "ok"
    <2>1. Moves(i, r)
      BY <1>1, <1>6, GotoMoves, Zenon DEF Then
    <2>2. Orderly => LatestInv(i)'
      <3> SUFFICES ASSUME Orderly PROVE LatestInv(i)'
        OBVIOUS
      <3>1. version + 1 = Made /\ imp[i].n = Made /\ Made \in Nat \ {0}
        BY <1>1, <1>2 DEF IInv, ExportInv, ImportInv, OrderInv, LatestInv
      <3>2. hashes' = {}
        BY <1>1, <1>6 DEF Ran
      <3>3. Exact(hashes', exports, Made, imp[i].todo)
        BY <1>2, <3>1, <3>2, ExactDel
      <3>4. imp'[i].at = "sadd" /\ imp'[i].n = imp[i].n /\ imp'[i].todo = imp[i].todo
        BY <2>1 DEF Moves
      <3> QED BY <1>1, <1>3, <3>1, <3>3, <3>4 DEF LatestInv
    <2>3. r.at = "sadd" /\ r.n = imp[i].n /\ r.todo = imp[i].todo
      OBVIOUS
    <2> HIDE DEF r
    <2> QED BY <1>1, <1>4, <1>5, <2>1, <2>2, <2>3, MoveIInv
  <1>7. CASE o # "ok"
    <2>1. Moves(i, IdleImport) /\ IdleImport.at = "idle" /\ ~Orderly
      BY <1>1, <1>7, EndMoves, OrderlyOk DEF Then
    <2> QED BY <1>1, <1>4, <1>5, <2>1, MoveIInv
  <1> QED BY <1>6, <1>7

\* When imports only add, what is on the copy stays on it: what a check began with,
\* and what the imports have done.
LEMMA GrowAddInv ==
  ASSUME IInv, NEW i \in Importers, imp[i].at # "idle", NEW r, Moves(i, r),
         UNCHANGED <<env, exports, gate, owed>>, hashes \subseteq hashes',
         r.at # "idle" => exports[r.n].digests \ r.todo \subseteq hashes',
         version' # 0 /\ version' # version => exports[version'].digests \subseteq hashes',
         \A n \in acked' \ acked : exports[n].digests \subseteq hashes'
  PROVE  AddInv'
  <1> SUFFICES ASSUME env.modes = {"add"} PROVE AddInv'
    BY DEF AddInv
  <1>1. \A j \in Importers : imp'[j].at # "idle" =>
          exports[imp'[j].n].digests \ imp'[j].todo \subseteq hashes'
    BY Zenon DEF IInv, AddInv, Moves
  <1>2. /\ version' # 0 => exports[version'].digests \subseteq hashes'
        /\ \A n \in acked' : exports[n].digests \subseteq hashes'
    BY Zenon DEF IInv, AddInv
  <1> QED BY <1>1, <1>2, Zenon DEF IInv, AddInv

\* Import's SADD of one chunk.
LEMMA SAddStep ==
  ASSUME IInv, NEW i \in Importers, NEW o \in Outcomes, SAdd(i, o), UNCHANGED env
  PROVE  IInv'
  <1>1. /\ imp[i].at = "sadd"
        /\ UNCHANGED <<version, updated, exports, gate, acked, owed>>
    BY DEF SAdd
  <1>2. PICK c \in SUBSET imp[i].todo :
          /\ hashes' = IF Ran(o) THEN hashes \cup c ELSE hashes
          /\ imp' = [imp EXCEPT ![i] =
               IF o = "ok" THEN [at |-> "sadd", n |-> imp[i].n, todo |-> imp[i].todo \ c]
                           ELSE IdleImport]
    BY Zenon DEF SAdd, Chunks
  <1> DEFINE r == [at |-> "sadd", n |-> imp[i].n, todo |-> imp[i].todo \ c]
  <1>3. /\ imp[i].n \in 1..Made /\ exports[imp[i].n] \in ExportType
        /\ imp[i].todo \subseteq exports[imp[i].n].digests
    BY <1>1 DEF IInv, ImportInv, ExportInv
  <1>4. UNCHANGED Made
    BY <1>1 DEF Made
  <1>5. hashes \subseteq hashes' /\ hashes' \subseteq Entries
    BY <1>2, <1>3 DEF IInv, KeyInv, ExportType
  <1>6. KeyInv'
    BY <1>1, <1>4, <1>5 DEF IInv, KeyInv, Never
  <1>7. CASE o = "ok"
    <2>1. Moves(i, r)
      <3>1. imp[i] \in ImportType /\ imp \in [Importers -> ImportType]
        BY DEF IInv, ImportInv
      <3>2. r \in ImportType
        BY <3>1 DEF ImportType
      <3>3. imp' = [imp EXCEPT ![i] = r]
        BY <1>2, <1>7, Zenon
      <3> HIDE DEF r
      <3> QED BY <3>1, <3>2, <3>3 DEF Moves
    <2>2. hashes' = hashes \cup c
      BY <1>2, <1>7 DEF Ran
    <2>3. r.at = "sadd" /\ r.n = imp[i].n /\ r.todo = imp[i].todo \ c
      OBVIOUS
    <2> HIDE DEF r
    <2>4. env.modes = {"add"} => exports[r.n].digests \ r.todo \subseteq hashes'
      BY <1>1, <2>2, <2>3 DEF IInv, AddInv
    <2>5. AddInv'
      <3>1. CASE env.modes = {"add"}
        BY <1>1, <1>5, <2>1, <2>4, <3>1, GrowAddInv
      <3>2. CASE env.modes # {"add"}
        BY <3>2 DEF AddInv
      <3> QED BY <3>1, <3>2
    <2>6. Orderly => LatestInv(i)'
      <3> SUFFICES ASSUME Orderly PROVE LatestInv(i)'
        OBVIOUS
      <3>1. /\ version + 1 = Made /\ imp[i].n = Made /\ Made \in Nat \ {0}
            /\ Exact(hashes, exports, Made, imp[i].todo)
        BY <1>1, <1>3 DEF IInv, ExportInv, ImportInv, OrderInv, LatestInv
      <3>2. Exact(hashes', exports, Made, imp[i].todo \ c)
        BY <1>3, <2>2, <3>1, ExactAdd, Zenon
      <3>3. imp'[i] = r
        BY <2>1 DEF Moves
      <3> QED BY <1>1, <1>4, <2>3, <3>1, <3>2, <3>3, Zenon DEF LatestInv
    <2> QED BY <1>1, <1>6, <2>1, <2>3, <2>5, <2>6, MoveIInv
  <1>8. CASE o # "ok"
    <2>1. Moves(i, IdleImport) /\ IdleImport.at = "idle" /\ ~Orderly
      BY <1>2, <1>8, EndMoves, OrderlyOk, Zenon
    <2>2. AddInv'
      BY <1>1, <1>5, <2>1, GrowAddInv
    <2> QED BY <1>1, <1>6, <2>1, <2>2, MoveIInv
  <1> QED BY <1>7, <1>8

\* Import's SET of the version, once every chunk is in.
LEMMA SetVersionStep ==
  ASSUME IInv, NEW i \in Importers, NEW o \in Outcomes, SetVersion(i, o), UNCHANGED env
  PROVE  IInv'
  <1> DEFINE r == [at |-> "stamp", n |-> imp[i].n, todo |-> imp[i].todo]
  <1>1. /\ imp[i].at = "sadd" /\ imp[i].todo = {} /\ Then(i, o, "stamp")
        /\ version' = (IF Ran(o) THEN imp[i].n ELSE version)
        /\ UNCHANGED <<hashes, updated, exports, gate, acked, owed>>
    BY DEF SetVersion
  <1>2. imp[i].n \in 1..Made /\ Made \in Nat /\ version \in 0..Made
    BY <1>1 DEF IInv, ExportInv, ImportInv, KeyInv
  <1>3. UNCHANGED Made
    BY <1>1 DEF Made
  <1>4. /\ version' \in 0..Made /\ (version # 0 => version' # 0)
        /\ version' # version => version' = imp[i].n
    BY <1>1, <1>2
  <1>5. KeyInv'
    BY <1>1, <1>3, <1>4 DEF IInv, KeyInv, Never
  <1>6. env.modes = {"add"} => exports[imp[i].n].digests \subseteq hashes
    BY <1>1 DEF IInv, AddInv
  <1>7. ASSUME NEW q, Moves(i, q), q.at # "idle" => q.n = imp[i].n /\ q.todo = {}
        PROVE  AddInv'
    <2>1. CASE env.modes = {"add"}
      <3>1. /\ q.at # "idle" => exports[q.n].digests \ q.todo \subseteq hashes'
            /\ version' # version => exports[version'].digests \subseteq hashes'
            /\ hashes \subseteq hashes' /\ acked' \ acked = {}
        BY <1>1, <1>4, <1>6, <1>7, <2>1
      <3> QED BY <1>1, <1>7, <3>1, GrowAddInv
    <2>2. CASE env.modes # {"add"}
      BY <2>2 DEF AddInv
    <2> QED BY <2>1, <2>2
  <1>8. CASE o = "ok"
    <2>1. Moves(i, r)
      BY <1>1, <1>8, GotoMoves, Zenon DEF Then
    <2>2. r.at = "stamp" /\ r.n = imp[i].n /\ r.todo = {}
      BY <1>1
    <2> HIDE DEF r
    <2>3. version' = imp[i].n
      BY <1>1, <1>8 DEF Ran
    <2>4. Orderly => LatestInv(i)'
      <3> SUFFICES ASSUME Orderly PROVE LatestInv(i)'
        OBVIOUS
      <3>1. imp[i].n = Made /\ Exact(hashes, exports, Made, {})
        BY <1>1, Zenon DEF IInv, ImportInv, OrderInv, LatestInv
      <3>2. imp'[i].at = "stamp"
        BY <2>1, <2>2 DEF Moves
      <3> QED BY <1>1, <1>3, <2>3, <3>1, <3>2 DEF LatestInv
    <2>5. version' # 0
      BY <1>2, <2>3
    <2>6. AddInv'
      BY <1>7, <2>1, <2>2
    <2> QED BY <1>1, <1>5, <2>1, <2>2, <2>4, <2>5, <2>6, MoveIInv
  <1>9. CASE o # "ok"
    <2>1. Moves(i, IdleImport) /\ IdleImport.at = "idle" /\ ~Orderly
      BY <1>1, <1>9, EndMoves, OrderlyOk DEF Then
    <2>2. AddInv'
      BY <1>7, <2>1
    <2> QED BY <1>1, <1>4, <1>5, <2>1, <2>2, MoveIInv
  <1> QED BY <1>8, <1>9

\* Import's SET of the time: the copy counts as fresh.
LEMMA SetUpdatedStep ==
  ASSUME IInv, NEW i \in Importers, NEW o \in Outcomes, SetUpdated(i, o), UNCHANGED env
  PROVE  IInv'
  <1>1. /\ imp[i].at = "stamp" /\ updated' = (IF Ran(o) THEN 0 ELSE updated)
        /\ acked' = (IF o = "ok" THEN acked \cup {imp[i].n} ELSE acked)
        /\ imp' = [imp EXCEPT ![i] = IdleImport]
        /\ UNCHANGED <<hashes, version, exports, gate, owed>>
    BY DEF SetUpdated
  <1>2. imp[i].n \in 1..Made /\ version # 0 /\ imp[i].todo = {}
    BY <1>1 DEF IInv, ImportInv
  <1>3. UNCHANGED Made
    BY <1>1 DEF Made
  <1>4. Moves(i, IdleImport) /\ IdleImport.at = "idle"
    BY <1>1, EndMoves, Zenon
  <1>5. KeyInv'
    <2>1. 0 \in 0..Never
      BY SuppressAssumption DEF Never
    <2>2. updated' \in 0..Never /\ acked' \subseteq 1..Made
      BY <1>1, <1>2, <2>1, Zenon DEF IInv, KeyInv
    <2> QED BY <1>1, <1>2, <1>3, <2>2, Zenon DEF IInv, KeyInv, Never
  <1>6. AddInv'
    <2>1. CASE env.modes = {"add"}
      <3>1. exports[imp[i].n].digests \subseteq hashes
        BY <1>1, <1>2, <2>1 DEF IInv, AddInv
      <3>2. \A n \in acked' \ acked : exports[n].digests \subseteq hashes'
        BY <1>1, <3>1
      <3> QED BY <1>1, <1>4, <3>2, GrowAddInv
    <2>2. CASE env.modes # {"add"}
      BY <2>2 DEF AddInv
    <2> QED BY <2>1, <2>2
  <1>7. Orderly => LatestInv(i)'
    <2> SUFFICES ASSUME Orderly PROVE LatestInv(i)'
      OBVIOUS
    <2>1. version = Made /\ Exact(hashes, exports, version, {})
      BY <1>1 DEF IInv, ImportInv, OrderInv, LatestInv
    <2>2. imp'[i].at = "idle"
      BY <1>4 DEF Moves
    <2> QED BY <1>1, <1>3, <2>1, <2>2 DEF LatestInv
  <1> QED BY <1>1, <1>2, <1>4, <1>5, <1>6, <1>7, MoveIInv

\* A step of the relay's check leaves the copy and the imports alone.
LEMMA GateIInv ==
  ASSUME IInv, UNCHANGED <<env, keys, exports, imp, acked>>, GateInv',
         env.modes = {"add"} =>
           /\ owed' /\ gate'.at \in {"stale", "address"} =>
                gate'.addr \in hashes \/ Domain \in hashes
           /\ owed' /\ gate'.at = "domain" => Domain \in hashes
           /\ gate'.at = "allow" => ~owed'
  PROVE  IInv'
  <1>1. UNCHANGED <<Made, hashes, version, updated>>
    BY DEF Made, keys
  <1>2. ExportInv' /\ ImportInv' /\ KeyInv'
    BY <1>1, Zenon DEF IInv, ExportInv, ImportInv, KeyInv
  <1>3. AddInv'
    BY <1>1, Zenon DEF IInv, AddInv
  <1>4. OrderInv'
    BY <1>1, Zenon DEF IInv, OrderInv, Orderly, LatestInv
  <1> QED BY <1>2, <1>3, <1>4 DEF IInv

\* Under imports that only add, an address owed a refusal is on the copy, itself
\* or by its domain.
LEMMA CheckStep ==
  ASSUME IInv, NEW a \in Addresses, Check(a), UNCHANGED env
  PROVE  IInv'
  <1>1. /\ gate' = [at |-> "stale", addr |-> a] /\ owed' = Owed(a)
        /\ UNCHANGED <<keys, exports, imp, acked>>
    BY DEF Check
  <1>2. gate'.at = "stale" /\ gate'.addr = a /\ gate' \in GateType
    BY <1>1 DEF GateType
  <1>3. Owed(a) \in BOOLEAN
    BY Zenon DEF Owed
  <1>4. GateInv'
    BY <1>1, <1>2, <1>3, Zenon DEF GateInv
  <1>5. ASSUME env.modes = {"add"}, Owed(a) PROVE a \in hashes \/ Domain \in hashes
    <2>1. PICK n \in acked : {a, Domain} \cap exports[n].digests # {}
      BY <1>5 DEF IInv, ExportInv, KeyInv, Owed
    <2> QED BY <1>5, <2>1 DEF IInv, AddInv
  <1> QED BY <1>1, <1>2, <1>4, <1>5, GateIInv

\* The gate's reads change nothing but the gate.
LEMMA CheckSteps ==
  ASSUME IInv, NEW o, CheckStale(o) \/ CheckAddress(o) \/ CheckDomain(o), UNCHANGED env
  PROVE  IInv'
  <1>1. /\ UNCHANGED <<keys, exports, imp, acked, owed>>
        /\ \E at \in {"refuse", "address", "domain", "allow"} :
             /\ gate' = [gate EXCEPT !.at = at]
             /\ at = "address" => gate.at = "stale"
             /\ at = "domain" => gate.at = "address" /\ gate.addr \notin hashes
             /\ at = "allow" => gate.at = "domain" /\ Domain \notin hashes
    BY DEF CheckStale, CheckAddress, CheckDomain, Answer
  <1>2. PICK at \in {"refuse", "address", "domain", "allow"} :
          /\ gate' = [gate EXCEPT !.at = at]
          /\ at = "address" => gate.at = "stale"
          /\ at = "domain" => gate.at = "address" /\ gate.addr \notin hashes
          /\ at = "allow" => gate.at = "domain" /\ Domain \notin hashes
    BY <1>1
  <1>3. gate' \in GateType /\ gate'.at = at /\ gate'.addr = gate.addr
    BY <1>2 DEF IInv, GateInv, GateType
  <1>4. GateInv'
    BY <1>1, <1>3 DEF IInv, GateInv
  <1>5. env.modes = {"add"} =>
          /\ owed' /\ gate'.at \in {"stale", "address"} =>
               gate'.addr \in hashes \/ Domain \in hashes
          /\ owed' /\ gate'.at = "domain" => Domain \in hashes
          /\ gate'.at = "allow" => ~owed'
    BY <1>1, <1>2, <1>3, Zenon DEF IInv, AddInv
  <1> QED BY <1>1, <1>4, <1>5, GateIInv

\* The copy ages.
LEMMA TickStep ==
  ASSUME IInv, Tick, UNCHANGED env
  PROVE  IInv'
  <1>1. /\ updated <= Stale /\ updated' = updated + 1
        /\ UNCHANGED <<hashes, version, exports, imp, gate, acked, owed>>
    BY DEF Tick
  <1>2. UNCHANGED Made
    BY <1>1 DEF Made
  <1>3. KeyInv'
    BY <1>1, <1>2, SuppressAssumption DEF IInv, KeyInv, Never
  <1>4. ExportInv' /\ ImportInv' /\ GateInv' /\ AddInv'
    BY <1>1, <1>2, Zenon DEF IInv, ExportInv, ImportInv, GateInv, AddInv
  <1>5. OrderInv'
    BY <1>1, <1>2, Zenon DEF IInv, OrderInv, Orderly, LatestInv
  <1> QED BY <1>3, <1>4, <1>5 DEF IInv

\* Every step keeps the invariant.
LEMMA NextIInv == IInv /\ [Next]_vars => IInv'
  <1> SUFFICES ASSUME IInv, [Next]_vars PROVE IInv'
    OBVIOUS
  <1>1. CASE Next
    <2>1. UNCHANGED env
      BY <1>1 DEF Next
    <2>2. ASSUME NEW i \in env.importers, NEW ds \in SUBSET Entries, NEW m \in env.modes,
                 Begin(i, ds, m)
          PROVE  IInv'
      BY <2>1, <2>2, BeginStep
    <2>3. ASSUME NEW i \in Importers, NEW o \in Outcomes,
                 Del(i, o) \/ SAdd(i, o) \/ SetVersion(i, o) \/ SetUpdated(i, o)
          PROVE  IInv'
      BY <2>1, <2>3, DelStep, SAddStep, SetVersionStep, SetUpdatedStep, Zenon
    <2>4. ASSUME NEW a \in Addresses, Check(a) PROVE IInv'
      BY <2>1, <2>4, CheckStep
    <2>5. ASSUME NEW o \in Outcomes, CheckStale(o) \/ CheckAddress(o) \/ CheckDomain(o)
          PROVE  IInv'
      BY <2>1, <2>5, CheckSteps, Zenon
    <2>6. CASE Tick
      BY <2>1, <2>6, TickStep
    <2> QED BY <1>1, <2>2, <2>3, <2>4, <2>5, <2>6, Zenon DEF Next
  <1>2. CASE UNCHANGED vars
    <2>1. UNCHANGED <<env, keys, exports, imp, gate, acked, owed>>
      BY <1>2, Zenon DEF vars
    <2>2. GateInv'
      BY <2>1, Zenon DEF IInv, GateInv
    <2> QED BY <2>1, <2>2, GateIInv, Zenon DEF IInv, AddInv
  <1> QED BY <1>1, <1>2

\* An address on an answered export is refused, whichever imports overlap and
\* whatever fails, as long as imports only add.
THEOREM SuppressAddedNotSent == Spec => []AddedNotSent
  BY InitIInv, NextIInv, IInvSafe, PTL DEF Spec

\* The version names an export that is wholly on the copy, under the same imports.
THEOREM SuppressVersionIsWhole == Spec => []VersionIsWhole
  BY InitIInv, NextIInv, IInvSafe, PTL DEF Spec

\* At rest, the copy is the last replace and the exports added since: imports that
\* neither overlap nor fail.
THEOREM SuppressReplaceIsExact == Spec => []ReplaceIsExact
  BY InitIInv, NextIInv, IInvSafe, PTL DEF Spec
-----------------------------------------------------------------------------
(* The resolver *)

VetResult    == [addrs : SUBSET Address, err : Errors]
EntryType == [addrs : SUBSET Address, err : Errors, left : -1..TTL, age : 0..Old]
CallType  == [phase : {"idle", "lookup", "answered"}, host : Hosts \cup {NoHost},
              failed : BOOLEAN, answer : Answers \cup {{}}, age : 0..(Timeout + Lag)]
ServedType == [addrs : SUBSET Address, err : Errors, age : 0..Old]

\* Addresses that may all be connected to, or an error.
Vetted(r) ==
  /\ \A a \in r.addrs : ~Blocked(a)
  /\ r.addrs # {} => r.err = "none"

\* Every entry was vetted before it was stored, and while it lives it is no
\* older than the part of its lifetime that is over and the lag of its goroutine.
CacheInv ==
  /\ DOMAIN cache \subseteq Hosts
  /\ ~AtLeast(DOMAIN cache, Size + 1)
  /\ \A h \in DOMAIN cache :
       /\ cache[h] \in EntryType /\ Vetted(cache[h])
       /\ cache[h].left >= 0 => cache[h].age + cache[h].left <= Lag + Lifetime(cache[h].err)

\* A lookup is about a host, and neither it nor the goroutine that has its
\* answer is older than time lets it get.
InTime(c) ==
  /\ c.phase # "idle" => c.host \in Hosts
  /\ c.phase = "lookup" => c.age <= Timeout
  /\ c.phase = "answered" => c.age <= Lag

CallInv == call \in [Callers -> CallType] /\ \A p \in Callers : InTime(call[p])

ServedInv ==
  /\ served \in [Callers -> ServedType]
  /\ \A p \in Callers :
       Vetted(served[p]) /\ served[p].age <= Lag + Lifetime(served[p].err)

ResolverInv == CacheInv /\ CallInv /\ ServedInv

\* The invariant gives both properties.
LEMMA ResolverSafe == ResolverInv => OnlyVetted /\ ServedFresh
  <1> SUFFICES ASSUME ResolverInv PROVE OnlyVetted /\ ServedFresh
    BY DEF ResolverInv
  <1>1. ResolverTypeOK
    BY DEF ResolverInv, CacheInv, CallInv, ServedInv, ResolverTypeOK, EntryType,
       CallType,
       ServedType
  <1>2. ~AtLeast(DOMAIN cache, Size + 1) /\ \A p \in Callers : Vetted(served[p])
    BY Zenon DEF ResolverInv, CacheInv, ServedInv
  <1>3. ServedFresh
    BY Zenon DEF ResolverInv, ServedInv, ServedFresh, Lifetime
  <1> QED BY <1>1, <1>2, <1>3 DEF OnlyVetted, Vetted
-----------------------------------------------------------------------------
(* guard.go and cache.go *)

\* What Resolve makes of any answer is addresses that may be connected to, or
\* an error.
LEMMA VetSound ==
  ASSUME NEW answer \in SUBSET Address
  PROVE  Vet(answer) \in VetResult /\ Vetted(Vet(answer))
  <1> DEFINE out == {a \in {Unmap(b) : b \in answer} : ~Blocked(a)}
  <1>1. out \in SUBSET Address /\ \A a \in out : ~Blocked(a)
    BY Zenon DEF Unmap, Address
  <1>2. CASE answer = {} \/ out = {}
    BY <1>2 DEF Vet, Refused, Vetted, VetResult, Errors
  <1>3. CASE answer # {} /\ out # {}
    <2>1. Vet(answer) = [addrs |-> out, err |-> "none"]
      BY <1>3 DEF Vet
    <2> HIDE DEF out
    <2> QED BY <1>1, <2>1 DEF Vetted, VetResult, Errors
  <1> QED BY <1>2, <1>3

\* A refusal gives no address.
LEMMA RefusedSound ==
  ASSUME NEW err \in Errors
  PROVE  Refused(err) \in VetResult /\ Vetted(Refused(err))
  BY DEF Refused, Vetted, VetResult

\* A larger set has at least as many members.
LEMMA AtLeastSubset ==
  ASSUME NEW S, NEW T, S \subseteq T, NEW k, AtLeast(S, k)
  PROVE  AtLeast(T, k)
  BY Zenon DEF AtLeast

\* One more member, and one fewer.
LEMMA AtLeastMore ==
  ASSUME NEW S, NEW x, x \notin S, NEW k \in Nat, AtLeast(S, k)
  PROVE  AtLeast(S \cup {x}, k + 1)
  <1>1. PICK f \in [1..k -> S] : \A i, j \in 1..k : f[i] = f[j] => i = j
    BY DEF AtLeast
  <1> DEFINE g == [i \in 1..(k + 1) |-> IF i = k + 1 THEN x ELSE f[i]]
  <1>2. g \in [1..(k + 1) -> S \cup {x}]
    BY <1>1
  <1>3. \A i, j \in 1..(k + 1) : g[i] = g[j] => i = j
    BY <1>1
  <1> QED BY <1>2, <1>3, Zenon DEF AtLeast

\* A member taken out, one fewer counted.
LEMMA AtLeastLess ==
  ASSUME NEW S, NEW x, NEW k \in Nat, AtLeast(S \cup {x}, k + 1)
  PROVE  AtLeast(S, k)
  <1>1. PICK f \in [1..(k + 1) -> S \cup {x}] :
          \A i, j \in 1..(k + 1) : f[i] = f[j] => i = j
    BY DEF AtLeast
  <1> DEFINE g == [i \in 1..k |-> IF f[i] = x THEN f[k + 1] ELSE f[i]]
  <1>2. g \in [1..k -> S]
    BY <1>1
  <1>3. \A i, j \in 1..k : g[i] = g[j] => i = j
    BY <1>1
  <1> QED BY <1>2, <1>3, Zenon DEF AtLeast

\* What evictLocked removes leaves room for one more host.
LEMMA EvictionsMakeRoom ==
  ASSUME CacheInv, NEW gone \in Evictions, NEW h
  PROVE  ~AtLeast((DOMAIN cache \ gone) \cup {h}, Size + 1)
  <1> DEFINE D == DOMAIN cache
             E == D \ gone
  <1>1. Size \in Nat
    BY ResolverAssumption
  <1> SUFFICES ASSUME AtLeast(E \cup {h}, Size + 1) PROVE FALSE
    OBVIOUS
  <1>2. AtLeast(E, Size)
    BY <1>1, AtLeastLess, Zenon
  <1>3. AtLeast(D, Size)
    BY <1>2, AtLeastSubset
  <1>4. PICK g \in D : g \in gone
    BY <1>3, Zenon DEF Evictions, Full
  <1>5. AtLeast(E \cup {g}, Size + 1)
    BY <1>1, <1>2, <1>4, AtLeastMore, Zenon
  <1>6. E \cup {g} \subseteq D
    BY <1>4
  <1>7. AtLeast(D, Size + 1)
    BY <1>5, <1>6, AtLeastSubset
  <1> QED BY <1>7 DEF CacheInv

\* put keeps the cache vetted, fresh and within its size.
LEMMA PutCacheInv ==
  ASSUME CacheInv, NEW h \in Hosts, NEW r \in VetResult, Vetted(r),
         NEW age \in 0..Lag, PutCache(h, r, age)
  PROVE  CacheInv'
  <1> DEFINE e == [addrs |-> r.addrs, err |-> r.err, left |-> Lifetime(r.err), age |-> age]
  <1>1. PICK gone \in Evictions :
          cache' = [g \in (DOMAIN cache \ gone) \cup {h} |-> IF g = h THEN e ELSE cache[g]]
    BY DEF PutCache
  <1>2. e \in EntryType /\ Vetted(e) /\ e.age + e.left <= Lag + Lifetime(e.err)
    BY ResolverAssumption DEF VetResult, Vetted, Lifetime, Old, EntryType
  <1> HIDE DEF e
  <1>3. ~AtLeast(DOMAIN cache', Size + 1)
    BY <1>1, EvictionsMakeRoom, Zenon
  <1>4. DOMAIN cache' \subseteq Hosts
    BY <1>1 DEF CacheInv
  <1>5. ASSUME NEW g \in DOMAIN cache'
        PROVE  /\ cache'[g] \in EntryType /\ Vetted(cache'[g])
               /\ cache'[g].left >= 0 =>
                    cache'[g].age + cache'[g].left <= Lag + Lifetime(cache'[g].err)
    BY <1>1, <1>2, <1>5 DEF CacheInv
  <1> QED BY <1>3, <1>4, <1>5 DEF CacheInv, Vetted, Lifetime

\* A caller told something vetted and fresh.
LEMMA TellServedInv ==
  ASSUME ServedInv, NEW p \in Callers, NEW r, Vetted(r),
         r.addrs \in SUBSET Address, r.err \in Errors,
         NEW age \in 0..Old, age <= Lag + Lifetime(r.err), Tell(p, r, age)
  PROVE  ServedInv'
  BY DEF ServedInv, Tell, Vetted, ServedType, Lifetime

\* A caller that goes on leaves the others where they are.
LEMMA MoveCallInv ==
  ASSUME CallInv, NEW p \in Callers, NEW c \in CallType, InTime(c),
         call' = [call EXCEPT ![p] = c]
  PROVE  CallInv'
  BY DEF CallInv, InTime

\* A caller that asks for nothing is in time.
LEMMA IdleInTime ==
  Idle \in CallType /\ InTime(Idle)
  BY ResolverAssumption DEF Idle, CallType, InTime
-----------------------------------------------------------------------------
\* An empty cache.
LEMMA ResolverInitInv == ResolverInit => ResolverInv
  <1> SUFFICES ASSUME ResolverInit PROVE ResolverInv
    OBVIOUS
  <1>1. DOMAIN cache = {}
    BY DEF ResolverInit
  <1>2. CacheInv
    <2>1. Size \in Nat
      BY ResolverAssumption
    <2>2. ~AtLeast({}, Size + 1)
      BY <2>1 DEF AtLeast
    <2> QED BY <1>1, <2>2 DEF CacheInv
  <1>3. CallInv
    BY IdleInTime DEF ResolverInit, CallInv
  <1>4. ServedInv
    BY ResolverAssumption
    DEF ResolverInit, ServedInv, Nothing, ServedType, Errors, Old, Vetted, Lifetime
  <1> QED BY <1>2, <1>3, <1>4 DEF ResolverInv

\* A hit is served as it was stored.
LEMMA BeginHit ==
  ASSUME ResolverInv, NEW p \in Callers, NEW h \in Hosts, BeginLookup(p, h), Hit(h)
  PROVE  ResolverInv'
  <1>1. h \in DOMAIN cache /\ cache[h].left >= 0
    BY DEF Hit, Expired, ResolverInv, CacheInv, EntryType
  <1>2. /\ Vetted(cache[h]) /\ cache[h].addrs \in SUBSET Address
        /\ cache[h].err \in Errors /\ cache[h].age \in 0..Old
        /\ cache[h].age <= Lag + Lifetime(cache[h].err)
    BY <1>1, ResolverAssumption DEF ResolverInv, CacheInv, EntryType, Lifetime
  <1>3. Tell(p, cache[h], cache[h].age) /\ UNCHANGED <<cache, call>>
    BY DEF BeginLookup
  <1>4. ServedInv'
    BY <1>2, <1>3, TellServedInv DEF ResolverInv
  <1> QED BY <1>3, <1>4 DEF ResolverInv, CacheInv, CallInv

\* A miss goes out to the resolver.
LEMMA BeginMiss ==
  ASSUME ResolverInv, NEW p \in Callers, NEW h \in Hosts, BeginLookup(p, h), ~Hit(h)
  PROVE  ResolverInv'
  <1> DEFINE c == [phase |-> "lookup", host |-> h, failed |-> FALSE, answer |-> {}, age |-> 0]
  <1>1. /\ cache' = [g \in DOMAIN cache \ {h} |-> cache[g]]
        /\ call' = [call EXCEPT ![p] = c]
        /\ UNCHANGED served
    BY Zenon DEF BeginLookup, Idle
  <1>2. c \in CallType /\ InTime(c)
    BY ResolverAssumption DEF CallType, InTime
  <1> HIDE DEF c
  <1>3. CallInv'
    BY <1>1, <1>2, MoveCallInv, Zenon DEF ResolverInv
  <1>4. DOMAIN cache' \subseteq DOMAIN cache
    BY <1>1
  <1>5. ~AtLeast(DOMAIN cache', Size + 1)
    BY <1>4, AtLeastSubset DEF ResolverInv, CacheInv
  <1>6. CacheInv'
    BY <1>1, <1>4, <1>5 DEF ResolverInv, CacheInv, Vetted, Lifetime
  <1> QED BY <1>1, <1>3, <1>6 DEF ResolverInv, ServedInv

\* A literal address is vetted, and never stored.
LEMMA LiteralStep ==
  ASSUME ResolverInv, NEW p \in Callers, NEW a \in Address, Literal(p, a)
  PROVE  ResolverInv'
  <1> DEFINE r == IF Blocked(a) THEN Refused("blocked") ELSE [addrs |-> {a}, err |-> "none"]
  <1>1. r.addrs \in SUBSET Address /\ r.err \in Errors /\ Vetted(r)
    BY DEF Refused, Errors, Vetted
  <1>2. Tell(p, r, 0) /\ UNCHANGED <<cache, call>>
    BY DEF Literal
  <1> HIDE DEF r
  <1>3. 0 \in 0..Old /\ 0 <= Lag + Lifetime(r.err)
    BY ResolverAssumption DEF Old, Lifetime
  <1>4. ServedInv'
    BY <1>1, <1>2, <1>3, TellServedInv DEF ResolverInv
  <1> QED BY <1>2, <1>4 DEF ResolverInv, CacheInv, CallInv

\* The lookup answers, or the deadline does.
LEMMA OverStep ==
  ASSUME ResolverInv, NEW p \in Callers, NEW failed \in BOOLEAN,
         NEW answer \in Answers \cup {{}}, Over(p, failed, answer)
  PROVE  ResolverInv'
  <1> DEFINE c == [phase |-> "answered", host |-> call[p].host,
                   failed |-> failed, answer |-> answer, age |-> 0]
  <1>1. call[p].host \in Hosts
    BY DEF ResolverInv, CallInv, InTime, Over
  <1>2. c \in CallType /\ InTime(c)
    BY <1>1, ResolverAssumption DEF CallType, InTime
  <1>3. call' = [call EXCEPT ![p] = c] /\ UNCHANGED <<cache, served>>
    BY DEF Over
  <1> HIDE DEF c
  <1>4. CallInv'
    BY <1>2, <1>3, MoveCallInv, Zenon DEF ResolverInv
  <1> QED BY <1>3, <1>4, Zenon DEF ResolverInv, CacheInv, ServedInv

\* Every address of the answer is vetted, and the verdict stored and told.
LEMMA StoreStep ==
  ASSUME ResolverInv, NEW p \in Callers, Store(p)
  PROVE  ResolverInv'
  <1> DEFINE r == IF call[p].failed THEN Refused("lookup") ELSE Vet(call[p].answer)
  <1>1. /\ PutCache(call[p].host, r, call[p].age) /\ Tell(p, r, call[p].age)
        /\ call' = [call EXCEPT ![p] = Idle] /\ call[p].phase = "answered"
    BY DEF Store
  <1>2. call[p].answer \in SUBSET Address /\ call[p].host \in Hosts /\ call[p].age \in 0..Lag
    BY <1>1, ResolverAssumption DEF ResolverInv, CallInv, CallType, InTime
  <1>3. r \in VetResult /\ Vetted(r)
    BY <1>2, VetSound, RefusedSound DEF Errors
  <1> HIDE DEF r
  <1>4. CacheInv'
    BY <1>1, <1>2, <1>3, PutCacheInv DEF ResolverInv
  <1>5. ServedInv'
    <2>1. /\ r.addrs \in SUBSET Address /\ r.err \in Errors
          /\ call[p].age \in 0..Old /\ call[p].age <= Lag + Lifetime(r.err)
      BY <1>2, <1>3, ResolverAssumption DEF VetResult, Old, Lifetime
    <2> QED BY <1>1, <1>3, <2>1, TellServedInv DEF ResolverInv
  <1>6. CallInv'
    BY <1>1, IdleInTime, MoveCallInv, Zenon DEF ResolverInv
  <1> QED BY <1>4, <1>5, <1>6 DEF ResolverInv

\* Entries and lookups age.
LEMMA ResolverTickStep ==
  ASSUME ResolverInv, ResolverTick
  PROVE  ResolverInv'
  <1>1. CallInv'
    <2>1. ASSUME NEW p \in Callers, call[p].phase # "idle"
          PROVE  /\ [call[p] EXCEPT !.age = @ + 1] \in CallType
                 /\ InTime([call[p] EXCEPT !.age = @ + 1])
      <3>1. /\ call[p] \in CallType /\ InTime(call[p])
            /\ call[p].phase = "lookup" => call[p].age < Timeout
            /\ call[p].phase = "answered" => call[p].age < Lag
        BY Zenon DEF ResolverTick, ResolverInv, CallInv
      <3> QED BY <2>1, <3>1, ResolverAssumption DEF CallType, InTime
    <2>2. call' = [p \in Callers |-> IF call[p].phase = "idle" THEN Idle
                                     ELSE [call[p] EXCEPT !.age = @ + 1]]
      BY Zenon DEF ResolverTick
    <2> QED BY <2>1, <2>2, IdleInTime, Zenon DEF CallInv
  <1>2. ServedInv'
    <2>1. /\ Nothing \in ServedType /\ Vetted(Nothing)
          /\ Nothing.age <= Lag + Lifetime(Nothing.err)
      BY ResolverAssumption DEF Nothing, ServedType, Errors, Old, Vetted, Lifetime
    <2>2. served' = [p \in Callers |-> Nothing]
      BY Zenon DEF ResolverTick
    <2> QED BY <2>1, <2>2, Zenon DEF ServedInv
  <1>3. CacheInv'
    <2>1. /\ DOMAIN cache' = DOMAIN cache
          /\ \A h \in DOMAIN cache : cache'[h] =
               [cache[h] EXCEPT !.left = IF @ < 0 THEN @ ELSE @ - 1, !.age = Older(@)]
      BY Zenon DEF ResolverTick
    <2>2. ASSUME NEW h \in DOMAIN cache
          PROVE  /\ cache'[h] \in EntryType /\ Vetted(cache'[h])
                 /\ cache'[h].left >= 0 =>
                      cache'[h].age + cache'[h].left <= Lag + Lifetime(cache'[h].err)
      <3> DEFINE e == cache[h]
                 l == IF e.left < 0 THEN e.left ELSE e.left - 1
      <3>1. e \in EntryType /\ Vetted(e) /\ (e.left >= 0 => e.age + e.left <= Lag + Lifetime(e.err))
        BY ResolverAssumption DEF ResolverInv, CacheInv
      <3>2. l \in -1..TTL /\ Older(e.age) \in 0..Old
            /\ (l >= 0 => Older(e.age) + l <= Lag + Lifetime(e.err))
        BY <3>1, ResolverAssumption DEF EntryType, Older, Old, Lifetime
      <3>3. cache'[h] = [e EXCEPT !.left = l, !.age = Older(e.age)]
        BY <2>1, Zenon
      <3> HIDE DEF e, l
      <3>4. cache'[h] = [addrs |-> e.addrs, err |-> e.err, left |-> l, age |-> Older(e.age)]
        BY <3>1, <3>3, Zenon DEF EntryType
      <3> QED BY <3>1, <3>2, <3>4 DEF EntryType, Vetted
    <2> QED BY <2>1, <2>2, Zenon DEF ResolverInv, CacheInv, Vetted, Lifetime
  <1> QED BY <1>1, <1>2, <1>3 DEF ResolverInv

\* Every step keeps the invariant.
LEMMA ResolverNextInv == ResolverInv /\ [ResolverNext]_resolverVars => ResolverInv'
  <1> SUFFICES ASSUME ResolverInv, [ResolverNext]_resolverVars PROVE ResolverInv'
    BY DEF ResolverInv
  <1>1. CASE UNCHANGED resolverVars
    BY <1>1 DEF resolverVars, ResolverInv, CacheInv, CallInv, ServedInv
  <1>2. CASE ResolverNext
    BY <1>2, BeginHit, BeginMiss, LiteralStep, OverStep, StoreStep, ResolverTickStep,
       Zenon
       DEF ResolverNext, Answered, LookupFails
  <1> QED BY <1>1, <1>2

\* Whatever DNS answers, in whatever order overlapping lookups store, a caller
\* is given only addresses that may be connected to, or an error, and the cache
\* stays within its size.
THEOREM ResolverOnlyVetted == ResolverSpec => []OnlyVetted
  BY ResolverInitInv, ResolverNextInv, ResolverSafe, PTL DEF ResolverSpec

\* Nothing is told to a caller after its lifetime and the lag of its goroutine.
THEOREM ResolverServedFresh == ResolverSpec => []ServedFresh
  BY ResolverInitInv, ResolverNextInv, ResolverSafe, PTL DEF ResolverSpec
=============================================================================
