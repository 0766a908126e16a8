-------------------------------- MODULE UserKeys --------------------------------
(***************************************************************************)
(* Table user_key: users upload public keys, remove them, and are removed  *)
(* with them.  Only the code keeps one row per public key and bounds the   *)
(* keys of a user: the table has no such constraint, and an upload looks   *)
(* and writes in separate steps.                                           *)
(***************************************************************************)
EXTENDS Integers, Sequences, FiniteSets

CONSTANTS Users, PublicKeys,
          Indexes,     \* indexes of a recovery phrase
          NoIndex,     \* the null of the column
          Uploads,     \* uploads in flight at a time
          MaxKeys,     \* MAX_USER_KEYS
          MaxKeyRows   \* bound: rows inserted

ASSUME IndexesAssumption == Indexes \subseteq Nat /\ NoIndex \notin Indexes
ASSUME KeyBoundsAssumption == MaxKeys \in Nat \ {0} /\ MaxKeyRows \in Nat

KeyRows == [owner : Users, key : PublicKeys, index : Indexes \cup {NoIndex}, deleted : BOOLEAN]
NoUpload == [user |-> "none"]
NewRow == 0

VARIABLES keys,      \* the rows of user_key, by id
          removed,   \* users that are soft-deleted
          leaving,   \* users whose removal has soft-deleted the keys only
          uploads,   \* uploads in flight
          crowded,   \* history: users with an upload that overlapped another request of theirs
          contested  \* history: public keys two uploads looked up at a time

keyVars == <<keys, removed, leaving, uploads, crowded, contested>>

UploadSteps == [user : Users, key : PublicKeys, index : Indexes \cup {NoIndex},
                stage : {"counted", "found"}, id : 0 .. MaxKeyRows, row : KeyRows]

KeysTypeOK ==
  /\ keys \in Seq(KeyRows) /\ Len(keys) <= MaxKeyRows
  /\ removed \subseteq Users /\ leaving \subseteq Users
  /\ uploads \in [Uploads -> UploadSteps \cup {NoUpload}]
  /\ crowded \subseteq Users /\ contested \subseteq PublicKeys

Ids == DOMAIN keys
RowsOf(k) == {i \in Ids : keys[i].key = k}
LiveKeys(u) == {i \in Ids : keys[i].owner = u /\ ~keys[i].deleted}
Busy == {q \in Uploads : uploads[q] # NoUpload}
UploadsOf(u) == {q \in Busy : uploads[q].user = u}

KeysInit ==
  /\ keys = << >>
  /\ removed = {} /\ leaving = {}
  /\ uploads = [q \in Uploads |-> NoUpload]
  /\ crowded = {} /\ contested = {}

(* uploadKey: the guards loaded the user with the live keys, and there is room
   for one more. *)
HasRoom(u) == Cardinality(LiveKeys(u)) < MaxKeys

Fresh(u, k, x) == [owner |-> u, key |-> k, index |-> x, deleted |-> FALSE]

BeginUpload(q, u, k, x) ==
  /\ uploads[q] = NoUpload
  /\ u \notin removed
  /\ HasRoom(u)
  /\ uploads' = [uploads EXCEPT ![q] = [user |-> u, key |-> k, index |-> x,
                                        stage |-> "counted", id |-> NewRow, row |-> Fresh(u, k, x)]]
  /\ crowded' = IF UploadsOf(u) # {} \/ u \in leaving THEN crowded \cup {u} ELSE crowded
  /\ UNCHANGED <<keys, removed, leaving, contested>>

(* Mutant: the lookup forgets withDeleted. *)
LiveCandidates(k) == {i \in RowsOf(k) : ~keys[i].deleted}

(* The row of the public key, deleted or not. *)
Candidates(k) == RowsOf(k)

(* An index of 0 is falsy: like null, it may be replaced. *)
Refuses(row, u, x) == row.owner # u \/ (row.index \notin {0, NoIndex} /\ row.index # x)

(* The lookup.  The dto is written over the row found; a dto without an index
   leaves the one stored. *)
LookUp(q) ==
  LET up == uploads[q]
      Found(i) == [up EXCEPT !.stage = "found", !.id = i,
                             !.row = IF up.index = NoIndex THEN keys[i]
                                     ELSE [keys[i] EXCEPT !.index = up.index]]
      lookers == {r \in Busy \ {q} : uploads[r].key = up.key}
  IN /\ up # NoUpload /\ up.stage = "counted"
     /\ \/ /\ Candidates(up.key) = {}
           /\ uploads' = [uploads EXCEPT ![q].stage = "found"]
        \/ \E i \in Candidates(up.key) :
             uploads' = [uploads EXCEPT ![q] = IF Refuses(keys[i], up.user, up.index)
                                               THEN NoUpload ELSE Found(i)]
     /\ contested' = IF \E r \in lookers : uploads[r].stage = "found"
                     THEN contested \cup {up.key} ELSE contested
     /\ UNCHANGED <<keys, removed, leaving, crowded>>

(* recover: a deleted row that was found comes back, a statement of its own. *)
RecoverKey(q) ==
  LET up == uploads[q] IN
  /\ up # NoUpload /\ up.stage = "found" /\ up.id # NewRow /\ up.row.deleted
  /\ keys' = [keys EXCEPT ![up.id].deleted = FALSE]
  /\ uploads' = [uploads EXCEPT ![q].row.deleted = FALSE]
  /\ UNCHANGED <<removed, leaving, crowded, contested>>

(* save: the whole row is written, alive. *)
SaveKey(q) ==
  LET up == uploads[q] IN
  /\ up # NoUpload /\ up.stage = "found" /\ ~up.row.deleted
  /\ IF up.id = NewRow
     THEN /\ Len(keys) < MaxKeyRows
          /\ keys' = Append(keys, up.row)
     ELSE keys' = [keys EXCEPT ![up.id] = up.row]
  /\ uploads' = [uploads EXCEPT ![q] = NoUpload]
  /\ UNCHANGED <<removed, leaving, crowded, contested>>

(* The process dies, or a statement fails; a row that came back stays. *)
FailUpload(q) ==
  /\ uploads[q] # NoUpload
  /\ uploads' = [uploads EXCEPT ![q] = NoUpload]
  /\ UNCHANGED <<keys, removed, leaving, crowded, contested>>

(* removeUserKey *)
RemoveKey(i) ==
  /\ i \in Ids /\ ~keys[i].deleted /\ keys[i].owner \notin removed
  /\ keys' = [keys EXCEPT ![i].deleted = TRUE]
  /\ UNCHANGED <<removed, leaving, uploads, crowded, contested>>

(* updateMnemonicHash *)
UpdateIndex(i, x) ==
  /\ i \in Ids /\ ~keys[i].deleted /\ keys[i].owner \notin removed
  /\ keys' = [keys EXCEPT ![i].index = x]
  /\ UNCHANGED <<removed, leaving, uploads, crowded, contested>>

(* removeUser: the keys first, then the user.  The process may die between. *)
WithoutKeysOf(u) == [i \in Ids |-> [keys[i] EXCEPT !.deleted = @ \/ keys[i].owner = u]]

DropKeys(u) ==
  /\ u \notin removed
  /\ keys' = WithoutKeysOf(u)
  /\ leaving' = leaving \cup {u}
  /\ crowded' = IF UploadsOf(u) # {} THEN crowded \cup {u} ELSE crowded
  /\ UNCHANGED <<removed, uploads, contested>>

DropUser(u) ==
  /\ u \in leaving
  /\ removed' = removed \cup {u}
  /\ leaving' = leaving \ {u}
  /\ UNCHANGED <<keys, uploads, crowded, contested>>

FailRemoval(u) ==
  /\ u \in leaving
  /\ leaving' = leaving \ {u}
  /\ UNCHANGED <<keys, removed, uploads, crowded, contested>>

(* createUser brings the same row back. *)
Readmit(u) ==
  /\ u \in removed
  /\ removed' = removed \ {u}
  /\ UNCHANGED <<keys, leaving, uploads, crowded, contested>>

KeysNext ==
  \/ \E q \in Uploads :
       \/ \E u \in Users, k \in PublicKeys, x \in Indexes \cup {NoIndex} : BeginUpload(q, u, k, x)
       \/ LookUp(q) \/ RecoverKey(q) \/ SaveKey(q) \/ FailUpload(q)
  \/ \E i \in Ids : RemoveKey(i) \/ \E x \in Indexes : UpdateIndex(i, x)
  \/ \E u \in Users : DropKeys(u) \/ DropUser(u) \/ FailRemoval(u) \/ Readmit(u)

KeysSpec == KeysInit /\ [][KeysNext]_keyVars

-----------------------------------------------------------------------------
(* resolveKeyOwners: of the rows of a public key, live ones first, then the
   latest. *)
ReportOwner(k) ==
  LET live == {i \in RowsOf(k) : ~keys[i].deleted}
      best == IF live # {} THEN live ELSE RowsOf(k)
  IN keys[CHOOSE i \in best : \A j \in best : j <= i].owner

(* The signing report's comment: a public key maps to at most one row, whatever *)
(* is removed, uploaded again, or left by a removed user.  Two uploads that     *)
(* look the key up before either saves are the one way around.                  *)
OneRowPerKey == \A k \in PublicKeys \ contested : Cardinality(RowsOf(k)) <= 1

(* The user a signing report names for a public key stays the one it named: the *)
(* key changes hands neither by removal, nor by an upload, nor when its owner   *)
(* is created again.                                                            *)
OwnerStands ==
  [][\A k \in PublicKeys \ contested' :
       RowsOf(k) # {} => RowsOf(k)' # {} /\ ReportOwner(k)' = ReportOwner(k)]_keyVars

(* A user has at most MAX_USER_KEYS live keys, and once removed none at all,    *)
(* through recovered rows and removals that stopped half way, unless requests   *)
(* of that user overlapped.                                                     *)
KeysInBounds ==
  \A u \in Users \ crowded :
    /\ Cardinality(LiveKeys(u)) <= MaxKeys
    /\ u \in removed => LiveKeys(u) = {}

=============================================================================
