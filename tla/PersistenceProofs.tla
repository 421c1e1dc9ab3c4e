-------------------------- MODULE PersistenceProofs --------------------------
(***************************************************************************)
(* Persistence, for any players, positions, items and number of steps.     *)
(***************************************************************************)
EXTENDS Persistence, FiniteSetTheorems, TLAPS

PlayerTables == UNION {[D -> SUBSET Items] : D \in SUBSET Players}
ChunkTables == UNION {[D -> Blocks] : D \in SUBSET Positions}

\* A table is a function on some of the positions.
LEMMA TableForm ==
  ASSUME NEW f
  PROVE  f \in Tables <=> /\ DOMAIN f \subseteq Positions
                          /\ f \in [DOMAIN f -> SUBSET Items]
  BY DEF Tables

LEMMA PlayerTableForm ==
  ASSUME NEW f
  PROVE  f \in PlayerTables <=> /\ DOMAIN f \subseteq Players
                                /\ f \in [DOMAIN f -> SUBSET Items]
  BY DEF PlayerTables

LEMMA ChunkTableForm ==
  ASSUME NEW f
  PROVE  f \in ChunkTables <=> /\ DOMAIN f \subseteq Positions
                               /\ f \in [DOMAIN f -> Blocks]
  BY DEF ChunkTables

\* The helpers on tables.
LEMMA TablePut ==
  ASSUME NEW t \in Tables, NEW q \in Positions, NEW s \in SUBSET Items
  PROVE  /\ Put(t, q, s) \in Tables
         /\ DOMAIN Put(t, q, s) = DOMAIN t \cup {q}
  BY TableForm DEF Put

LEMMA TableWithout ==
  ASSUME NEW t \in Tables, NEW q
  PROVE  /\ Without(t, q) \in Tables
         /\ DOMAIN Without(t, q) = DOMAIN t \ {q}
<1>1. Without(t, q) \in [DOMAIN t \ {q} -> SUBSET Items]
  BY TableForm DEF Without, Restrict
<1>2. QED
  BY <1>1, TableForm

LEMMA TableSet ==
  ASSUME NEW t \in Tables, NEW q \in DOMAIN t, NEW s \in SUBSET Items
  PROVE  /\ [t EXCEPT ![q] = s] \in Tables
         /\ DOMAIN [t EXCEPT ![q] = s] = DOMAIN t
  BY TableForm
-----------------------------------------------------------------------------
LEMMA DiskForm ==
  ASSUME NEW d
  PROVE  d \in Disks <=>
           /\ d = [players |-> d.players, chunks |-> d.chunks, tiles |-> d.tiles]
           /\ d.players \in PlayerTables /\ d.chunks \in ChunkTables
           /\ d.tiles \in [Containers -> Tables]
  BY DEF Disks, PlayerTables, ChunkTables

\* What a save of some of the files leaves.
LEMMA WrittenType ==
  ASSUME TypeOK, NEW F,
         \A q \in Positions : <<"chunk", q>> \in F => chunk[q] # "none"
  PROVE  Written(F) \in Disks
<1>1. disk.players \in PlayerTables /\ disk.chunks \in ChunkTables
      /\ disk.tiles \in [Containers -> Tables]
  BY DiskForm DEF TypeOK
<1>2. WrittenPlayers(F) \in PlayerTables
  <2>1. WrittenPlayers(F) \in
          [DOMAIN disk.players \cup {p \in Players : <<"player", p>> \in F} -> SUBSET Items]
    BY <1>1, PlayerTableForm DEF WrittenPlayers, TypeOK
  <2>2. QED
    BY <1>1, <2>1, PlayerTableForm
<1>3. WrittenChunks(F) \in ChunkTables
  <2>1. WrittenChunks(F) \in
          [DOMAIN disk.chunks \cup {q \in Positions : <<"chunk", q>> \in F} -> Blocks]
    BY <1>1, ChunkTableForm DEF WrittenChunks, TypeOK
  <2>2. QED
    BY <1>1, <2>1, ChunkTableForm
<1>4. WrittenTables(F) \in [Containers -> Tables]
  BY <1>1 DEF WrittenTables, TypeOK
<1>5. QED
  BY <1>2, <1>3, <1>4, DiskForm DEF Written

\* What a file looks like that was cut off.
LEMMA CutType ==
  ASSUME TypeOK, NEW d \in Disks, NEW f \in PlayerFiles \cup ChunkFiles \cup TableFiles
  PROVE  Cut(d, f) \subseteq Disks
<1>1. /\ d = [players |-> d.players, chunks |-> d.chunks, tiles |-> d.tiles]
      /\ d.players \in PlayerTables /\ d.chunks \in ChunkTables
      /\ d.tiles \in [Containers -> Tables]
  BY DiskForm
<1>2. ASSUME NEW p \in Players PROVE CutPlayers(d, p) \subseteq PlayerTables
  <2>1. Without(d.players, p) \in PlayerTables
    <3>1. Without(d.players, p) \in [DOMAIN d.players \ {p} -> SUBSET Items]
      BY <1>1, PlayerTableForm DEF Without, Restrict
    <3>2. QED
      BY <1>1, <3>1, PlayerTableForm
  <2>2. ASSUME NEW part \in SUBSET inventory[p] PROVE Put(d.players, p, part) \in PlayerTables
    <3>1. part \in SUBSET Items
      BY DEF TypeOK
    <3>2. Put(d.players, p, part) \in [DOMAIN d.players \cup {p} -> SUBSET Items]
      BY <1>1, <3>1, PlayerTableForm DEF Put
    <3>3. QED
      BY <1>1, <3>2, PlayerTableForm
  <2>3. QED
    BY <2>1, <2>2 DEF CutPlayers
<1>3. ASSUME NEW q \in Positions PROVE CutChunks(d, q) \in ChunkTables
  <2>1. CutChunks(d, q) \in [DOMAIN d.chunks \ {q} -> Blocks]
    BY <1>1, ChunkTableForm DEF CutChunks, Without, Restrict
  <2>2. QED
    BY <1>1, <2>1, ChunkTableForm
<1>4. ASSUME NEW t \in Tables PROVE CutTables(t) \subseteq Tables
  BY DEF CutTables, Tables
<1>5. CASE f \in PlayerFiles
  <2>1. PICK p \in Players : f = <<"player", p>>
    BY <1>5 DEF PlayerFiles
  <2>2. f[2] = p /\ f \notin ChunkFiles /\ f \notin TableFiles
    BY <2>1 DEF ChunkFiles, TableFiles
  <2>3. \A ps \in PlayerTables : [d EXCEPT !.players = ps] \in Disks
    BY <1>1, DiskForm
  <2>4. \A e \in Cut(d, f) : \E ps \in CutPlayers(d, f[2]) : e = [d EXCEPT !.players = ps]
    BY <1>5, <2>2 DEF Cut
  <2>5. QED
    BY <1>2, <2>2, <2>3, <2>4
<1>6. CASE f \in ChunkFiles
  <2>1. PICK q \in Positions : f = <<"chunk", q>>
    BY <1>6 DEF ChunkFiles
  <2>2. f[2] = q /\ f \notin PlayerFiles
    BY <2>1 DEF PlayerFiles
  <2>3. \A cs \in ChunkTables : [d EXCEPT !.chunks = cs] \in Disks
    BY <1>1, DiskForm
  <2>4. Cut(d, f) = {[d EXCEPT !.chunks = CutChunks(d, q)]}
    BY <1>6, <2>2 DEF Cut
  <2>5. QED
    BY <1>3, <2>3, <2>4
<1>7. CASE f \in TableFiles
  <2>1. PICK k \in Containers : f = <<"table", k>>
    BY <1>7 DEF TableFiles
  <2>2. f[2] = k /\ f \notin PlayerFiles /\ f \notin ChunkFiles
    BY <2>1 DEF PlayerFiles, ChunkFiles
  <2>3. \A t \in Tables : [d EXCEPT !.tiles[k] = t] \in Disks
    BY <1>1, DiskForm
  <2>4. Cut(d, f) = {[d EXCEPT !.tiles[k] = t] : t \in CutTables(tile[k])}
    BY <2>2 DEF Cut
  <2>5. tile[k] \in Tables
    BY DEF TypeOK
  <2>6. QED
    BY <1>4, <2>3, <2>4, <2>5
<1>8. QED
  BY <1>5, <1>6, <1>7
-----------------------------------------------------------------------------
\* Only chunks that are loaded are written.
DirtyIsLoaded == \A q \in dirty : chunk[q] # "none"

FilesInv == TypeOK /\ DirtyIsLoaded /\ CleanIsOnDisk /\ HoppersHaveTiles

LEMMA ToWriteFiles ==
  ASSUME TypeOK, DirtyIsLoaded, NEW W \in Underway
  PROVE  /\ W \subseteq PlayerFiles \cup ChunkFiles \cup TableFiles
         /\ \A q \in Positions : <<"chunk", q>> \in W => chunk[q] # "none"
  BY DEF TypeOK, DirtyIsLoaded, Underway, ToWrite, SaveAll, PlayerFiles, ChunkFiles,
         TableFiles

\* Nothing is loaded after a start.
LEMMA StartKeeps ==
  ASSUME TypeOK, NEW d \in Disks, StartOn(d), spoilt' \subseteq Items, unsettled' = {},
         acts' = acts
  PROVE  FilesInv'
<1>1. d.tiles \in [Containers -> Tables]
  BY DiskForm
<1>2. TypeOK'
  BY <1>1 DEF StartOn, TypeOK
<1>3. DirtyIsLoaded' /\ CleanIsOnDisk' /\ HoppersHaveTiles'
  BY DEF StartOn, DirtyIsLoaded, CleanIsOnDisk, HoppersHaveTiles
<1>4. QED
  BY <1>2, <1>3 DEF FilesInv

LEMMA RestartKeeps == ASSUME FilesInv, Restart PROVE FilesInv'
<1>1. ToWrite(TRUE) \in Underway
  BY DEF Underway
<1>2. Written(ToWrite(TRUE)) \in Disks
  BY <1>1, ToWriteFiles, WrittenType DEF FilesInv
<1>3. QED
  BY <1>2, StartKeeps DEF Restart, FilesInv, TypeOK

LEMMA CrashKeeps == ASSUME FilesInv, Crash PROVE FilesInv'
<1>1. PICK W \in Underway : \E S \in Progress(W) :
        \/ /\ StartOn(Written(S))
           /\ spoilt' = spoilt \cup unsettled
        \/ \E f \in W \ S :
             /\ S \cup {f} \in Progress(W)
             /\ \E d \in Cut(Written(S), f) : StartOn(d)
             /\ spoilt' = spoilt \cup unsettled \cup ItemsOf(f)
  BY DEF Crash
<1>2. PICK S \in Progress(W) :
        \/ /\ StartOn(Written(S))
           /\ spoilt' = spoilt \cup unsettled
        \/ \E f \in W \ S :
             /\ \E d \in Cut(Written(S), f) : StartOn(d)
             /\ spoilt' = spoilt \cup unsettled \cup ItemsOf(f)
  BY <1>1
<1>3. S \subseteq W
  BY DEF Progress
<1>4. Written(S) \in Disks
  BY <1>3, ToWriteFiles, WrittenType DEF FilesInv
<1>5. unsettled' = {} /\ acts' = acts /\ spoilt \cup unsettled \subseteq Items
  BY DEF Crash, FilesInv, TypeOK
<1>6. CASE StartOn(Written(S)) /\ spoilt' = spoilt \cup unsettled
  BY <1>4, <1>5, <1>6, StartKeeps DEF FilesInv
<1>7. CASE \E f \in W \ S :
             /\ \E d \in Cut(Written(S), f) : StartOn(d)
             /\ spoilt' = spoilt \cup unsettled \cup ItemsOf(f)
  <2>1. PICK f \in W \ S :
          /\ \E d \in Cut(Written(S), f) : StartOn(d)
          /\ spoilt' = spoilt \cup unsettled \cup ItemsOf(f)
    BY <1>7
  <2>2. PICK d \in Cut(Written(S), f) : StartOn(d)
    BY <2>1
  <2>3. f \in PlayerFiles \cup ChunkFiles \cup TableFiles
    BY ToWriteFiles DEF FilesInv
  <2>4. d \in Disks
    BY <1>4, <2>3, CutType DEF FilesInv
  <2>5. ItemsOf(f) \subseteq Items
    <3>1. CASE f \in PlayerFiles
      BY <3>1 DEF ItemsOf, PlayerFiles, FilesInv, TypeOK
    <3>2. CASE f \in ChunkFiles
      BY <3>2 DEF ItemsOf, PlayerFiles, ChunkFiles
    <3>3. CASE f \in TableFiles
      <4>1. PICK k \in Containers : f = <<"table", k>>
        BY <3>3 DEF TableFiles
      <4>2. ItemsOf(f) = UNION {tile[k][q] : q \in DOMAIN tile[k]}
        BY <4>1 DEF ItemsOf, PlayerFiles, ChunkFiles
      <4>3. tile[k] \in [DOMAIN tile[k] -> SUBSET Items]
        BY TableForm DEF FilesInv, TypeOK
      <4>4. QED
        BY <4>2, <4>3
    <3>4. QED
      BY <2>3, <3>1, <3>2, <3>3
  <2>6. QED
    BY <1>5, <2>1, <2>2, <2>4, <2>5, StartKeeps DEF FilesInv
<1>8. QED
  BY <1>2, <1>6, <1>7

LEMMA AutosaveKeeps == ASSUME FilesInv, Autosave PROVE FilesInv'
<1>1. PICK bad \in SUBSET dirty, gone \in SUBSET dirty :
        LET d == Written(ToWrite(FALSE) \ ({"chunk"} \X bad))
        IN /\ disk' = [d EXCEPT !.chunks = Restrict(@, DOMAIN @ \ (gone \cap bad))]
           /\ dirty' = bad
           /\ unsettled' = {}
           /\ UNCHANGED <<online, inventory, chunk, tile, ground, spoilt, lost, acts>>
  BY DEF Autosave
<1> DEFINE F == ToWrite(FALSE) \ ({"chunk"} \X bad)
           cs == WrittenChunks(F)
           kept == Restrict(cs, DOMAIN cs \ (gone \cap bad))
<1>2. Written(F) \in Disks
  <2>1. ToWrite(FALSE) \in Underway
    BY DEF Underway
  <2>2. QED
    BY <2>1, ToWriteFiles, WrittenType DEF FilesInv
<1>3. disk' = [Written(F) EXCEPT !.chunks = kept]
  BY <1>1 DEF Written
<1>4. /\ Written(F).players \in PlayerTables /\ cs \in ChunkTables
      /\ Written(F).tiles \in [Containers -> Tables]
  <2>1. /\ Written(F).players \in PlayerTables /\ Written(F).chunks \in ChunkTables
        /\ Written(F).tiles \in [Containers -> Tables]
    BY <1>2, DiskForm
  <2>2. Written(F).chunks = cs
    BY DEF Written
  <2>3. QED
    BY <2>1, <2>2
<1> HIDE DEF F
<1>5. kept \in ChunkTables
  <2>1. kept \in [DOMAIN cs \ (gone \cap bad) -> Blocks]
    BY <1>4, ChunkTableForm DEF Restrict
  <2>2. QED
    BY <1>4, <2>1, ChunkTableForm
<1>6. disk'.chunks = kept /\ disk' \in Disks
  BY <1>2, <1>3, <1>4, <1>5, DiskForm
<1>7. TypeOK'
  BY <1>1, <1>6 DEF FilesInv, TypeOK
<1>8. DirtyIsLoaded' /\ HoppersHaveTiles'
  BY <1>1 DEF FilesInv, DirtyIsLoaded, HoppersHaveTiles
<1>9. CleanIsOnDisk'
  <2>1. SUFFICES ASSUME NEW q \in Positions, chunk[q] # "none", q \notin bad
                 PROVE  q \in DOMAIN kept /\ kept[q] = chunk[q]
    BY <1>1, <1>6 DEF CleanIsOnDisk
  <2>2. q \in dirty => <<"chunk", q>> \in F
    BY <2>1 DEF F, ToWrite, SaveAll
  <2>3. q \notin dirty => <<"chunk", q>> \notin F
    BY DEF F, ToWrite, SaveAll, TableFiles
  <2>4. q \in DOMAIN cs /\ cs[q] = chunk[q]
    BY <2>1, <2>2, <2>3 DEF FilesInv, CleanIsOnDisk, WrittenChunks
  <2>5. QED
    BY <2>1, <2>4 DEF Restrict
<1>10. QED
  BY <1>7, <1>8, <1>9 DEF FilesInv

LEMMA LeaveKeeps == ASSUME FilesInv, NEW p \in Players, Leave(p) PROVE FilesInv'
<1> DEFINE F == {<<"player", p>>}
<1>1. disk' = Written(F) /\ UNCHANGED <<chunk, dirty, tile>>
  BY DEF Leave
<1>2. disk' \in Disks
  BY <1>1, WrittenType DEF FilesInv
<1>3. TypeOK'
  BY <1>1, <1>2 DEF Leave, FilesInv, TypeOK
<1>4. disk'.chunks = WrittenChunks(F)
  BY <1>1 DEF Written
<1>5. CleanIsOnDisk'
  BY <1>1, <1>4 DEF FilesInv, CleanIsOnDisk, WrittenChunks
<1>6. DirtyIsLoaded' /\ HoppersHaveTiles'
  BY <1>1 DEF FilesInv, DirtyIsLoaded, HoppersHaveTiles
<1>7. QED
  BY <1>3, <1>5, <1>6 DEF FilesInv

LEMMA JoinKeeps == ASSUME FilesInv, NEW p \in Players, Join(p) PROVE FilesInv'
<1>1. TypeOK'
  <2>1. disk.players \in PlayerTables
    BY DiskForm DEF FilesInv, TypeOK
  <2>2. p \in DOMAIN disk.players => disk.players[p] \in SUBSET Items
    BY <2>1, PlayerTableForm
  <2>3. QED
    BY <2>2 DEF Join, FilesInv, TypeOK
<1>2. DirtyIsLoaded' /\ HoppersHaveTiles' /\ CleanIsOnDisk'
  BY DEF Join, FilesInv, DirtyIsLoaded, HoppersHaveTiles, CleanIsOnDisk
<1>3. QED
  BY <1>1, <1>2 DEF FilesInv

LEMMA LoadKeeps == ASSUME FilesInv, NEW q \in Positions, LoadChunk(q) PROVE FilesInv'
<1>1. disk.chunks \in ChunkTables /\ tile["hopper"] \in Tables /\ "hopper" \in Containers
  BY DiskForm DEF FilesInv, TypeOK, Containers
<1>2. CASE q \in DOMAIN disk.chunks
  <2> DEFINE b == disk.chunks[q]
             bare == b = "hopper" /\ q \notin DOMAIN tile["hopper"]
             more == Put(tile["hopper"], q, {})
  <2>1. /\ chunk' = [chunk EXCEPT ![q] = b] /\ dirty' = dirty
        /\ tile' = IF bare THEN [tile EXCEPT !["hopper"] = more] ELSE tile
    BY <1>2 DEF LoadChunk
  <2>2. b \in Blocks
    BY <1>1, <1>2, ChunkTableForm
  <2>3. more \in Tables /\ DOMAIN more = DOMAIN tile["hopper"] \cup {q}
    BY <1>1, TablePut
  <2> HIDE DEF more
  <2>4. tile' \in [Containers -> Tables]
    BY <2>1, <2>3 DEF FilesInv, TypeOK
  <2>5. TypeOK'
    BY <2>1, <2>2, <2>4 DEF LoadChunk, FilesInv, TypeOK
  <2>6. DOMAIN tile'["hopper"] = DOMAIN tile["hopper"] \cup (IF bare THEN {q} ELSE {})
    BY <1>1, <2>1, <2>3 DEF FilesInv, TypeOK
  <2>7. HoppersHaveTiles'
    BY <2>1, <2>6 DEF FilesInv, HoppersHaveTiles, TypeOK
  <2>8. DirtyIsLoaded' /\ CleanIsOnDisk'
    BY <1>2, <2>1, <2>2
       DEF LoadChunk, FilesInv, DirtyIsLoaded, CleanIsOnDisk, TypeOK, Blocks, Containers
  <2>9. QED
    BY <2>5, <2>7, <2>8 DEF FilesInv
<1>3. CASE q \notin DOMAIN disk.chunks
  <2>1. /\ chunk' = [chunk EXCEPT ![q] = "air"] /\ dirty' = dirty \cup {q}
        /\ tile' = tile /\ disk' = disk
    BY <1>3 DEF LoadChunk
  <2>2. TypeOK'
    BY <2>1 DEF LoadChunk, FilesInv, TypeOK, Blocks
  <2>3. DirtyIsLoaded' /\ CleanIsOnDisk' /\ HoppersHaveTiles'
    BY <2>1 DEF FilesInv, DirtyIsLoaded, CleanIsOnDisk, HoppersHaveTiles, TypeOK
  <2>4. QED
    BY <2>2, <2>3 DEF FilesInv
<1>4. QED
  BY <1>2, <1>3
-----------------------------------------------------------------------------
\* getOrCreateChest() and getOrCreateHopper() leave every table what it had.
LEMMA CreatedKeeps ==
  ASSUME NEW tl \in [Containers -> Tables], NEW k \in Containers, NEW q \in Positions
  PROVE  /\ Created(tl, k, q) \in [Containers -> Tables]
         /\ q \in DOMAIN Created(tl, k, q)[k]
         /\ \A m \in Containers : DOMAIN tl[m] \subseteq DOMAIN Created(tl, k, q)[m]
<1> DEFINE more == Put(tl[k], q, {})
<1>1. more \in Tables /\ DOMAIN more = DOMAIN tl[k] \cup {q}
  BY TablePut
<1>2. Created(tl, k, q) = IF q \in DOMAIN tl[k] THEN tl ELSE [tl EXCEPT ![k] = more]
  BY DEF Created
<1> HIDE DEF more
<1>3. QED
  BY <1>1, <1>2

\* A slot of a container that is there is written.
LEMMA SlotKeeps ==
  ASSUME NEW tl \in [Containers -> Tables], NEW k \in Containers,
         NEW q \in DOMAIN tl[k], NEW s \in SUBSET Items
  PROVE  /\ [tl EXCEPT ![k][q] = s] \in [Containers -> Tables]
         /\ \A m \in Containers : DOMAIN [tl EXCEPT ![k][q] = s][m] = DOMAIN tl[m]
<1> DEFINE t == [tl[k] EXCEPT ![q] = s]
<1>1. t \in Tables /\ DOMAIN t = DOMAIN tl[k]
  BY TableSet
<1>2. [tl EXCEPT ![k][q] = s] = [tl EXCEPT ![k] = t]
  OBVIOUS
<1> HIDE DEF t
<1>3. QED
  BY <1>1, <1>2

LEMMA ContentsAreItems ==
  ASSUME TypeOK, NEW k \in Containers, NEW q \in DOMAIN tile[k]
  PROVE  tile[k][q] \in SUBSET Items /\ q \in Positions
  BY TableForm DEF TypeOK

\* What play does to memory: blocks that change are noted, and no hopper is
\* without its tile.
PlayKeeps ==
  /\ inventory' \in [Players -> SUBSET Items]
  /\ chunk' \in [Positions -> Blocks \cup {"none"}]
  /\ tile' \in [Containers -> Tables]
  /\ dirty \subseteq dirty' /\ dirty' \subseteq Positions
  /\ ground' \cup unsettled' \cup spoilt' \cup lost' \subseteq Items
  /\ \A q \in Positions :
       /\ q \notin dirty' => chunk'[q] = chunk[q]
       /\ chunk'[q] # chunk[q] => chunk'[q] # "none"
       /\ q \in dirty' \ dirty => chunk'[q] # "none"
       /\ chunk'[q] = "hopper" => q \in DOMAIN tile'["hopper"]

LEMMA PlaceKeeps ==
  ASSUME FilesInv, NEW q \in Positions, NEW k \in Containers, Place(q, k)
  PROVE  PlayKeeps
<1>1. tile \in [Containers -> Tables] /\ tile' = Created(tile, k, q)
  BY DEF FilesInv, TypeOK, Place
<1>2. /\ tile' \in [Containers -> Tables] /\ q \in DOMAIN tile'[k]
      /\ \A m \in Containers : DOMAIN tile[m] \subseteq DOMAIN tile'[m]
  BY <1>1, CreatedKeeps
<1>3. QED
  BY <1>2 DEF Place, SetBlock, PlayKeeps, FilesInv, TypeOK, HoppersHaveTiles, Blocks,
              Containers

LEMMA BreakKeeps ==
  ASSUME FilesInv, NEW q \in Positions, Break(q) PROVE PlayKeeps
<1> DEFINE k == chunk[q]
           dropped == IF q \in DOMAIN tile[k] THEN tile[k][q] ELSE {}
           rest == Without(tile[k], q)
<1>1. k \in Containers /\ tile[k] \in Tables /\ k # "none"
  BY DEF Break, FilesInv, TypeOK, Containers
<1>2. /\ tile' = [tile EXCEPT ![k] = rest]
      /\ ground' = ground \cup dropped /\ unsettled' = unsettled \cup dropped
      /\ chunk' = [chunk EXCEPT ![q] = "air"] /\ dirty' = dirty \cup {q}
      /\ UNCHANGED <<inventory, spoilt, lost>>
  BY DEF Break, SetBlock
<1>3. dropped \subseteq Items
  BY <1>1, ContentsAreItems DEF FilesInv
<1>4. rest \in Tables /\ DOMAIN rest = DOMAIN tile[k] \ {q}
  BY <1>1, TableWithout
<1> HIDE DEF dropped, rest, k
<1>5. /\ tile' \in [Containers -> Tables]
      /\ \A m \in Containers : DOMAIN tile[m] \ {q} \subseteq DOMAIN tile'[m]
  BY <1>1, <1>2, <1>4 DEF FilesInv, TypeOK
<1>6. QED
  BY <1>2, <1>3, <1>5 DEF PlayKeeps, FilesInv, TypeOK, HoppersHaveTiles, Blocks, Containers

LEMMA ExplodeKeeps ==
  ASSUME FilesInv, NEW q \in Positions, Explode(q) PROVE PlayKeeps
  BY DEF Explode, SetBlock, PlayKeeps, FilesInv, TypeOK, HoppersHaveTiles, Blocks, Containers

LEMMA StoreKeeps ==
  ASSUME FilesInv, NEW p \in Players, NEW q \in Positions, NEW i \in Items,
         Store(p, q, i), unsettled' = unsettled \cup {i}
  PROVE  PlayKeeps
<1> DEFINE k == chunk[q]
           made == Created(tile, k, q)
           s == made[k][q] \cup {i}
<1>1. k \in Containers /\ tile \in [Containers -> Tables]
  BY DEF Store, FilesInv, TypeOK
<1>2. /\ made \in [Containers -> Tables] /\ q \in DOMAIN made[k]
      /\ \A m \in Containers : DOMAIN tile[m] \subseteq DOMAIN made[m]
  BY <1>1, CreatedKeeps
<1>3. tile' = [made EXCEPT ![k][q] = s]
  BY DEF Store
<1> HIDE DEF made, k
<1>4. s \in SUBSET Items
  BY <1>1, <1>2, TableForm
<1> HIDE DEF s
<1>5. /\ tile' \in [Containers -> Tables]
      /\ \A m \in Containers : DOMAIN tile[m] \subseteq DOMAIN tile'[m]
  BY <1>1, <1>2, <1>3, <1>4, SlotKeeps
<1>6. QED
  BY <1>5, SMTT(30) DEF Store, PlayKeeps, FilesInv, TypeOK, HoppersHaveTiles, Containers

LEMMA AbsorbKeeps ==
  ASSUME FilesInv, NEW q \in Positions, NEW i \in Items,
         Absorb(q, i), unsettled' = unsettled \cup {i}
  PROVE  PlayKeeps
<1> DEFINE made == Created(tile, "hopper", q)
           s == made["hopper"][q] \cup {i}
<1>1. "hopper" \in Containers /\ tile \in [Containers -> Tables]
  BY DEF FilesInv, TypeOK, Containers
<1>2. /\ made \in [Containers -> Tables] /\ q \in DOMAIN made["hopper"]
      /\ \A m \in Containers : DOMAIN tile[m] \subseteq DOMAIN made[m]
  BY <1>1, CreatedKeeps
<1>3. tile' = [made EXCEPT !["hopper"][q] = s]
  BY DEF Absorb
<1> HIDE DEF made
<1>4. s \in SUBSET Items
  BY <1>1, <1>2, TableForm
<1> HIDE DEF s
<1>5. /\ tile' \in [Containers -> Tables]
      /\ \A m \in Containers : DOMAIN tile[m] \subseteq DOMAIN tile'[m]
  BY <1>1, <1>2, <1>3, <1>4, SlotKeeps
<1>6. QED
  BY <1>5, SMTT(30) DEF Absorb, PlayKeeps, FilesInv, TypeOK, HoppersHaveTiles, Containers

LEMMA TakeKeeps ==
  ASSUME FilesInv, NEW p \in Players, NEW q \in Positions, NEW i \in Items,
         Take(p, q, i), unsettled' = unsettled \cup {i}
  PROVE  PlayKeeps
<1> DEFINE k == chunk[q]
           s == tile[k][q] \ {i}
<1>1. k \in Containers /\ tile \in [Containers -> Tables] /\ q \in DOMAIN tile[k]
  BY DEF Take, FilesInv, TypeOK
<1>2. tile' = [tile EXCEPT ![k][q] = s]
  BY DEF Take
<1>3. s \in SUBSET Items
  BY <1>1, ContentsAreItems DEF FilesInv
<1> HIDE DEF s, k
<1>4. /\ tile' \in [Containers -> Tables]
      /\ \A m \in Containers : DOMAIN tile[m] \subseteq DOMAIN tile'[m]
  BY <1>1, <1>2, <1>3, SlotKeeps
<1>5. QED
  BY <1>4, SMTT(30) DEF Take, PlayKeeps, FilesInv, TypeOK, HoppersHaveTiles, Containers

LEMMA HopperMoveKeeps ==
  ASSUME FilesInv, NEW q \in Positions, NEW r \in Positions, NEW i \in Items,
         HopperMove(q, r, i), unsettled' = unsettled \cup {i}
  PROVE  PlayKeeps
<1> DEFINE k == chunk[q]
           m == chunk[r]
           taken == [tile EXCEPT ![k][q] = tile[k][q] \ {i}]
           made == Created(taken, m, r)
           s == made[m][r] \cup {i}
<1>1. /\ k \in Containers /\ m \in Containers /\ tile \in [Containers -> Tables]
      /\ q \in DOMAIN tile[k]
  BY DEF HopperMove, FilesInv, TypeOK
<1>2. tile' = [made EXCEPT ![m][r] = s]
  BY DEF HopperMove
<1>3. tile[k][q] \ {i} \in SUBSET Items
  BY <1>1, ContentsAreItems DEF FilesInv
<1> HIDE DEF k, m
<1>4. /\ taken \in [Containers -> Tables]
      /\ \A n \in Containers : DOMAIN taken[n] = DOMAIN tile[n]
  BY <1>1, <1>3, SlotKeeps
<1> HIDE DEF taken
<1>5. /\ made \in [Containers -> Tables] /\ r \in DOMAIN made[m]
      /\ \A n \in Containers : DOMAIN taken[n] \subseteq DOMAIN made[n]
  BY <1>1, <1>4, CreatedKeeps
<1> HIDE DEF made
<1>6. s \in SUBSET Items
  BY <1>1, <1>5, TableForm
<1> HIDE DEF s
<1>7. /\ tile' \in [Containers -> Tables]
      /\ \A n \in Containers : DOMAIN made[n] = DOMAIN tile'[n]
  BY <1>1, <1>2, <1>5, <1>6, SlotKeeps, ZenonT(30)
<1>8. \A n \in Containers : DOMAIN tile[n] \subseteq DOMAIN tile'[n]
  BY <1>4, <1>5, <1>7
<1>9. QED
  BY <1>7, <1>8 DEF HopperMove, PlayKeeps, FilesInv, TypeOK, HoppersHaveTiles, Containers

LEMMA HandsKeep ==
  ASSUME FilesInv, NEW p \in Players, NEW i \in Items, Drop(p, i) \/ PickUp(p, i),
         unsettled' = unsettled \cup {i}
  PROVE  PlayKeeps
  BY DEF Drop, PickUp, PlayKeeps, FilesInv, TypeOK, HoppersHaveTiles

LEMMA DespawnKeeps ==
  ASSUME FilesInv, NEW i \in Items, Despawn(i), unsettled' = unsettled \cup {i}
  PROVE  PlayKeeps
  BY DEF Despawn, PlayKeeps, FilesInv, TypeOK, HoppersHaveTiles
-----------------------------------------------------------------------------
LEMMA PlayStep ==
  ASSUME FilesInv, acts < MaxActs, Play, acts' = acts + 1, UNCHANGED disk
  PROVE  FilesInv'
<1>1. PlayKeeps
  BY PlaceKeeps, BreakKeeps, ExplodeKeeps, StoreKeeps, TakeKeeps, AbsorbKeeps,
     HopperMoveKeeps, HandsKeep, DespawnKeeps
     DEF Play
<1>2. online' = online
  BY ZenonT(30) DEF Play, Place, Break, Explode, Store, Take, Absorb, HopperMove, Drop,
                  PickUp, Despawn
<1>3. acts' \in 0 .. MaxActs
  BY ConstantsAssumption DEF FilesInv, TypeOK
<1>4. TypeOK'
  BY <1>1, <1>2, <1>3 DEF PlayKeeps, FilesInv, TypeOK
<1>5. DirtyIsLoaded' /\ CleanIsOnDisk' /\ HoppersHaveTiles'
  BY <1>1 DEF PlayKeeps, FilesInv, TypeOK, DirtyIsLoaded, CleanIsOnDisk, HoppersHaveTiles
<1>6. QED
  BY <1>4, <1>5 DEF FilesInv

LEMMA FilesInit == Init => FilesInv
<1> SUFFICES ASSUME Init PROVE FilesInv
  OBVIOUS
<1>1. PICK built \in [Positions -> Blocks] :
        disk = [players |-> [p \in {} |-> {}], chunks |-> built,
                tiles |-> [k \in Containers |->
                             [q \in {q \in Positions : built[q] = k} |-> {}]]]
  BY DEF Init
<1>2. [p \in {} |-> {}] \in PlayerTables /\ built \in ChunkTables
  BY PlayerTableForm, ChunkTableForm
<1>3. \A k \in Containers : [q \in {q \in Positions : built[q] = k} |-> {}] \in Tables
  BY TableForm
<1>4. disk \in Disks /\ disk.tiles \in [Containers -> Tables]
  BY <1>1, <1>2, <1>3, DiskForm
<1>5. TypeOK
  BY <1>4, ConstantsAssumption DEF Init, TypeOK
<1>6. QED
  BY <1>5 DEF Init, FilesInv, DirtyIsLoaded, CleanIsOnDisk, HoppersHaveTiles

LEMMA FilesStep == FilesInv /\ [Next]_vars => FilesInv'
<1>1. CASE Next
  BY <1>1, PlayStep, JoinKeeps, LeaveKeeps, LoadKeeps, AutosaveKeeps, RestartKeeps,
     CrashKeeps DEF Next
<1>2. CASE UNCHANGED vars
  BY <1>2 DEF vars, memory, FilesInv, TypeOK, DirtyIsLoaded, CleanIsOnDisk,
     HoppersHaveTiles
<1>3. QED
  BY <1>1, <1>2

LEMMA InvHolds == Spec => []FilesInv
BY FilesInit, FilesStep, PTL DEF Spec

\* Memory and files have their types, through any crash.
THEOREM TypeCorrect == Spec => []TypeOK
BY InvHolds, PTL DEF FilesInv

\* No edit of a chunk is left out of all later saves, for any world and any
\* failures of its files.
THEOREM CleanStaysOnDisk == Spec => []CleanIsOnDisk
BY InvHolds, PTL DEF FilesInv

\* A hopper in a loaded chunk has the tile by which it is ticked, whatever the
\* table on disk had lost.
THEOREM HoppersKeepTiles == Spec => []HoppersHaveTiles
BY InvHolds, PTL DEF FilesInv
-----------------------------------------------------------------------------
(***************************************************************************)
(* Items.  Each is in one place, and what has not moved since the last save*)
(* is in the same place on disk: so it does not matter which of the files  *)
(* a crash leaves new and which old.                                       *)
(***************************************************************************)
Has(t, x, i) == x \in DOMAIN t /\ i \in t[x]

\* Who carries an item, or will once he has joined; whose file has it; which
\* containers have it.
Hands(on, inv, ps, i) == {p \in Players : IF p \in on THEN i \in inv[p] ELSE Has(ps, p, i)}
Filed(ps, i) == {p \in Players : Has(ps, p, i)}
Spots(tl, i) == {x \in Containers \X Positions : Has(tl[x[1]], x[2], i)}

\* One place and no other.
Alone(H, T, lying, gone) ==
  \/ /\ \E p \in H : H = {p}
     /\ T = {} /\ ~lying /\ ~gone
  \/ /\ \E x \in T : T = {x}
     /\ H = {} /\ ~lying /\ ~gone
  \/ /\ H = {} /\ T = {}
     /\ (lying \/ gone) /\ ~(lying /\ gone)

Settled ==
  \A i \in Items \ (spoilt \cup unsettled) :
    /\ Filed(disk.players, i) = Hands(online, inventory, disk.players, i)
    /\ Spots(disk.tiles, i) = Spots(tile, i)

Single ==
  \A i \in Items \ spoilt :
    Alone(Hands(online, inventory, disk.players, i), Spots(tile, i), i \in ground, i \in lost)

SurviveInv == FilesInv /\ Settled /\ Single

\* Being alone is being in one place.
LEMMA AloneIsOnePlace ==
  ASSUME TypeOK, NEW i,
         Alone(Hands(online, inventory, disk.players, i), Spots(tile, i), i \in ground, i \in lost)
  PROVE  Cardinality(Places(i)) = 1
<1> DEFINE H == Hands(online, inventory, disk.players, i)
           T == Spots(tile, i)
<1>1. T = UNION {{<<k, q>> : q \in {q \in DOMAIN tile[k] : i \in tile[k][q]}} : k \in Containers}
  <2>1. \A k \in Containers : DOMAIN tile[k] \subseteq Positions
    BY TableForm DEF TypeOK
  <2> QED
    BY <2>1 DEF Spots, Has
<1> DEFINE A == {<<"player", p>> : p \in
                   {p \in Players : IF p \in online THEN i \in inventory[p]
                                    ELSE p \in DOMAIN disk.players /\ i \in disk.players[p]}}
           B == UNION {{<<k, q>> : q \in {q \in DOMAIN tile[k] : i \in tile[k][q]}} :
                         k \in Containers}
           C == IF i \in ground THEN {<<"ground", None>>} ELSE {}
           D == IF i \in lost THEN {<<"lost", None>>} ELSE {}
<1>2. Places(i) = A \cup B \cup C \cup D /\ A = {<<"player", p>> : p \in H} /\ B = T
  <2>1. H = {p \in Players : IF p \in online THEN i \in inventory[p]
                            ELSE p \in DOMAIN disk.players /\ i \in disk.players[p]}
    BY DEF Hands, Has
  <2>2. A = {<<"player", p>> : p \in H}
    BY <2>1, Zenon
  <2>3. Places(i) = A \cup B \cup C \cup D
    BY Zenon DEF Places
  <2> QED
    BY <1>1, <2>2, <2>3, Zenon
<1> HIDE DEF H, T, A, B
<1>3. \E x : Places(i) = {x}
  <2>1. CASE (\E p \in H : H = {p}) /\ T = {} /\ i \notin ground /\ i \notin lost
    <3>1. PICK p \in H : H = {p}
      BY <2>1
    <3>2. Places(i) = {<<"player", p>>}
      BY <1>2, <2>1, <3>1
    <3> QED
      BY <3>2
  <2>2. CASE (\E x \in T : T = {x}) /\ H = {} /\ i \notin ground /\ i \notin lost
    <3>1. PICK x \in T : T = {x}
      BY <2>2
    <3>2. Places(i) = {x}
      BY <1>2, <2>2, <3>1
    <3> QED
      BY <3>2
  <2>3. CASE H = {} /\ T = {} /\ i \in ground /\ i \notin lost
    <3>1. Places(i) = {<<"ground", None>>}
      BY <1>2, <2>3
    <3> QED
      BY <3>1
  <2>4. CASE H = {} /\ T = {} /\ i \notin ground /\ i \in lost
    <3>1. Places(i) = {<<"lost", None>>}
      BY <1>2, <2>4
    <3> QED
      BY <3>1
  <2> QED
    BY <2>1, <2>2, <2>3, <2>4 DEF Alone, H, T
<1>4. QED
  BY <1>3, FS_Singleton

\* The helpers on tables, told by where an item is.
LEMMA CreatedSpots ==
  ASSUME NEW tl \in [Containers -> Tables], NEW k \in Containers, NEW q \in Positions, NEW i
  PROVE  Spots(Created(tl, k, q), i) = Spots(tl, i)
<1> DEFINE more == Put(tl[k], q, {})
<1>1. Created(tl, k, q) = IF q \in DOMAIN tl[k] THEN tl ELSE [tl EXCEPT ![k] = more]
  BY DEF Created
<1>2. q \notin DOMAIN tl[k] => \A r : Has(more, r, i) <=> Has(tl[k], r, i)
  BY DEF Put, Has
<1> HIDE DEF more
<1>3. \A m \in Containers, r \in Positions :
        Has(Created(tl, k, q)[m], r, i) <=> Has(tl[m], r, i)
  BY <1>1, <1>2
<1>4. QED
  BY <1>3 DEF Spots

WithSlot(tl, k, q, s) == [tl EXCEPT ![k][q] = s]

LEMMA SlotSpots ==
  ASSUME NEW tl \in [Containers -> Tables], NEW k \in Containers,
         NEW q \in DOMAIN tl[k], NEW s, NEW i
  PROVE  /\ i \in s => Spots(WithSlot(tl, k, q, s), i) = Spots(tl, i) \cup {<<k, q>>}
         /\ i \notin s => Spots(WithSlot(tl, k, q, s), i) = Spots(tl, i) \ {<<k, q>>}
<1> DEFINE t == WithSlot(tl, k, q, s)
<1>1. q \in Positions
  BY TableForm
<1>2. \A m \in Containers, r \in Positions :
        Has(t[m], r, i) <=> IF m = k /\ r = q THEN i \in s ELSE Has(tl[m], r, i)
  BY DEF Has, WithSlot
<1> HIDE DEF t
<1>3. \A x \in Containers \X Positions :
        Has(t[x[1]], x[2], i) <=> IF x = <<k, q>> THEN i \in s ELSE Has(tl[x[1]], x[2], i)
  BY <1>2
<1>4. <<k, q>> \in Containers \X Positions
  BY <1>1
<1>5. /\ i \in s => Spots(t, i) = Spots(tl, i) \cup {<<k, q>>}
      /\ i \notin s => Spots(t, i) = Spots(tl, i) \ {<<k, q>>}
  BY <1>3, <1>4 DEF Spots
<1>6. QED
  BY <1>5 DEF t

WithoutTile(tl, k, q) == [tl EXCEPT ![k] = Without(@, q)]

LEMMA WithoutSpots ==
  ASSUME NEW tl \in [Containers -> Tables], NEW k \in Containers, NEW q \in Positions, NEW i
  PROVE  Spots(WithoutTile(tl, k, q), i) = Spots(tl, i) \ {<<k, q>>}
<1> DEFINE rest == Without(tl[k], q)
           t == WithoutTile(tl, k, q)
<1>1. t = [tl EXCEPT ![k] = rest]
  BY DEF WithoutTile
<1>2. \A r : Has(rest, r, i) <=> r # q /\ Has(tl[k], r, i)
  BY DEF Has, Without, Restrict
<1> HIDE DEF rest, t
<1>3. \A m \in Containers, r \in Positions :
        Has(t[m], r, i) <=> ~(m = k /\ r = q) /\ Has(tl[m], r, i)
  BY <1>1, <1>2
<1>4. \A x \in Containers \X Positions :
        Has(t[x[1]], x[2], i) <=> x # <<k, q>> /\ Has(tl[x[1]], x[2], i)
  BY <1>3
<1>5. Spots(t, i) = Spots(tl, i) \ {<<k, q>>}
  BY <1>4 DEF Spots
<1>6. QED
  BY <1>5 DEF t
-----------------------------------------------------------------------------
\* A save of some of the files leaves an item where it is, if its place on disk
\* was its place, or all files that can have it are written.
LEMMA WrittenAsWas ==
  ASSUME TypeOK, NEW F, NEW i \in Items,
         \A p \in Players : <<"player", p>> \in F => p \in online,
         \/ /\ Filed(disk.players, i) = Hands(online, inventory, disk.players, i)
            /\ Spots(disk.tiles, i) = Spots(tile, i)
         \/ /\ \A p \in online : <<"player", p>> \in F
            /\ \A k \in Containers : <<"table", k>> \in F
  PROVE  /\ Filed(Written(F).players, i) = Hands(online, inventory, disk.players, i)
         /\ Spots(Written(F).tiles, i) = Spots(tile, i)
         /\ Hands(online, inventory, Written(F).players, i)
              = Hands(online, inventory, disk.players, i)
<1> DEFINE ps == WrittenPlayers(F)
           tl == WrittenTables(F)
<1>1. Written(F).players = ps /\ Written(F).tiles = tl
  BY DEF Written
<1>2. \A p \in Players :
        Has(ps, p, i) <=> IF <<"player", p>> \in F THEN i \in inventory[p]
                          ELSE Has(disk.players, p, i)
  BY DEF WrittenPlayers, Has
<1>3. \A k \in Containers, q \in Positions :
        Has(tl[k], q, i) <=> IF <<"table", k>> \in F THEN Has(tile[k], q, i)
                             ELSE Has(disk.tiles[k], q, i)
  BY DEF WrittenTables
<1> HIDE DEF ps, tl
<1>4. CASE /\ Filed(disk.players, i) = Hands(online, inventory, disk.players, i)
           /\ Spots(disk.tiles, i) = Spots(tile, i)
  <2>1. \A p \in Players :
          Has(disk.players, p, i) <=> IF p \in online THEN i \in inventory[p]
                                      ELSE Has(disk.players, p, i)
    BY <1>4 DEF Filed, Hands
  <2>2. \A k \in Containers, q \in Positions :
          Has(disk.tiles[k], q, i) <=> Has(tile[k], q, i)
    <3> TAKE k \in Containers, q \in Positions
    <3>1. <<k, q>> \in Spots(disk.tiles, i) <=> <<k, q>> \in Spots(tile, i)
      BY <1>4
    <3> QED
      BY <3>1 DEF Spots
  <2>3. Filed(ps, i) = Hands(online, inventory, disk.players, i)
    BY <1>2, <2>1 DEF Filed, Hands
  <2>4. Spots(tl, i) = Spots(tile, i)
    BY <1>3, <2>2 DEF Spots
  <2>5. Hands(online, inventory, ps, i) = Hands(online, inventory, disk.players, i)
    BY <1>2, <2>1 DEF Hands
  <2> QED
    BY <1>1, <2>3, <2>4, <2>5
<1>5. CASE /\ \A p \in online : <<"player", p>> \in F
           /\ \A k \in Containers : <<"table", k>> \in F
  <2>1. Filed(ps, i) = Hands(online, inventory, disk.players, i)
    BY <1>2, <1>5 DEF Filed, Hands
  <2>2. Spots(tl, i) = Spots(tile, i)
    BY <1>3, <1>5 DEF Spots
  <2>3. Hands(online, inventory, ps, i) = Hands(online, inventory, disk.players, i)
    BY <1>2, <1>5 DEF Hands
  <2> QED
    BY <1>1, <2>1, <2>2, <2>3
<1>6. QED
  BY <1>4, <1>5

\* Nor does it matter to an item that was not to be in a file that it is cut off.
LEMMA CutAsWas ==
  ASSUME TypeOK, NEW d \in Disks, NEW f \in PlayerFiles \cup ChunkFiles \cup TableFiles,
         NEW i \in Items \ ItemsOf(f), NEW e \in Cut(d, f),
         \A p \in Players : f = <<"player", p>> => p \in online,
         Filed(d.players, i) = Hands(online, inventory, disk.players, i),
         Spots(d.tiles, i) = Spots(tile, i)
  PROVE  /\ Filed(e.players, i) = Hands(online, inventory, disk.players, i)
         /\ Spots(e.tiles, i) = Spots(tile, i)
<1>1. /\ d = [players |-> d.players, chunks |-> d.chunks, tiles |-> d.tiles]
      /\ d.tiles \in [Containers -> Tables]
  BY DiskForm
<1>2. CASE f \in PlayerFiles
  <2>1. PICK p \in Players : f = <<"player", p>>
    BY <1>2 DEF PlayerFiles
  <2>2. f[2] = p /\ i \notin inventory[p] /\ p \in online
    <3>1. f[2] = p
      BY <2>1
    <3>2. ItemsOf(f) = inventory[f[2]]
      BY <1>2, <2>1 DEF ItemsOf, ChunkFiles
    <3> QED
      BY <2>1, <3>1, <3>2
  <2>3. PICK ps \in CutPlayers(d, p) : e = [d EXCEPT !.players = ps]
    <3>1. f \notin ChunkFiles
      BY <2>1 DEF ChunkFiles
    <3>2. \A x \in Cut(d, f) : \E ps \in CutPlayers(d, f[2]) : x = [d EXCEPT !.players = ps]
      BY <1>2, <3>1 DEF Cut
    <3> QED
      BY <2>2, <3>2
  <2>4. e.players = ps /\ e.tiles = d.tiles
    BY <1>1, <2>3
  <2>5. ~Has(d.players, p, i)
    <3>1. p \notin Hands(online, inventory, disk.players, i)
      BY <2>2 DEF Hands
    <3> QED
      BY <3>1 DEF Filed
  <2>6. \A r \in Players : Has(ps, r, i) <=> Has(d.players, r, i)
    <3>1. CASE ps = Without(d.players, p)
      BY <2>5, <3>1 DEF Has, Without, Restrict
    <3>2. ASSUME NEW part \in SUBSET inventory[p], ps = Put(d.players, p, part)
          PROVE  \A r \in Players : Has(ps, r, i) <=> Has(d.players, r, i)
      BY <2>2, <2>5, <3>2 DEF Has, Put
    <3> QED
      BY <2>3, <3>1, <3>2 DEF CutPlayers
  <2> QED
    BY <2>4, <2>6 DEF Filed
<1>3. CASE f \in ChunkFiles
  <2>1. f \notin PlayerFiles
    BY <1>3 DEF PlayerFiles, ChunkFiles
  <2>2. e = [d EXCEPT !.chunks = CutChunks(d, f[2])]
    BY <1>3, <2>1 DEF Cut
  <2>3. e.players = d.players /\ e.tiles = d.tiles
    BY <1>1, <2>2
  <2> QED
    BY <2>3
<1>4. CASE f \in TableFiles
  <2>1. PICK k \in Containers : f = <<"table", k>>
    BY <1>4 DEF TableFiles
  <2>2. f[2] = k /\ f \notin PlayerFiles /\ f \notin ChunkFiles
    BY <2>1 DEF PlayerFiles, ChunkFiles
  <2>3. PICK t \in CutTables(tile[k]) : e = [d EXCEPT !.tiles[k] = t]
    BY <2>2 DEF Cut
  <2>4. e.players = d.players /\ e.tiles = [d.tiles EXCEPT ![k] = t]
    BY <1>1, <2>3
  <2>5. \A q : ~Has(tile[k], q, i)
    BY <2>2 DEF ItemsOf, Has
  <2>6. \A q \in DOMAIN t :
          \/ t[q] = {}
          \/ q \in DOMAIN tile[k] /\ t[q] \subseteq tile[k][q]
    BY <2>3 DEF CutTables
  <2>7. \A q : ~Has(t, q, i)
    BY <2>5, <2>6 DEF Has
  <2>8. \A q \in Positions : ~Has(d.tiles[k], q, i)
    <3> TAKE q \in Positions
    <3>1. <<k, q>> \notin Spots(tile, i)
      BY <2>5 DEF Spots
    <3>2. <<k, q>> \notin Spots(d.tiles, i)
      BY <3>1
    <3> QED
      BY <3>2 DEF Spots
  <2>9. \A m \in Containers, q \in Positions : Has(e.tiles[m], q, i) <=> Has(d.tiles[m], q, i)
    BY <1>1, <2>4, <2>7, <2>8
  <2>10. Spots(e.tiles, i) = Spots(d.tiles, i)
    BY <2>9 DEF Spots
  <2> QED
    BY <2>4, <2>10
<1>5. QED
  BY <1>2, <1>3, <1>4

\* A start finds what is on disk, and nothing lies about.
LEMMA StartSurvives ==
  ASSUME SurviveInv, NEW d, StartOn(d), spoilt \subseteq spoilt',
         \A i \in Items \ spoilt' :
           /\ Filed(d.players, i) = Hands(online, inventory, disk.players, i)
           /\ Spots(d.tiles, i) = Spots(tile, i)
  PROVE  Settled' /\ Single'
<1>1. /\ disk' = d /\ tile' = d.tiles /\ online' = {} /\ ground' = {}
      /\ lost' = lost \cup ground
  BY DEF StartOn
<1>2. \A i : Hands(online', inventory', disk'.players, i) = Filed(d.players, i)
  BY <1>1 DEF Hands, Filed
<1>3. Settled'
  BY <1>1, <1>2 DEF Settled
<1>4. ASSUME NEW i \in Items \ spoilt'
      PROVE  Alone(Hands(online', inventory', disk'.players, i), Spots(tile', i),
                   i \in ground', i \in lost')
  <2> DEFINE H == Hands(online, inventory, disk.players, i)
             T == Spots(tile, i)
  <2>1. Hands(online', inventory', disk'.players, i) = H /\ Spots(tile', i) = T
    BY <1>1, <1>2
  <2>2. Alone(H, T, i \in ground, i \in lost)
    BY DEF SurviveInv, Single
  <2>3. i \notin ground' /\ (i \in lost' <=> i \in lost \/ i \in ground)
    BY <1>1
  <2> HIDE DEF H, T
  <2>4. Alone(H, T, i \in ground', i \in lost')
    BY <2>2, <2>3 DEF Alone
  <2> QED
    BY <2>1, <2>4
<1>5. QED
  BY <1>3, <1>4 DEF Single

\* Only the files of players who are online are written.
LEMMA OwnFiles ==
  ASSUME NEW W \in Underway, NEW p \in Players, <<"player", p>> \in W
  PROVE  p \in online
  BY DEF Underway, ToWrite, SaveAll, TableFiles

LEMMA AllFiles ==
  ASSUME NEW force \in BOOLEAN
  PROVE  /\ \A p \in online : <<"player", p>> \in ToWrite(force)
         /\ \A k \in Containers : <<"table", k>> \in ToWrite(force)
         /\ \A p \in Players : <<"player", p>> \in ToWrite(force) => p \in online
  BY DEF ToWrite, SaveAll, TableFiles

LEMMA RestartSurvives == ASSUME SurviveInv, Restart PROVE Settled' /\ Single'
<1>1. TypeOK
  BY DEF SurviveInv, FilesInv
<1>2. \A i \in Items :
        /\ Filed(Written(ToWrite(TRUE)).players, i)
             = Hands(online, inventory, disk.players, i)
        /\ Spots(Written(ToWrite(TRUE)).tiles, i) = Spots(tile, i)
  BY <1>1, AllFiles, WrittenAsWas
<1>3. QED
  BY <1>2, StartSurvives DEF Restart

LEMMA CrashSurvives == ASSUME SurviveInv, Crash PROVE Settled' /\ Single'
<1>1. PICK W \in Underway : \E S \in Progress(W) :
        \/ /\ StartOn(Written(S))
           /\ spoilt' = spoilt \cup unsettled
        \/ \E f \in W \ S :
             /\ S \cup {f} \in Progress(W)
             /\ \E d \in Cut(Written(S), f) : StartOn(d)
             /\ spoilt' = spoilt \cup unsettled \cup ItemsOf(f)
  BY DEF Crash
<1>2. PICK S \in Progress(W) :
        \/ /\ StartOn(Written(S))
           /\ spoilt' = spoilt \cup unsettled
        \/ \E f \in W \ S :
             /\ \E d \in Cut(Written(S), f) : StartOn(d)
             /\ spoilt' = spoilt \cup unsettled \cup ItemsOf(f)
  BY <1>1
<1>3. S \subseteq W /\ TypeOK /\ DirtyIsLoaded
  BY DEF Progress, SurviveInv, FilesInv
<1>4. \A i \in Items \ (spoilt \cup unsettled) :
        /\ Filed(Written(S).players, i) = Hands(online, inventory, disk.players, i)
        /\ Spots(Written(S).tiles, i) = Spots(tile, i)
  <2>1. \A p \in Players : <<"player", p>> \in S => p \in online
    BY <1>3, OwnFiles
  <2> QED
    BY <1>3, <2>1, WrittenAsWas DEF SurviveInv, Settled
<1>5. CASE StartOn(Written(S)) /\ spoilt' = spoilt \cup unsettled
  BY <1>4, <1>5, StartSurvives
<1>6. CASE \E f \in W \ S :
             /\ \E d \in Cut(Written(S), f) : StartOn(d)
             /\ spoilt' = spoilt \cup unsettled \cup ItemsOf(f)
  <2>1. PICK f \in W \ S :
          /\ \E d \in Cut(Written(S), f) : StartOn(d)
          /\ spoilt' = spoilt \cup unsettled \cup ItemsOf(f)
    BY <1>6
  <2>2. PICK d \in Cut(Written(S), f) : StartOn(d)
    BY <2>1
  <2>3. /\ f \in PlayerFiles \cup ChunkFiles \cup TableFiles
        /\ Written(S) \in Disks
        /\ \A p \in Players : f = <<"player", p>> => p \in online
    BY <1>3, ToWriteFiles, WrittenType, OwnFiles
  <2>4. ASSUME NEW i \in Items \ spoilt'
        PROVE  /\ Filed(d.players, i) = Hands(online, inventory, disk.players, i)
               /\ Spots(d.tiles, i) = Spots(tile, i)
    <3>1. i \in Items \ ItemsOf(f) /\ i \in Items \ (spoilt \cup unsettled)
      BY <2>1
    <3>2. /\ Filed(Written(S).players, i) = Hands(online, inventory, disk.players, i)
          /\ Spots(Written(S).tiles, i) = Spots(tile, i)
      BY <1>4, <3>1
    <3> QED
      BY <1>3, <2>2, <2>3, <3>1, <3>2, CutAsWas
  <2>5. spoilt \subseteq spoilt'
    BY <2>1
  <2> QED
    BY <2>2, <2>4, <2>5, StartSurvives
<1>7. QED
  BY <1>2, <1>5, <1>6

\* What was saved is settled.
LEMMA AutosaveSurvives == ASSUME SurviveInv, Autosave PROVE Settled' /\ Single'
<1>1. PICK bad \in SUBSET dirty, gone \in SUBSET dirty :
        LET d == Written(ToWrite(FALSE) \ ({"chunk"} \X bad))
        IN /\ disk' = [d EXCEPT !.chunks = Restrict(@, DOMAIN @ \ (gone \cap bad))]
           /\ dirty' = bad
           /\ unsettled' = {}
           /\ UNCHANGED <<online, inventory, chunk, tile, ground, spoilt, lost, acts>>
  BY DEF Autosave
<1> DEFINE F == ToWrite(FALSE) \ ({"chunk"} \X bad)
<1>2. disk'.players = Written(F).players /\ disk'.tiles = Written(F).tiles
  BY <1>1 DEF Written
<1>3. /\ \A p \in Players : <<"player", p>> \in F => p \in online
      /\ \A p \in online : <<"player", p>> \in F
      /\ \A k \in Containers : <<"table", k>> \in F
  <2>1. \A x : <<"player", x>> \notin {"chunk"} \X bad /\ <<"table", x>> \notin {"chunk"} \X bad
    OBVIOUS
  <2> QED
    BY <2>1, AllFiles
<1> HIDE DEF F
<1>4. \A i \in Items :
        /\ Filed(disk'.players, i) = Hands(online, inventory, disk.players, i)
        /\ Spots(disk'.tiles, i) = Spots(tile, i)
        /\ Hands(online, inventory, disk'.players, i)
             = Hands(online, inventory, disk.players, i)
  BY <1>2, <1>3, WrittenAsWas DEF SurviveInv, FilesInv
<1>5. QED
  BY <1>1, <1>4 DEF SurviveInv, Settled, Single

LEMMA LeaveSurvives == ASSUME SurviveInv, NEW p \in Players, Leave(p) PROVE Settled' /\ Single'
<1> DEFINE F == {<<"player", p>>}
<1>1. /\ p \in online /\ disk' = Written(F) /\ online' = online \ {p}
      /\ inventory' = [inventory EXCEPT ![p] = {}]
      /\ UNCHANGED <<tile, ground, unsettled, spoilt, lost>>
      /\ TypeOK
  BY DEF Leave, SurviveInv, FilesInv
<1>2. disk'.players = WrittenPlayers(F) /\ disk'.tiles = WrittenTables(F)
  BY <1>1 DEF Written
<1>3. \A i : Hands(online', inventory', disk'.players, i)
             = Hands(online, inventory, disk.players, i)
  BY <1>1, <1>2 DEF Hands, Has, WrittenPlayers, TypeOK
<1>4. \A i : Spots(disk'.tiles, i) = Spots(disk.tiles, i)
  <2>1. \A k \in Containers : disk'.tiles[k] = disk.tiles[k]
    BY <1>2 DEF WrittenTables
  <2> QED
    BY <2>1 DEF Spots
<1>5. \A i \in Items \ (spoilt \cup unsettled) :
        Filed(disk'.players, i) = Hands(online, inventory, disk.players, i)
  <2> TAKE i \in Items \ (spoilt \cup unsettled)
  <2>1. /\ Filed(disk.players, i) = Hands(online, inventory, disk.players, i)
        /\ Spots(disk.tiles, i) = Spots(tile, i)
    BY DEF SurviveInv, Settled
  <2>2. \A r \in Players : <<"player", r>> \in F => r \in online
    BY <1>1
  <2> QED
    BY <1>1, <2>1, <2>2, WrittenAsWas
<1>6. Settled' /\ Single'
  BY <1>1, <1>3, <1>4, <1>5 DEF SurviveInv, Settled, Single
<1>7. QED
  BY <1>6

LEMMA JoinSurvives == ASSUME SurviveInv, NEW p \in Players, Join(p) PROVE Settled' /\ Single'
<1>1. \A i : Hands(online', inventory', disk'.players, i)
             = Hands(online, inventory, disk.players, i)
  BY DEF Join, Hands, Has, SurviveInv, FilesInv, TypeOK
<1>2. UNCHANGED <<disk, tile, ground, unsettled, spoilt, lost>>
  BY DEF Join
<1>3. QED
  BY <1>1, <1>2 DEF SurviveInv, Settled, Single

LEMMA LoadSurvives ==
  ASSUME SurviveInv, NEW q \in Positions, LoadChunk(q) PROVE Settled' /\ Single'
<1>1. UNCHANGED <<online, inventory, disk, ground, unsettled, spoilt, lost>>
  BY DEF LoadChunk
<1>2. /\ tile \in [Containers -> Tables] /\ "hopper" \in Containers
      /\ tile' = tile \/ tile' = Created(tile, "hopper", q)
  BY DEF LoadChunk, Created, SurviveInv, FilesInv, TypeOK, Containers
<1>3. \A i : Spots(tile', i) = Spots(tile, i)
  BY <1>2, CreatedSpots
<1>4. QED
  BY <1>1, <1>3 DEF SurviveInv, Settled, Single
-----------------------------------------------------------------------------
\* What play does to an item: if it has not moved it is where it was, and it is
\* in one place if it was.
StaysOne(i) ==
  /\ i \notin unsettled' =>
       /\ Hands(online', inventory', disk.players, i)
            = Hands(online, inventory, disk.players, i)
       /\ Spots(tile', i) = Spots(tile, i)
  /\ Alone(Hands(online, inventory, disk.players, i), Spots(tile, i), i \in ground, i \in lost)
       => Alone(Hands(online', inventory', disk.players, i), Spots(tile', i),
                i \in ground', i \in lost')

\* What a player who is online takes or gives.
Took(p, i) == inventory' = [inventory EXCEPT ![p] = @ \cup {i}]
Gave(p, i) == inventory' = [inventory EXCEPT ![p] = @ \ {i}]

LEMMA HandsTake ==
  ASSUME TypeOK, NEW p \in online, NEW i, NEW j, NEW ps, Took(p, i)
  PROVE  Hands(online, inventory', ps, j) =
           IF j = i THEN Hands(online, inventory, ps, j) \cup {p}
           ELSE Hands(online, inventory, ps, j)
<1>1. \A r \in Players : j \in inventory'[r] <=> j \in inventory[r] \/ (j = i /\ r = p)
  BY DEF TypeOK, Took
<1>2. QED
  BY <1>1 DEF Hands, TypeOK

LEMMA HandsGive ==
  ASSUME TypeOK, NEW p \in online, NEW i, NEW j, NEW ps, Gave(p, i)
  PROVE  Hands(online, inventory', ps, j) =
           IF j = i THEN Hands(online, inventory, ps, j) \ {p}
           ELSE Hands(online, inventory, ps, j)
<1>1. \A r \in Players : j \in inventory'[r] <=> j \in inventory[r] /\ ~(j = i /\ r = p)
  BY DEF TypeOK, Gave
<1>2. QED
  BY <1>1 DEF Hands, TypeOK

\* What a client writes into a container or out of it is spoilt; nothing else
\* is moved by that.
LEMMA StoreStays ==
  ASSUME SurviveInv, NEW p \in Players, NEW q \in Positions, NEW i \in Items,
         Store(p, q, i), NEW j \in Items \ spoilt'
  PROVE  StaysOne(j)
<1> DEFINE k == chunk[q]
           made == Created(tile, k, q)
           s == made[k][q] \cup {i}
           T == Spots(tile, j)
<1>1. /\ k \in Containers /\ tile \in [Containers -> Tables]
      /\ UNCHANGED <<online, inventory, ground, lost>>
      /\ tile' = WithSlot(made, k, q, s) /\ j # i
  BY DEF WithSlot, Store, SurviveInv, FilesInv, TypeOK
<1>2. made \in [Containers -> Tables] /\ q \in DOMAIN made[k]
  BY <1>1, CreatedKeeps
<1>3. Spots(made, j) = T
  BY <1>1, CreatedSpots
<1>4. j \in s <=> Has(made[k], q, j)
  BY <1>1, <1>2 DEF Has
<1>5. Has(made[k], q, j) <=> <<k, q>> \in T
  BY <1>1, <1>3 DEF Spots
<1> HIDE DEF made, k, s
<1>6. /\ j \in s => Spots(tile', j) = T \cup {<<k, q>>}
      /\ j \notin s => Spots(tile', j) = T \ {<<k, q>>}
  BY <1>1, <1>2, <1>3, SlotSpots
<1> HIDE DEF T
<1>7. Spots(tile', j) = T
  BY <1>4, <1>5, <1>6
<1>8. QED
  BY <1>1, <1>7 DEF StaysOne, T

LEMMA TakeStays ==
  ASSUME SurviveInv, NEW p \in Players, NEW q \in Positions, NEW i \in Items,
         Take(p, q, i), NEW j \in Items \ spoilt'
  PROVE  StaysOne(j)
<1> DEFINE k == chunk[q]
           s == tile[k][q] \ {i}
           T == Spots(tile, j)
<1>1. /\ k \in Containers /\ tile \in [Containers -> Tables]
      /\ q \in DOMAIN tile[k] /\ UNCHANGED <<online, inventory, ground, lost>>
      /\ tile' = WithSlot(tile, k, q, s) /\ j # i
  BY DEF WithSlot, Take, SurviveInv, FilesInv, TypeOK
<1>2. j \in s <=> Has(tile[k], q, j)
  BY <1>1 DEF Has
<1>3. Has(tile[k], q, j) <=> <<k, q>> \in T
  BY <1>1 DEF Spots
<1> HIDE DEF k, s
<1>4. /\ j \in s => Spots(tile', j) = T \cup {<<k, q>>}
      /\ j \notin s => Spots(tile', j) = T \ {<<k, q>>}
  BY <1>1, SlotSpots
<1> HIDE DEF T
<1>5. Spots(tile', j) = T
  BY <1>2, <1>3, <1>4
<1>6. QED
  BY <1>1, <1>5 DEF StaysOne, T

LEMMA HandsStay ==
  ASSUME SurviveInv, NEW p \in Players, NEW i \in Items, Drop(p, i) \/ PickUp(p, i),
         unsettled' = unsettled \cup {i}, NEW j \in Items
  PROVE  StaysOne(j)
<1> DEFINE H == Hands(online, inventory, disk.players, j)
           T == Spots(tile, j)
<1>1. TypeOK
  BY DEF SurviveInv, FilesInv
<1>2. CASE Drop(p, i)
  <2>1. /\ p \in online /\ i \in inventory[p] /\ online' = online /\ tile' = tile
        /\ Gave(p, i) /\ ground' = ground \cup {i} /\ lost' = lost
    BY <1>2 DEF Drop, Gave
  <2>2. Hands(online', inventory', disk.players, j) = IF j = i THEN H \ {p} ELSE H
    BY <1>1, <2>1, HandsGive
  <2>3. j = i => p \in H
    BY <2>1 DEF Hands
  <2> HIDE DEF H, T
  <2>4. ASSUME j = i, Alone(H, T, j \in ground, j \in lost)
        PROVE  Alone(H \ {p}, T, j \in ground', j \in lost)
    <3>1. H \ {p} = {} /\ T = {} /\ j \notin lost /\ j \in ground'
      BY <2>1, <2>3, <2>4 DEF Alone
    <3> QED
      BY <3>1 DEF Alone
  <2> QED
    BY <2>1, <2>2, <2>4 DEF StaysOne, H, T
<1>3. CASE PickUp(p, i)
  <2>1. /\ p \in online /\ i \in ground /\ online' = online /\ tile' = tile
        /\ Took(p, i) /\ ground' = ground \ {i} /\ lost' = lost
    BY <1>3 DEF PickUp, Took
  <2>2. Hands(online', inventory', disk.players, j) = IF j = i THEN H \cup {p} ELSE H
    BY <1>1, <2>1, HandsTake
  <2> HIDE DEF H, T
  <2>3. ASSUME j = i, Alone(H, T, j \in ground, j \in lost)
        PROVE  Alone(H \cup {p}, T, j \in ground', j \in lost)
    <3>1. H = {} /\ T = {} /\ j \notin lost /\ j \notin ground'
      BY <2>1, <2>3 DEF Alone
    <3> QED
      BY <3>1 DEF Alone
  <2> QED
    BY <2>1, <2>2, <2>3 DEF StaysOne, H, T
<1>4. QED
  BY <1>2, <1>3

LEMMA DespawnStays ==
  ASSUME SurviveInv, NEW i \in Items, Despawn(i), unsettled' = unsettled \cup {i},
         NEW j \in Items
  PROVE  StaysOne(j)
<1>1. /\ i \in ground /\ ground' = ground \ {i} /\ lost' = lost \cup {i}
      /\ UNCHANGED <<online, inventory, tile>>
  BY DEF Despawn
<1> DEFINE H == Hands(online, inventory, disk.players, j)
           T == Spots(tile, j)
<1>2. Hands(online', inventory', disk.players, j) = H /\ Spots(tile', j) = T
  BY <1>1
<1> HIDE DEF H, T
<1>3. ASSUME Alone(H, T, j \in ground, j \in lost)
      PROVE  Alone(H, T, j \in ground', j \in lost')
  BY <1>1, <1>3 DEF Alone
<1>4. QED
  BY <1>2, <1>3 DEF StaysOne, H, T

LEMMA AbsorbStays ==
  ASSUME SurviveInv, NEW q \in Positions, NEW i \in Items,
         Absorb(q, i), unsettled' = unsettled \cup {i}, NEW j \in Items
  PROVE  StaysOne(j)
<1> DEFINE k == "hopper"
           made == Created(tile, k, q)
           s == made[k][q] \cup {i}
           H == Hands(online, inventory, disk.players, j)
           T == Spots(tile, j)
<1>1. /\ k \in Containers /\ tile \in [Containers -> Tables]
      /\ i \in ground /\ online' = online /\ inventory' = inventory
      /\ ground' = ground \ {i} /\ tile' = WithSlot(made, k, q, s) /\ lost' = lost
  BY DEF WithSlot, Absorb, SurviveInv, FilesInv, TypeOK, Containers
<1> HIDE DEF k
<1>2. made \in [Containers -> Tables] /\ q \in DOMAIN made[k]
  BY <1>1, CreatedKeeps
<1>3. Spots(made, j) = T
  BY <1>1, CreatedSpots
<1>4. j \in s <=> j = i \/ Has(made[k], q, j)
  BY <1>2 DEF Has
<1>5. Has(made[k], q, j) <=> <<k, q>> \in T
  BY <1>1, <1>3 DEF Spots
<1> HIDE DEF made, s
<1>6. /\ j \in s => Spots(tile', j) = T \cup {<<k, q>>}
      /\ j \notin s => Spots(tile', j) = T \ {<<k, q>>}
  BY <1>1, <1>2, <1>3, SlotSpots
<1> HIDE DEF H, T
<1>7. CASE j # i
  <2>1. Spots(tile', j) = T
    BY <1>4, <1>5, <1>6, <1>7
  <2> QED
    BY <1>1, <1>7, <2>1 DEF StaysOne, T
<1>8. CASE j = i
  <2>1. Spots(tile', j) = T \cup {<<k, q>>} /\ j \in ground
    BY <1>1, <1>4, <1>6, <1>8
  <2>2. ASSUME Alone(H, T, j \in ground, j \in lost)
        PROVE  Alone(H, T \cup {<<k, q>>}, j \in ground', j \in lost)
    <3>1. H = {} /\ T = {} /\ j \notin lost /\ j \notin ground'
      BY <1>1, <1>8, <2>1, <2>2 DEF Alone
    <3> QED
      BY <3>1 DEF Alone
  <2> QED
    BY <1>1, <1>8, <2>1, <2>2 DEF StaysOne, H, T
<1>9. QED
  BY <1>7, <1>8

LEMMA HopperStays ==
  ASSUME SurviveInv, NEW q \in Positions, NEW r \in Positions, NEW i \in Items,
         HopperMove(q, r, i), unsettled' = unsettled \cup {i}, NEW j \in Items
  PROVE  StaysOne(j)
<1> DEFINE k == chunk[q]
           m == chunk[r]
           u == tile[k][q] \ {i}
           taken == WithSlot(tile, k, q, u)
           made == Created(taken, m, r)
           s == made[m][r] \cup {i}
           H == Hands(online, inventory, disk.players, j)
           T == Spots(tile, j)
<1>1. /\ k \in Containers /\ m \in Containers /\ tile \in [Containers -> Tables]
      /\ q \in DOMAIN tile[k] /\ i \in tile[k][q] /\ q # r
      /\ UNCHANGED <<online, inventory, ground, lost>>
      /\ tile' = WithSlot(made, m, r, s)
  BY DEF WithSlot, HopperMove, SurviveInv, FilesInv, TypeOK
<1>2. u \in SUBSET Items
  BY <1>1, ContentsAreItems DEF SurviveInv, FilesInv
<1>3. (j \in u <=> j # i /\ Has(tile[k], q, j)) /\ (j = i => Has(tile[k], q, j))
  BY <1>1 DEF Has
<1>4. Has(tile[k], q, j) <=> <<k, q>> \in T
  BY <1>1 DEF Spots
<1> HIDE DEF k, m, u
<1>5. taken \in [Containers -> Tables]
  BY <1>1, <1>2, SlotKeeps DEF WithSlot
<1>6. /\ j \in u => Spots(taken, j) = T \cup {<<k, q>>}
      /\ j \notin u => Spots(taken, j) = T \ {<<k, q>>}
  BY <1>1, SlotSpots
<1> HIDE DEF taken
<1>7. made \in [Containers -> Tables] /\ r \in DOMAIN made[m]
  BY <1>1, <1>5, CreatedKeeps
<1>8. Spots(made, j) = Spots(taken, j)
  BY <1>1, <1>5, CreatedSpots
<1>9. j \in s <=> j = i \/ Has(made[m], r, j)
  BY <1>7 DEF Has
<1>10. Has(made[m], r, j) <=> <<m, r>> \in Spots(taken, j)
  BY <1>1, <1>8 DEF Spots
<1> HIDE DEF made, s
<1>11. /\ j \in s => Spots(tile', j) = Spots(taken, j) \cup {<<m, r>>}
       /\ j \notin s => Spots(tile', j) = Spots(taken, j) \ {<<m, r>>}
  BY <1>1, <1>7, <1>8, SlotSpots
<1> HIDE DEF H, T
<1>12. CASE j # i
  <2>1. Spots(taken, j) = T
    BY <1>3, <1>4, <1>6, <1>12
  <2>2. Spots(tile', j) = T
    BY <1>9, <1>10, <1>11, <1>12, <2>1
  <2> QED
    BY <1>1, <1>12, <2>2 DEF StaysOne, T
<1>13. CASE j = i
  <2>1. /\ Spots(tile', j) = (T \ {<<k, q>>}) \cup {<<m, r>>}
        /\ <<k, q>> \in T
    BY <1>3, <1>4, <1>6, <1>9, <1>11, <1>13
  <2>2. ASSUME Alone(H, T, j \in ground, j \in lost)
        PROVE  Alone(H, (T \ {<<k, q>>}) \cup {<<m, r>>}, j \in ground, j \in lost)
    <3>1. /\ (T \ {<<k, q>>}) \cup {<<m, r>>} = {<<m, r>>}
          /\ H = {} /\ j \notin ground /\ j \notin lost
      BY <2>1, <2>2 DEF Alone
    <3> QED
      BY <3>1 DEF Alone
  <2> QED
    BY <1>1, <1>13, <2>1, <2>2 DEF StaysOne, H, T
<1>14. QED
  BY <1>12, <1>13

\* What breaks, goes off or is placed.
LEMMA BreakStays ==
  ASSUME SurviveInv, NEW q \in Positions, Break(q), NEW j \in Items
  PROVE  StaysOne(j)
<1> DEFINE k == chunk[q]
           dropped == IF q \in DOMAIN tile[k] THEN tile[k][q] ELSE {}
           H == Hands(online, inventory, disk.players, j)
           T == Spots(tile, j)
<1>1. /\ k \in Containers /\ tile \in [Containers -> Tables]
      /\ UNCHANGED <<online, inventory, lost>>
      /\ ground' = ground \cup dropped /\ unsettled' = unsettled \cup dropped
  BY DEF Break, SurviveInv, FilesInv, TypeOK
<1>2. Spots(tile', j) = T \ {<<k, q>>}
  <2>1. tile' = WithoutTile(tile, k, q)
    BY DEF Break, WithoutTile
  <2> QED
    BY <1>1, <2>1, WithoutSpots
<1>3. j \in dropped <=> <<k, q>> \in T
  BY <1>1 DEF Spots, Has
<1> HIDE DEF dropped, k, H, T
<1>4. CASE j \notin dropped
  <2>1. Spots(tile', j) = T
    BY <1>2, <1>3, <1>4
  <2>2. ASSUME Alone(H, T, j \in ground, j \in lost)
        PROVE  Alone(H, T, j \in ground', j \in lost)
    BY <1>1, <1>4, <2>2 DEF Alone
  <2> QED
    BY <1>1, <1>4, <2>1, <2>2 DEF StaysOne, H, T
<1>5. CASE j \in dropped
  <2>1. ASSUME Alone(H, T, j \in ground, j \in lost)
        PROVE  Alone(H, T \ {<<k, q>>}, j \in ground', j \in lost)
    <3>1. T \ {<<k, q>>} = {} /\ H = {} /\ j \in ground' /\ j \notin lost
      BY <1>1, <1>3, <1>5, <2>1 DEF Alone
    <3> QED
      BY <3>1 DEF Alone
  <2> QED
    BY <1>1, <1>2, <1>5, <2>1 DEF StaysOne, H, T
<1>6. QED
  BY <1>4, <1>5

LEMMA BlockStays ==
  ASSUME SurviveInv, NEW q \in Positions,
         Explode(q) \/ \E k \in Containers : Place(q, k), NEW j \in Items
  PROVE  StaysOne(j)
<1>1. /\ UNCHANGED <<online, inventory, ground, lost>>
      /\ tile' = tile \/ \E k \in Containers : tile' = Created(tile, k, q)
  BY DEF Explode, Place
<1>2. tile \in [Containers -> Tables]
  BY DEF SurviveInv, FilesInv, TypeOK
<1>3. Spots(tile', j) = Spots(tile, j)
  BY <1>1, <1>2, CreatedSpots
<1>4. QED
  BY <1>1, <1>3 DEF StaysOne

LEMMA PlaySurvives ==
  ASSUME SurviveInv, Play, UNCHANGED disk PROVE Settled' /\ Single'
<1>1. \A j \in Items \ spoilt' : StaysOne(j)
  BY StoreStays, TakeStays, HandsStay, DespawnStays, AbsorbStays, HopperStays, BreakStays,
     BlockStays DEF Play
<1>2. unsettled \subseteq unsettled' /\ spoilt \subseteq spoilt'
  BY ZenonT(30) DEF Play, Place, Break, Explode, Store, Take, Absorb, HopperMove, Drop,
                  PickUp, Despawn
<1>3. Settled'
  <2>1. ASSUME NEW j \in Items \ (spoilt' \cup unsettled')
        PROVE  /\ Filed(disk.players, j) = Hands(online', inventory', disk.players, j)
               /\ Spots(disk.tiles, j) = Spots(tile', j)
    BY <1>1, <1>2, <2>1 DEF StaysOne, SurviveInv, Settled
  <2> QED
    BY <2>1 DEF Settled
<1>4. Single'
  <2>1. ASSUME NEW j \in Items \ spoilt'
        PROVE  Alone(Hands(online', inventory', disk.players, j), Spots(tile', j),
                     j \in ground', j \in lost')
    BY <1>1, <1>2, <2>1 DEF StaysOne, SurviveInv, Single
  <2> QED
    BY <2>1 DEF Single
<1>5. QED
  BY <1>3, <1>4

LEMMA SurviveStep == SurviveInv /\ [Next]_vars => SurviveInv'
<1> SUFFICES ASSUME SurviveInv, [Next]_vars PROVE SurviveInv'
  OBVIOUS
<1>1. FilesInv /\ Settled /\ Single
  BY DEF SurviveInv
<1>2. FilesInv'
  BY <1>1, FilesStep
<1>3. CASE Next
  <2>1. Settled' /\ Single'
    BY <1>3, PlaySurvives, JoinSurvives, LeaveSurvives, LoadSurvives, AutosaveSurvives,
       RestartSurvives, CrashSurvives DEF Next
  <2> QED
    BY <1>2, <2>1 DEF SurviveInv
<1>4. CASE UNCHANGED vars
  <2>1. UNCHANGED <<online, inventory, tile, ground, disk, unsettled, spoilt, lost>>
    BY <1>4 DEF vars, memory
  <2> QED
    BY <1>1, <1>2, <2>1 DEF SurviveInv, Settled, Single
<1>5. QED
  BY <1>3, <1>4

LEMMA SurviveInit == Init => SurviveInv
<1> SUFFICES ASSUME Init PROVE SurviveInv
  OBVIOUS
<1>1. PICK built \in [Positions -> Blocks] :
        disk = [players |-> [p \in {} |-> {}], chunks |-> built,
                tiles |-> [k \in Containers |->
                             [q \in {q \in Positions : built[q] = k} |-> {}]]]
  BY DEF Init
<1>2. /\ online = {} /\ ground = Items /\ lost = {} /\ tile = disk.tiles
      /\ disk.players = [p \in {} |-> {}]
      /\ disk.tiles = [k \in Containers |-> [q \in {q \in Positions : built[q] = k} |-> {}]]
  BY <1>1 DEF Init
<1>3. \A i : /\ Hands(online, inventory, disk.players, i) = {}
             /\ Filed(disk.players, i) = {}
  BY <1>2 DEF Hands, Filed, Has
<1>4. \A i : Spots(tile, i) = {}
  <2>1. \A q, j : \A k \in Containers : ~Has(tile[k], q, j)
    BY <1>2 DEF Has
  <2> QED
    BY <2>1 DEF Spots
<1>5. Settled
  BY <1>2, <1>3, <1>4 DEF Settled
<1>6. Single
  BY <1>2, <1>3, <1>4 DEF Single, Alone
<1>7. QED
  BY <1>5, <1>6, FilesInit DEF SurviveInv

\* An item that no client wrote into a container or out of one, and that did not
\* move between the last save and a crash nor was in the file the crash hit, is
\* in one place, for any number of players, blocks, items, saves, restarts and
\* crashes.
THEOREM ItemsAlwaysSurvive == Spec => []ItemsSurvive
<1>1. SurviveInv => ItemsSurvive
  BY AloneIsOnePlace DEF SurviveInv, FilesInv, Single, ItemsSurvive
<1>2. QED
  BY <1>1, SurviveInit, SurviveStep, PTL DEF Spec
=============================================================================
