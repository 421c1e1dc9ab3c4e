--------------------------- MODULE PresenceProofs ---------------------------
(***************************************************************************)
(* Presence, for any players, carts, worlds and spots.                     *)
(***************************************************************************)
EXTENDS Presence, TLAPS

\* Where a proof needs more than LinksMatch: who is not here rides nothing and
\* is linked to no cart, and nobody rides a cart that does not exist yet.
RideInv ==
  \A p \in Players :
    /\ ~player[p].spawned => player[p].riding = None
    /\ \A c \in Carts :
         /\ Live(c) => (player[p].riding = c <=> cart[c].linked = p)
         /\ player[p].riding = c => cart[c].stage # "unused"

PresenceInv == TypeOK /\ RideInv /\ ShownAsTheyAre /\ KnownAreHere
-----------------------------------------------------------------------------
\* Whoever is dismounted keeps all but the coordinates and the ride.
LEMMA DismountKeeps ==
  ASSUME TypeOK, NEW p \in Players
  PROVE  /\ DismountedPlayer(player, p) \in [Players -> PlayerRecords]
         /\ DismountedCarts(player, cart, p) \in [Carts -> CartRecords]
         /\ \A q \in Players :
              /\ DismountedPlayer(player, p)[q].spawned = player[q].spawned
              /\ DismountedPlayer(player, p)[q].level = player[q].level
              /\ DismountedPlayer(player, p)[q].life = player[q].life
              /\ DismountedPlayer(player, p)[q].riding =
                   (IF q = p THEN None ELSE player[q].riding)
         /\ \A c \in Carts :
              /\ DismountedCarts(player, cart, p)[c].stage = cart[c].stage
              /\ DismountedCarts(player, cart, p)[c].level = cart[c].level
              /\ DismountedCarts(player, cart, p)[c].spot = cart[c].spot
              /\ DismountedCarts(player, cart, p)[c].linked =
                   (IF c = player[p].riding /\ Live(c) THEN None ELSE cart[c].linked)
<1>1. \A r \in PlayerRecords : \A s \in Spots :
        LET t == [[r EXCEPT !.riding = None] EXCEPT !.spot = s]
        IN /\ t \in PlayerRecords /\ t.spawned = r.spawned /\ t.level = r.level
           /\ t.life = r.life /\ t.riding = None
  BY DEF PlayerRecords
<1>2. \A r \in CartRecords :
        LET t == [r EXCEPT !.linked = None]
        IN /\ t \in CartRecords /\ t.stage = r.stage /\ t.level = r.level
           /\ t.spot = r.spot /\ t.linked = None
  BY DEF CartRecords
<1>3. /\ player \in [Players -> PlayerRecords] /\ cart \in [Carts -> CartRecords]
      /\ player[p] \in PlayerRecords
  BY DEF TypeOK
<1> DEFINE c == player[p].riding
           s == IF c \in Carts /\ Live(c) THEN cart[c].spot ELSE player[p].spot
<1>4. s \in Spots
  BY <1>3 DEF PlayerRecords, CartRecords
<1>5. DismountedPlayer(player, p) =
        [player EXCEPT ![p] = [[player[p] EXCEPT !.riding = None] EXCEPT !.spot = s]]
  BY <1>3 DEF DismountedPlayer, PlayerRecords
<1>6. DismountedCarts(player, cart, p) =
        IF c \in Carts /\ Live(c)
        THEN [cart EXCEPT ![c] = [cart[c] EXCEPT !.linked = None]] ELSE cart
  BY DEF DismountedCarts
<1> DEFINE r == [[player[p] EXCEPT !.riding = None] EXCEPT !.spot = s]
           t == [cart[c] EXCEPT !.linked = None]
<1>7. /\ r \in PlayerRecords /\ r.spawned = player[p].spawned
      /\ r.level = player[p].level /\ r.life = player[p].life /\ r.riding = None
  BY <1>1, <1>3, <1>4
<1>8. c \in Carts => /\ t \in CartRecords /\ t.stage = cart[c].stage
                    /\ t.level = cart[c].level /\ t.spot = cart[c].spot
                    /\ t.linked = None
  BY <1>2, <1>3
<1> HIDE DEF s, r, t, c
<1>9. DismountedPlayer(player, p) = [player EXCEPT ![p] = r]
  BY <1>5 DEF r
<1>10. DismountedCarts(player, cart, p) =
         IF c \in Carts /\ Live(c) THEN [cart EXCEPT ![c] = t] ELSE cart
  BY <1>6 DEF t
<1>11. /\ DismountedPlayer(player, p) \in [Players -> PlayerRecords]
       /\ DismountedCarts(player, cart, p) \in [Carts -> CartRecords]
  BY <1>3, <1>7, <1>8, <1>9, <1>10
<1>12. ASSUME NEW q \in Players
       PROVE  /\ DismountedPlayer(player, p)[q].spawned = player[q].spawned
              /\ DismountedPlayer(player, p)[q].level = player[q].level
              /\ DismountedPlayer(player, p)[q].life = player[q].life
              /\ DismountedPlayer(player, p)[q].riding =
                   (IF q = p THEN None ELSE player[q].riding)
  BY <1>3, <1>7, <1>9
<1>13. ASSUME NEW d \in Carts
       PROVE  /\ DismountedCarts(player, cart, p)[d].stage = cart[d].stage
              /\ DismountedCarts(player, cart, p)[d].level = cart[d].level
              /\ DismountedCarts(player, cart, p)[d].spot = cart[d].spot
              /\ DismountedCarts(player, cart, p)[d].linked =
                   (IF d = c /\ Live(d) THEN None ELSE cart[d].linked)
  BY <1>3, <1>8, <1>10
<1>14. QED
  BY <1>11, <1>12, <1>13 DEF c
-----------------------------------------------------------------------------
\* Updates of one field keep the others and the type.
LEMMA PlayerFields ==
  ASSUME NEW r \in PlayerRecords
  PROVE  /\ \A x \in BOOLEAN : LET t == [r EXCEPT !.spawned = x] IN
              /\ t \in PlayerRecords /\ t.spawned = x /\ t.level = r.level
              /\ t.spot = r.spot /\ t.life = r.life /\ t.riding = r.riding
         /\ \A x \in Worlds : LET t == [r EXCEPT !.level = x] IN
              /\ t \in PlayerRecords /\ t.spawned = r.spawned /\ t.level = x
              /\ t.spot = r.spot /\ t.life = r.life /\ t.riding = r.riding
         /\ \A x \in Spots : LET t == [r EXCEPT !.spot = x] IN
              /\ t \in PlayerRecords /\ t.spawned = r.spawned /\ t.level = r.level
              /\ t.spot = x /\ t.life = r.life /\ t.riding = r.riding
         /\ \A x \in Lives : LET t == [r EXCEPT !.life = x] IN
              /\ t \in PlayerRecords /\ t.spawned = r.spawned /\ t.level = r.level
              /\ t.spot = r.spot /\ t.life = x /\ t.riding = r.riding
         /\ \A x \in Carts \cup {None} : LET t == [r EXCEPT !.riding = x] IN
              /\ t \in PlayerRecords /\ t.spawned = r.spawned /\ t.level = r.level
              /\ t.spot = r.spot /\ t.life = r.life /\ t.riding = x
  BY DEF PlayerRecords

LEMMA CartFields ==
  ASSUME NEW r \in CartRecords
  PROVE  /\ \A x \in {"unused", "live", "removed", "lost"} :
              LET t == [r EXCEPT !.stage = x] IN
              /\ t \in CartRecords /\ t.stage = x /\ t.level = r.level
              /\ t.spot = r.spot /\ t.linked = r.linked
         /\ \A x \in Spots : LET t == [r EXCEPT !.spot = x] IN
              /\ t \in CartRecords /\ t.stage = r.stage /\ t.level = r.level
              /\ t.spot = x /\ t.linked = r.linked
  BY DEF CartRecords

LEMMA CartLink ==
  ASSUME NEW r \in CartRecords, NEW x \in Players \cup {None, Stranger}
  PROVE  LET t == [r EXCEPT !.linked = x] IN
           /\ t \in CartRecords /\ t.stage = r.stage /\ t.level = r.level
           /\ t.spot = r.spot /\ t.linked = x
  BY DEF CartRecords

\* What a step makes of a player and of a cart, but for the coordinates.
Becomes(q, spawned, level, life, riding) ==
  /\ player'[q].spawned = spawned /\ player'[q].level = level
  /\ player'[q].life = life /\ player'[q].riding = riding

Stays(q) ==
  Becomes(q, player[q].spawned, player[q].level, player[q].life, player[q].riding)

CartBecomes(c, stage, level, linked) ==
  /\ cart'[c].stage = stage /\ cart'[c].level = level /\ cart'[c].linked = linked

CartStays(c) == CartBecomes(c, cart[c].stage, cart[c].level, cart[c].linked)

TypesHold == player' \in [Players -> PlayerRecords] /\ cart' \in [Carts -> CartRecords]

LEMMA JoinEffect ==
  ASSUME TypeOK, NEW p \in Players, Join(p)
  PROVE  /\ TypesHold
         /\ Becomes(p, TRUE, player[p].level, player[p].life, player[p].riding)
         /\ \A q \in Players \ {p} : Stays(q)
<1>1. PICK s \in {player[p].spot, Home} :
        player' = [player EXCEPT ![p] =
                     [[player[p] EXCEPT !.spawned = TRUE] EXCEPT !.spot = s]]
  BY DEF Join, TypeOK, PlayerRecords
<1>2. player[p] \in PlayerRecords /\ s \in Spots
  BY ConstantsAssumption DEF TypeOK, PlayerRecords
<1> DEFINE r == [player[p] EXCEPT !.spawned = TRUE]
           t == [r EXCEPT !.spot = s]
<1>3. /\ r \in PlayerRecords /\ r.spawned = TRUE /\ r.level = player[p].level
      /\ r.life = player[p].life /\ r.riding = player[p].riding
  BY <1>2, PlayerFields
<1> HIDE DEF r
<1>4. /\ t \in PlayerRecords /\ t.spawned = TRUE /\ t.level = player[p].level
      /\ t.life = player[p].life /\ t.riding = player[p].riding
  BY <1>2, <1>3, PlayerFields
<1>5. player' = [player EXCEPT ![p] = t]
  BY <1>1 DEF r
<1> HIDE DEF t
<1>6. QED
  BY <1>4, <1>5 DEF Join, TypeOK, TypesHold, Becomes, Stays

LEMMA LeaveEffect ==
  ASSUME TypeOK, NEW p \in Players, Leave(p)
  PROVE  /\ TypesHold
         /\ Becomes(p, FALSE, player[p].level,
                    IF player[p].life = "alive" THEN "alive" ELSE "limbo", None)
         /\ \A q \in Players \ {p} : Stays(q)
         /\ \A c \in Carts :
              CartBecomes(c, cart[c].stage, cart[c].level,
                IF cart[c].linked = p THEN Stranger ELSE cart[c].linked)
<1> DEFINE l == IF player[p].life = "alive" THEN "alive" ELSE "limbo"
           r == [player[p] EXCEPT !.spawned = FALSE]
           t == [r EXCEPT !.riding = None]
           u == [t EXCEPT !.life = l]
<1>1. player[p] \in PlayerRecords /\ l \in Lives
  BY DEF TypeOK, Lives
<1>2. player' = [player EXCEPT ![p] = u]
  BY <1>1 DEF Leave, TypeOK, PlayerRecords
<1>3. /\ r \in PlayerRecords /\ r.spawned = FALSE /\ r.level = player[p].level
  BY <1>1, PlayerFields
<1> HIDE DEF r, l
<1>4. /\ t \in PlayerRecords /\ t.spawned = FALSE /\ t.level = player[p].level
      /\ t.riding = None
  BY <1>3, PlayerFields
<1> HIDE DEF t
<1>5. /\ u \in PlayerRecords /\ u.spawned = FALSE /\ u.level = player[p].level
      /\ u.riding = None /\ u.life = l
  BY <1>1, <1>4, PlayerFields
<1> HIDE DEF u
<1>6. /\ player' \in [Players -> PlayerRecords]
      /\ Becomes(p, FALSE, player[p].level, l, None)
      /\ \A q \in Players \ {p} : Stays(q)
  BY <1>2, <1>5 DEF TypeOK, Becomes, Stays
<1>7. ASSUME NEW c \in Carts
      PROVE  /\ cart'[c] \in CartRecords
             /\ CartBecomes(c, cart[c].stage, cart[c].level,
                  IF cart[c].linked = p THEN Stranger ELSE cart[c].linked)
  <2> DEFINE k == IF cart[c].linked = p THEN Stranger ELSE cart[c].linked
  <2>1. cart[c] \in CartRecords /\ k \in Players \cup {None, Stranger}
    BY DEF TypeOK, CartRecords
  <2>2. cart'[c] = [cart[c] EXCEPT !.linked = k]
    BY DEF Leave
  <2> HIDE DEF k
  <2> DEFINE x == [cart[c] EXCEPT !.linked = k]
  <2>3. /\ x \in CartRecords /\ x.stage = cart[c].stage
        /\ x.level = cart[c].level /\ x.linked = k
    BY <2>1, CartLink
  <2> HIDE DEF x
  <2>4. cart'[c] = x
    BY <2>2 DEF x
  <2>5. QED
    BY <2>3, <2>4 DEF CartBecomes, k
<1>8. cart' \in [Carts -> CartRecords]
  BY <1>7 DEF Leave
<1>9. QED
  BY <1>6, <1>7, <1>8 DEF TypesHold, l

LEMMA ChangeWorldEffect ==
  ASSUME TypeOK, NEW p \in Players, NEW w \in Worlds, NEW s \in Spots,
         ChangeWorld(p, w, s)
  PROVE  /\ TypesHold
         /\ Becomes(p, player[p].spawned, w, player[p].life, player[p].riding)
         /\ \A q \in Players \ {p} : Stays(q)
<1> DEFINE r == [player[p] EXCEPT !.level = w]
           t == [r EXCEPT !.spot = s]
<1>1. player[p] \in PlayerRecords
  BY DEF TypeOK
<1>2. player' = [player EXCEPT ![p] = t]
  BY <1>1 DEF ChangeWorld, TypeOK, PlayerRecords
<1>3. /\ r \in PlayerRecords /\ r.level = w /\ r.spawned = player[p].spawned
      /\ r.life = player[p].life /\ r.riding = player[p].riding
  BY <1>1, PlayerFields
<1> HIDE DEF r
<1>4. /\ t \in PlayerRecords /\ t.level = w /\ t.spawned = player[p].spawned
      /\ t.life = player[p].life /\ t.riding = player[p].riding
  BY <1>3, PlayerFields
<1> HIDE DEF t
<1>5. cart' = cart
  BY DEF ChangeWorld
<1>6. player' \in [Players -> PlayerRecords] /\ player'[p] = t
  BY <1>2, <1>4 DEF TypeOK
<1>7. ASSUME NEW q \in Players \ {p} PROVE Stays(q)
  BY <1>2 DEF TypeOK, Stays, Becomes
<1>8. QED
  BY <1>4, <1>5, <1>6, <1>7 DEF TypeOK, TypesHold, Becomes

\* A player that only goes somewhere within its world.
LEMMA WalkEffect ==
  ASSUME TypeOK, NEW p \in Players, NEW s \in Spots,
         player' = [player EXCEPT ![p].spot = s], cart' = cart
  PROVE  /\ TypesHold
         /\ \A q \in Players : Stays(q)
<1> DEFINE t == [player[p] EXCEPT !.spot = s]
<1>1. player[p] \in PlayerRecords
  BY DEF TypeOK
<1>2. /\ t \in PlayerRecords /\ t.level = player[p].level
      /\ t.spawned = player[p].spawned /\ t.life = player[p].life
      /\ t.riding = player[p].riding
  BY <1>1, PlayerFields
<1>3. player' = [player EXCEPT ![p] = t]
  OBVIOUS
<1> HIDE DEF t
<1>4. QED
  BY <1>2, <1>3 DEF TypeOK, TypesHold, Becomes, Stays

LEMMA DieEffect ==
  ASSUME TypeOK, NEW p \in Players, Die(p)
  PROVE  /\ TypesHold
         /\ Becomes(p, TRUE, player[p].level, "dead", player[p].riding)
         /\ \A q \in Players \ {p} : Stays(q)
<1> DEFINE t == [player[p] EXCEPT !.life = "dead"]
<1>1. player[p] \in PlayerRecords
  BY DEF TypeOK
<1>2. "dead" \in Lives
  BY DEF Lives
<1>3. /\ t \in PlayerRecords /\ t.level = player[p].level
      /\ t.spawned = player[p].spawned /\ t.life = "dead"
      /\ t.riding = player[p].riding
  BY <1>1, <1>2, PlayerFields
<1>4. player' = [player EXCEPT ![p] = t]
  BY DEF Die
<1> HIDE DEF t
<1>5. player[p].spawned = TRUE
  BY <1>1 DEF Die, PlayerRecords
<1>6. QED
  BY <1>3, <1>4, <1>5 DEF Die, TypeOK, TypesHold, Becomes, Stays

LEMMA RespawnEffect ==
  ASSUME TypeOK, NEW p \in Players, Respawn(p)
  PROVE  /\ TypesHold
         /\ Becomes(p, TRUE, player[p].level, "alive", player[p].riding)
         /\ \A q \in Players \ {p} : Stays(q)
<1> DEFINE r == [player[p] EXCEPT !.life = "alive"]
           t == [r EXCEPT !.spot = Home]
<1>1. player[p] \in PlayerRecords /\ "alive" \in Lives /\ Home \in Spots
  BY ConstantsAssumption DEF TypeOK, Lives
<1>2. player' = [player EXCEPT ![p] = t]
  BY <1>1 DEF Respawn, RespawnedPlayer, TypeOK, PlayerRecords
<1>3. /\ r \in PlayerRecords /\ r.level = player[p].level
      /\ r.spawned = player[p].spawned /\ r.life = "alive"
      /\ r.riding = player[p].riding
  BY <1>1, PlayerFields
<1> HIDE DEF r
<1>4. /\ t \in PlayerRecords /\ t.level = player[p].level
      /\ t.spawned = player[p].spawned /\ t.life = "alive"
      /\ t.riding = player[p].riding
  BY <1>1, <1>3, PlayerFields
<1> HIDE DEF t
<1>5. player[p].spawned = TRUE
  BY <1>1 DEF Respawn, PlayerRecords
<1>6. QED
  BY <1>2, <1>4, <1>5 DEF Respawn, TypeOK, TypesHold, Becomes, Stays

LEMMA PlaceCartEffect ==
  ASSUME TypeOK, NEW p \in Players, NEW c \in Carts, PlaceCart(p, c)
  PROVE  /\ TypesHold
         /\ CartBecomes(c, "live", player[p].level, None)
         /\ \A d \in Carts \ {c} : CartStays(d)
<1> DEFINE t == [stage |-> "live", level |-> player[p].level,
                 spot |-> player[p].spot, linked |-> None]
<1>1. player[p] \in PlayerRecords
  BY DEF TypeOK
<1>2. /\ t \in CartRecords /\ t.stage = "live" /\ t.level = player[p].level
      /\ t.linked = None
  BY <1>1 DEF PlayerRecords, CartRecords
<1>3. cart' = [cart EXCEPT ![c] = t]
  BY DEF PlaceCart
<1> HIDE DEF t
<1>4. QED
  BY <1>2, <1>3 DEF PlaceCart, TypeOK, TypesHold, CartBecomes, CartStays

LEMMA DismountEffect ==
  ASSUME TypeOK, NEW p \in Players, Dismount(p)
  PROVE  /\ TypesHold
         /\ Becomes(p, player[p].spawned, player[p].level, player[p].life, None)
         /\ \A q \in Players \ {p} : Stays(q)
         /\ \A c \in Carts :
              CartBecomes(c, cart[c].stage, cart[c].level,
                IF c = player[p].riding /\ Live(c) THEN None ELSE cart[c].linked)
<1>1. /\ player' = DismountedPlayer(player, p)
      /\ cart' = DismountedCarts(player, cart, p)
  BY DEF Dismount
<1>2. TypesHold
  BY <1>1, DismountKeeps DEF TypesHold
<1>3. \A q \in Players :
        Becomes(q, player[q].spawned, player[q].level, player[q].life,
                IF q = p THEN None ELSE player[q].riding)
  BY <1>1, DismountKeeps DEF Becomes
<1>4. \A c \in Carts :
        CartBecomes(c, cart[c].stage, cart[c].level,
          IF c = player[p].riding /\ Live(c) THEN None ELSE cart[c].linked)
  BY <1>1, DismountKeeps DEF CartBecomes
<1>5. QED
  BY <1>2, <1>3, <1>4 DEF Stays

\* Whether or not the other cart is free, the first one is left.
LEMMA MountEffect ==
  ASSUME TypeOK, NEW p \in Players, NEW c \in Carts, Mount(p, c)
  PROVE  /\ TypesHold
         /\ \A q \in Players \ {p} : Stays(q)
         /\ IF cart[c].linked \in {None, p}
            THEN Becomes(p, player[p].spawned, player[p].level, player[p].life, c)
            ELSE Becomes(p, player[p].spawned, player[p].level, player[p].life, None)
         /\ \A d \in Carts :
              CartBecomes(d, cart[d].stage, cart[d].level,
                IF d = player[p].riding /\ Live(d) THEN None
                ELSE IF d = c /\ cart[c].linked \in {None, p} THEN p
                ELSE cart[d].linked)
<1> DEFINE off == DismountedPlayer(player, p)
           freed == DismountedCarts(player, cart, p)
           r == [off[p] EXCEPT !.riding = c]
           k == [freed[c] EXCEPT !.linked = p]
<1>1. player[p].riding # c
  BY DEF Mount
<1>2. /\ off \in [Players -> PlayerRecords] /\ freed \in [Carts -> CartRecords]
      /\ freed[c].linked = cart[c].linked
  BY <1>1, DismountKeeps
<1>3. \A q \in Players :
        /\ off[q].spawned = player[q].spawned /\ off[q].level = player[q].level
        /\ off[q].life = player[q].life
        /\ off[q].riding = (IF q = p THEN None ELSE player[q].riding)
  BY DismountKeeps
<1>4. \A d \in Carts :
        /\ freed[d].stage = cart[d].stage /\ freed[d].level = cart[d].level
        /\ freed[d].linked =
             (IF d = player[p].riding /\ Live(d) THEN None ELSE cart[d].linked)
  BY DismountKeeps
<1>5. IF cart[c].linked \in {None, p}
      THEN player' = [off EXCEPT ![p] = r] /\ cart' = [freed EXCEPT ![c] = k]
      ELSE player' = off /\ cart' = freed
  BY <1>2 DEF Mount
<1>6. /\ r \in PlayerRecords /\ r.spawned = player[p].spawned
      /\ r.level = player[p].level /\ r.life = player[p].life /\ r.riding = c
  <2>1. off[p] \in PlayerRecords /\ c \in Carts \cup {None}
    BY <1>2
  <2> HIDE DEF off
  <2>2. QED
    BY <2>1, <1>3, PlayerFields
<1>7. /\ k \in CartRecords /\ k.stage = cart[c].stage
      /\ k.level = cart[c].level /\ k.linked = p
  <2>1. freed[c] \in CartRecords /\ p \in Players \cup {None, Stranger}
    BY <1>2
  <2> HIDE DEF freed
  <2>2. QED
    BY <2>1, <1>4, CartLink
<1> HIDE DEF off, freed, r, k
<1>8. CASE cart[c].linked \in {None, p}
  <2>1. player' = [off EXCEPT ![p] = r] /\ cart' = [freed EXCEPT ![c] = k]
    BY <1>5, <1>8
  <2>2. TypesHold
    BY <2>1, <1>2, <1>6, <1>7 DEF TypesHold
  <2>3. \A q \in Players \ {p} : Stays(q)
    BY <2>1, <1>2, <1>3 DEF Stays, Becomes
  <2>4. Becomes(p, player[p].spawned, player[p].level, player[p].life, c)
    BY <2>1, <1>2, <1>6 DEF Becomes
  <2>5. \A d \in Carts :
          CartBecomes(d, cart[d].stage, cart[d].level,
            IF d = player[p].riding /\ Live(d) THEN None
            ELSE IF d = c /\ cart[c].linked \in {None, p} THEN p
            ELSE cart[d].linked)
    BY <2>1, <1>1, <1>2, <1>4, <1>7, <1>8 DEF CartBecomes
  <2>6. QED
    BY <2>2, <2>3, <2>4, <2>5, <1>8
<1>9. CASE cart[c].linked \notin {None, p}
  <2>1. player' = off /\ cart' = freed
    BY <1>5, <1>9
  <2>2. QED
    BY <2>1, <1>2, <1>3, <1>4, <1>9 DEF TypesHold, Stays, Becomes, CartBecomes
<1>10. QED
  BY <1>8, <1>9

LEMMA BreakCartEffect ==
  ASSUME TypeOK, NEW c \in Carts, BreakCart(c)
  PROVE  /\ TypesHold
         /\ \A q \in Players :
              Becomes(q, player[q].spawned, player[q].level, player[q].life,
                IF player[q].spawned /\ cart[c].linked = q THEN None
                ELSE player[q].riding)
         /\ CartBecomes(c, "removed", cart[c].level, None)
         /\ \A d \in Carts \ {c} : CartStays(d)
<1> DEFINE r == [cart[c] EXCEPT !.stage = "removed"]
           t == [r EXCEPT !.linked = None]
<1>1. cart[c] \in CartRecords
  BY DEF TypeOK
<1>2. cart' = [cart EXCEPT ![c] = t]
  BY <1>1 DEF BreakCart, TypeOK, CartRecords
<1>3. /\ r \in CartRecords /\ r.stage = "removed" /\ r.level = cart[c].level
  BY <1>1, CartFields
<1> HIDE DEF r
<1>4. /\ t \in CartRecords /\ t.stage = "removed" /\ t.level = cart[c].level
      /\ t.linked = None
  BY <1>3, CartLink
<1> HIDE DEF t
<1>5. /\ cart' \in [Carts -> CartRecords]
      /\ CartBecomes(c, "removed", cart[c].level, None)
      /\ \A d \in Carts \ {c} : CartStays(d)
  BY <1>2, <1>4 DEF TypeOK, CartBecomes, CartStays
<1>6. player' = [q \in Players |->
                   IF player[q].spawned /\ cart[c].linked = q
                   THEN DismountedPlayer(player, q)[q] ELSE player[q]]
  BY DEF BreakCart
<1>7. ASSUME NEW q \in Players
      PROVE  /\ player'[q] \in PlayerRecords
             /\ Becomes(q, player[q].spawned, player[q].level, player[q].life,
                  IF player[q].spawned /\ cart[c].linked = q THEN None
                  ELSE player[q].riding)
  <2>1. /\ DismountedPlayer(player, q)[q] \in PlayerRecords
        /\ DismountedPlayer(player, q)[q].spawned = player[q].spawned
        /\ DismountedPlayer(player, q)[q].level = player[q].level
        /\ DismountedPlayer(player, q)[q].life = player[q].life
        /\ DismountedPlayer(player, q)[q].riding = None
    BY DismountKeeps
  <2>2. player[q] \in PlayerRecords
    BY DEF TypeOK
  <2>3. QED
    BY <1>6, <2>1, <2>2 DEF Becomes
<1>8. player' \in [Players -> PlayerRecords]
  BY <1>6, <1>7
<1>9. QED
  BY <1>5, <1>7, <1>8 DEF TypesHold

LEMMA CartTickEffect ==
  ASSUME TypeOK, NEW c \in Carts, CartTick(c)
  PROVE  /\ TypesHold
         /\ \A q \in Players : Stays(q)
         /\ \A d \in Carts : CartStays(d)
<1>1. PICK s \in Spots :
        /\ cart' = [cart EXCEPT ![c].spot = s]
        /\ player' = [p \in Players |->
                        IF /\ player[p].spawned /\ cart[c].linked = p
                           /\ player[p].level = cart[c].level
                        THEN [player[p] EXCEPT !.spot = s]
                        ELSE player[p]]
  BY DEF CartTick
<1> DEFINE t == [cart[c] EXCEPT !.spot = s]
<1>2. cart[c] \in CartRecords
  BY DEF TypeOK
<1>3. /\ t \in CartRecords /\ t.stage = cart[c].stage /\ t.level = cart[c].level
      /\ t.linked = cart[c].linked
  BY <1>2, CartFields
<1>4. cart' = [cart EXCEPT ![c] = t]
  BY <1>1
<1> HIDE DEF t
<1>5. cart' \in [Carts -> CartRecords] /\ \A d \in Carts : CartStays(d)
  BY <1>3, <1>4 DEF TypeOK, CartBecomes, CartStays
<1>6. ASSUME NEW q \in Players
      PROVE  player'[q] \in PlayerRecords /\ Stays(q)
  <2> DEFINE u == [player[q] EXCEPT !.spot = s]
  <2>1. player[q] \in PlayerRecords
    BY DEF TypeOK
  <2>2. /\ u \in PlayerRecords /\ u.level = player[q].level
        /\ u.spawned = player[q].spawned /\ u.life = player[q].life
        /\ u.riding = player[q].riding
    BY <2>1, PlayerFields
  <2>3. player'[q] \in {u, player[q]}
    BY <1>1
  <2> HIDE DEF u
  <2>4. QED
    BY <2>1, <2>2, <2>3 DEF Stays, Becomes
<1>7. player' \in [Players -> PlayerRecords]
  BY <1>1, <1>6
<1>8. QED
  BY <1>5, <1>6, <1>7 DEF TypesHold

LEMMA FallOutEffect ==
  ASSUME TypeOK, NEW c \in Carts, FallOut(c)
  PROVE  /\ TypesHold
         /\ CartBecomes(c, "lost", cart[c].level, cart[c].linked)
         /\ \A d \in Carts \ {c} : CartStays(d)
<1> DEFINE t == [cart[c] EXCEPT !.stage = "lost"]
<1>1. cart[c] \in CartRecords
  BY DEF TypeOK
<1>2. /\ t \in CartRecords /\ t.stage = "lost" /\ t.level = cart[c].level
      /\ t.linked = cart[c].linked
  BY <1>1, CartFields
<1>3. cart' = [cart EXCEPT ![c] = t]
  BY DEF FallOut
<1> HIDE DEF t
<1>4. QED
  BY <1>2, <1>3 DEF FallOut, TypeOK, TypesHold, CartBecomes, CartStays
-----------------------------------------------------------------------------
\* Every step is one of these; Goto is a walk or a change of world, Portal and
\* Move with it.
Steps ==
  \/ \E p \in Players :
       \/ Join(p) \/ Leave(p) \/ Die(p) \/ Respawn(p) \/ Dismount(p)
       \/ \E w \in Worlds, s \in Spots : player[p].spawned /\ ChangeWorld(p, w, s)
       \/ /\ \E s \in Spots : player' = [player EXCEPT ![p].spot = s]
          /\ player[p].spawned
          /\ UNCHANGED cart
          /\ known' = known \/ known' = SyncEntities(player', known, p)
          /\ shown' = shown \/ shown' = SyncPlayers(player', shown, p)
       \/ \E c \in Carts : PlaceCart(p, c) \/ Mount(p, c)
  \/ \E c \in Carts : BreakCart(c) \/ CartTick(c) \/ FallOut(c)
  \/ SyncTick

LEMMA StepsCover == Next => Steps
<1> SUFFICES ASSUME Next PROVE Steps
  OBVIOUS
<1>1. CASE \E p \in Players : \E w \in Worlds : Goto(p, w)
  BY <1>1, ConstantsAssumption DEF Goto, Steps
<1>2. CASE \E p \in Players : Portal(p)
  BY <1>2 DEF Portal, Steps
<1>3. CASE \E p \in Players : Move(p)
  BY <1>3 DEF Move, Steps
<1>4. QED
  BY <1>1, <1>2, <1>3 DEF Next, Steps
-----------------------------------------------------------------------------
\* What the broadcasts make of one viewer's picture of one player.
Pictures == [Players -> [Players -> Bodies]]

LEMMA SpawnPicture ==
  ASSUME NEW pl, NEW sh \in Pictures, NEW p \in Players
  PROVE  /\ BroadcastSpawn(pl, sh, p) \in Pictures
         /\ \A v, q \in Players :
              BroadcastSpawn(pl, sh, p)[v][q] =
                IF q = p THEN BodyFor(pl, sh, v, p) ELSE sh[v][q]
  BY DEF BroadcastSpawn, BodyFor, Pictures, Bodies

LEMMA DespawnPicture ==
  ASSUME NEW sh \in Pictures, NEW p \in Players
  PROVE  /\ BroadcastDespawn(sh, p) \in Pictures
         /\ \A v, q \in Players :
              BroadcastDespawn(sh, p)[v][q] = IF q = p THEN "none" ELSE sh[v][q]
  BY DEF BroadcastDespawn, Pictures, Bodies

LEMMA SyncPicture ==
  ASSUME NEW pl, NEW sh \in Pictures, NEW p \in Players
  PROVE  /\ SyncPlayers(pl, sh, p) \in Pictures
         /\ \A v, q \in Players :
              SyncPlayers(pl, sh, p)[v][q] =
                IF v # p THEN sh[v][q]
                ELSE IF Near(pl, p, q) THEN BodyFor(pl, sh, p, q) ELSE "none"
  BY DEF SyncPlayers, BodyFor, Pictures, Bodies

LEMMA ClearPicture ==
  ASSUME NEW sh \in Pictures, NEW p \in Players
  PROVE  /\ [sh EXCEPT ![p] = [q \in Players |-> "none"]] \in Pictures
         /\ \A v, q \in Players :
              [sh EXCEPT ![p] = [r \in Players |-> "none"]][v][q] =
                IF v = p THEN "none" ELSE sh[v][q]
  BY DEF Pictures, Bodies

\* What an update makes of the known entities.
Knowledge == [Players -> SUBSET Carts]

LEMMA SyncKnown ==
  ASSUME NEW pl, NEW kn \in Knowledge, NEW p \in Players
  PROVE  /\ SyncEntities(pl, kn, p) \in Knowledge
         /\ \A v \in Players : \A c \in SyncEntities(pl, kn, p)[v] :
              \/ c \in kn[v]
              \/ v = p /\ c \in Carts /\ Live(c) /\ cart[c].level = pl[p].level
  BY DEF SyncEntities, Knowledge

\* The types are kept by every step.
LEMMA TypesKept == ASSUME TypeOK, Steps PROVE TypeOK'
<1>1. shown \in Pictures /\ known \in Knowledge
  BY DEF TypeOK, Pictures, Knowledge
<1>2. TypesHold
  <2>1. CASE \E p \in Players : \E s \in Spots :
               player' = [player EXCEPT ![p].spot = s] /\ cart' = cart
    BY <2>1, WalkEffect
  <2>2. CASE SyncTick
    BY <2>2 DEF SyncTick, TypeOK, TypesHold
  <2>3. QED
    BY <2>1, <2>2, JoinEffect, LeaveEffect, DieEffect, RespawnEffect,
       DismountEffect, ChangeWorldEffect, PlaceCartEffect, MountEffect,
       BreakCartEffect, CartTickEffect, FallOutEffect DEF Steps
<1>3. shown' \in Pictures
  <2>1. ASSUME NEW p \in Players, Join(p) PROVE shown' \in Pictures
    BY <1>1, <2>1, SpawnPicture, SyncPicture DEF Join
  <2>2. ASSUME NEW p \in Players, Leave(p) PROVE shown' \in Pictures
    BY <1>1, <2>2, DespawnPicture, ClearPicture DEF Leave
  <2>3. ASSUME NEW p \in Players, Die(p) PROVE shown' \in Pictures
    BY <1>1, <2>3 DEF Die, Pictures, Bodies
  <2>4. ASSUME NEW p \in Players, Respawn(p) PROVE shown' \in Pictures
    BY <1>1, <2>4, SpawnPicture, DespawnPicture, SyncPicture DEF Respawn
  <2>5. ASSUME NEW p \in Players, NEW w \in Worlds, NEW s \in Spots, ChangeWorld(p, w, s)
        PROVE  shown' \in Pictures
    BY <1>1, <2>5, SpawnPicture, DespawnPicture, SyncPicture, ClearPicture
       DEF ChangeWorld
  <2>6. ASSUME NEW p \in Players, shown' = SyncPlayers(player', shown, p)
        PROVE  shown' \in Pictures
    BY <1>1, <2>6, SyncPicture
  <2>7. CASE UNCHANGED shown
    BY <1>1, <2>7
  <2>8. QED
    BY <2>1, <2>2, <2>3, <2>4, <2>5, <2>6, <2>7
       DEF Steps, Dismount, PlaceCart, Mount, BreakCart, CartTick, FallOut, SyncTick
<1>4. known' \in Knowledge
  <2>1. ASSUME NEW p \in Players, Join(p) PROVE known' \in Knowledge
    BY <1>1, <2>1, SyncKnown DEF Join
  <2>2. ASSUME NEW p \in Players, Leave(p) PROVE known' \in Knowledge
    BY <1>1, <2>2 DEF Leave, Knowledge
  <2>3. ASSUME NEW p \in Players, NEW w \in Worlds, NEW s \in Spots, ChangeWorld(p, w, s)
        PROVE  known' \in Knowledge
    <3>1. Forgotten(known, p) \in Knowledge
      BY <1>1 DEF Forgotten, Knowledge
    <3>2. QED
      BY <3>1, <2>3, SyncKnown DEF ChangeWorld
  <2>4. ASSUME NEW p \in Players, known' = SyncEntities(player', known, p)
        PROVE  known' \in Knowledge
    BY <1>1, <2>4, SyncKnown
  <2>5. ASSUME NEW p \in Players, NEW c \in Carts, PlaceCart(p, c)
        PROVE  known' \in Knowledge
    BY <1>1, <2>5 DEF PlaceCart, Knowledge
  <2>6. ASSUME NEW c \in Carts, BreakCart(c) PROVE known' \in Knowledge
    BY <1>1, <2>6 DEF BreakCart, EntityGone, Knowledge
  <2>7. CASE SyncTick
    <3>1. \A v \in Players : SyncEntities(player, known, v)[v] \in SUBSET Carts
      BY <1>1, SyncKnown DEF Knowledge
    <3>2. QED
      BY <1>1, <2>7, <3>1 DEF SyncTick, Knowledge
  <2>8. CASE UNCHANGED known
    BY <1>1, <2>8
  <2>9. QED
    BY <2>1, <2>2, <2>3, <2>4, <2>5, <2>6, <2>7, <2>8
       DEF Steps, Die, Respawn, Dismount, Mount, CartTick, FallOut
<1>5. QED
  BY <1>2, <1>3, <1>4 DEF TypeOK, TypesHold, Pictures, Knowledge

\* Both ends of a ride are changed together, or one of them is gone.
LEMMA RidesKept == ASSUME TypeOK, RideInv, Steps PROVE RideInv'
<1>1. ASSUME NEW p \in Players, Join(p) PROVE RideInv'
  <2>1. cart' = cart
    BY <1>1 DEF Join
  <2>2. \A q \in Players : /\ player'[q].riding = player[q].riding
                           /\ player[q].spawned => player'[q].spawned
    BY <1>1, JoinEffect DEF Becomes, Stays
  <2>3. QED
    BY <2>1, <2>2 DEF RideInv, Live
<1>2. ASSUME NEW p \in Players, Leave(p) PROVE RideInv'
  <2>1. \A c \in Carts :
          CartBecomes(c, cart[c].stage, cart[c].level,
            IF cart[c].linked = p THEN Stranger ELSE cart[c].linked)
    BY <1>2, LeaveEffect
  <2>2. \A q \in Players : /\ player'[q].riding = IF q = p THEN None ELSE player[q].riding
                           /\ q # p => player'[q].spawned = player[q].spawned
    BY <1>2, LeaveEffect DEF Becomes, Stays
  <2>3. QED
    BY <2>1, <2>2, ConstantsAssumption DEF RideInv, Live, CartBecomes
<1>3. ASSUME NEW p \in Players, Die(p) \/ Respawn(p) PROVE RideInv'
  <2>1. cart' = cart
    BY <1>3 DEF Die, Respawn
  <2>2. \A q \in Players : /\ player'[q].riding = player[q].riding
                           /\ player[q].spawned => player'[q].spawned
    BY <1>3, DieEffect, RespawnEffect DEF Becomes, Stays
  <2>3. QED
    BY <2>1, <2>2 DEF RideInv, Live
<1>4. ASSUME NEW p \in Players, Dismount(p) PROVE RideInv'
  <2>1. \A c \in Carts :
          CartBecomes(c, cart[c].stage, cart[c].level,
            IF c = player[p].riding /\ Live(c) THEN None ELSE cart[c].linked)
    BY <1>4, DismountEffect
  <2>2. \A q \in Players : /\ player'[q].riding = IF q = p THEN None ELSE player[q].riding
                           /\ player'[q].spawned = player[q].spawned
    BY <1>4, DismountEffect DEF Becomes, Stays
  <2>3. QED
    BY <2>1, <2>2, ConstantsAssumption DEF RideInv, Live, CartBecomes
<1>5. ASSUME NEW p \in Players, NEW w \in Worlds, NEW s \in Spots, ChangeWorld(p, w, s)
      PROVE  RideInv'
  <2>1. cart' = cart
    BY <1>5 DEF ChangeWorld
  <2>2. \A q \in Players : /\ player'[q].riding = player[q].riding
                           /\ player'[q].spawned = player[q].spawned
    BY <1>5, ChangeWorldEffect DEF Becomes, Stays
  <2>3. QED
    BY <2>1, <2>2 DEF RideInv, Live
<1>6. ASSUME NEW p \in Players, NEW s \in Spots,
             player' = [player EXCEPT ![p].spot = s], cart' = cart
      PROVE  RideInv'
  BY <1>6, WalkEffect DEF RideInv, Live, Stays, Becomes
<1>7. ASSUME NEW p \in Players, NEW c \in Carts, PlaceCart(p, c) PROVE RideInv'
  <2>1. player' = player /\ cart[c].stage = "unused"
    BY <1>7 DEF PlaceCart
  <2>2. /\ CartBecomes(c, "live", player[p].level, None)
        /\ \A d \in Carts \ {c} : CartStays(d)
    BY <1>7, PlaceCartEffect
  <2>3. QED
    BY <2>1, <2>2, ConstantsAssumption DEF RideInv, Live, CartBecomes, CartStays
<1>8. ASSUME NEW p \in Players, NEW c \in Carts, Mount(p, c) PROVE RideInv'
  <2> DEFINE free == cart[c].linked \in {None, p}
  <2>1. /\ player[p].spawned /\ Live(c) /\ player[p].riding # c
    BY <1>8 DEF Mount, Reaches
  <2>2. \A q \in Players :
          /\ player'[q].riding = IF q # p THEN player[q].riding ELSE IF free THEN c ELSE None
          /\ player'[q].spawned = player[q].spawned
    BY <1>8, MountEffect DEF Becomes, Stays
  <2>3. \A d \in Carts :
          /\ cart'[d].stage = cart[d].stage
          /\ cart'[d].linked =
               IF d = player[p].riding /\ Live(d) THEN None
               ELSE IF d = c /\ free THEN p ELSE cart[d].linked
    BY <1>8, MountEffect DEF CartBecomes
  <2>4. QED
    BY <2>1, <2>2, <2>3, ConstantsAssumption DEF RideInv, Live
<1>9. ASSUME NEW c \in Carts, BreakCart(c) PROVE RideInv'
  <2>1. \A q \in Players :
          /\ player'[q].riding = IF player[q].spawned /\ cart[c].linked = q THEN None
                                ELSE player[q].riding
          /\ player'[q].spawned = player[q].spawned
    BY <1>9, BreakCartEffect DEF Becomes
  <2>2. /\ CartBecomes(c, "removed", cart[c].level, None)
        /\ \A d \in Carts \ {c} : CartStays(d)
        /\ Live(c)
    BY <1>9, BreakCartEffect DEF BreakCart
  <2>3. QED
    BY <2>1, <2>2, ConstantsAssumption DEF RideInv, Live, CartBecomes, CartStays
<1>10. ASSUME NEW c \in Carts, CartTick(c) PROVE RideInv'
  BY <1>10, CartTickEffect
     DEF RideInv, Live, Stays, Becomes, CartStays, CartBecomes
<1>11. ASSUME NEW c \in Carts, FallOut(c) PROVE RideInv'
  <2>1. player' = player
    BY <1>11 DEF FallOut
  <2>2. /\ CartBecomes(c, "lost", cart[c].level, cart[c].linked)
        /\ \A d \in Carts \ {c} : CartStays(d)
    BY <1>11, FallOutEffect
  <2>3. QED
    BY <2>1, <2>2 DEF RideInv, Live, CartBecomes, CartStays
<1>12. CASE SyncTick
  BY <1>12 DEF SyncTick, RideInv, Live
<1>13. QED
  BY <1>1, <1>2, <1>3, <1>4, <1>5, <1>6, <1>7, <1>8, <1>9, <1>10, <1>11, <1>12
     DEF Steps

\* What the clients draw.
LEMMA BodiesKept == ASSUME TypeOK, TypeOK', ShownAsTheyAre, Steps PROVE ShownAsTheyAre'
<1>1. shown \in Pictures
  BY DEF TypeOK, Pictures
<1> DEFINE Right(v, p) ==
      shown'[v][p] # "none" =>
        /\ v # p /\ player'[v].spawned /\ player'[p].spawned
        /\ player'[v].level = player'[p].level
        /\ shown'[v][p] = (IF player'[p].life = "dead" THEN "corpse" ELSE "alive")
        /\ player'[p].life # "limbo"
<1>2. SUFFICES ASSUME NEW v \in Players, NEW q \in Players PROVE Right(v, q)
  BY DEF ShownAsTheyAre
<1>3. shown[v][q] # "none" =>
        /\ v # q /\ player[v].spawned /\ player[q].spawned
        /\ player[v].level = player[q].level
        /\ shown[v][q] = (IF player[q].life = "dead" THEN "corpse" ELSE "alive")
        /\ player[q].life # "limbo"
  BY DEF ShownAsTheyAre
<1>4. ASSUME NEW p \in Players, Join(p) PROVE Right(v, q)
  <2> DEFINE synced == SyncPlayers(player', shown, p)
  <2>1. synced \in Pictures /\ shown' = BroadcastSpawn(player', synced, p)
    BY <1>1, <1>4, SyncPicture DEF Join
  <2>2. shown'[v][q] = IF q = p THEN BodyFor(player', synced, v, p) ELSE synced[v][q]
    BY <2>1, SpawnPicture
  <2>3. synced[v][q] = IF v # p THEN shown[v][q]
                       ELSE IF Near(player', p, q) THEN BodyFor(player', shown, p, q)
                       ELSE "none"
    BY <1>1, SyncPicture
  <2>4. ~player[p].spawned
    BY <1>4 DEF Join
  <2>5. /\ \A r \in Players \ {p} : Stays(r)
        /\ Becomes(p, TRUE, player[p].level, player[p].life, player[p].riding)
    BY <1>4, JoinEffect
  <2> HIDE DEF synced
  <2>6. CASE v # p /\ q # p
    BY <1>3, <2>2, <2>3, <2>5, <2>6 DEF Stays, Becomes
  <2>7. CASE v # p /\ q = p
    BY <1>3, <2>2, <2>3, <2>4, <2>5, <2>7 DEF BodyFor, Near, Stays, Becomes
  <2>8. CASE v = p /\ q # p
    BY <1>3, <2>2, <2>3, <2>4, <2>5, <2>8 DEF BodyFor, Near, Stays, Becomes
  <2>9. CASE v = p /\ q = p
    BY <1>3, <2>2, <2>3, <2>4, <2>5, <2>9 DEF BodyFor, Near
  <2>10. QED
    BY <2>6, <2>7, <2>8, <2>9
<1>5. ASSUME NEW p \in Players, Leave(p) PROVE Right(v, q)
  <2> DEFINE gone == BroadcastDespawn(shown, p)
  <2>1. gone \in Pictures /\ shown' = [gone EXCEPT ![p] = [r \in Players |-> "none"]]
    BY <1>1, <1>5, DespawnPicture DEF Leave
  <2>2. shown'[v][q] = IF v = p THEN "none" ELSE gone[v][q]
    BY <2>1, ClearPicture
  <2>3. gone[v][q] = IF q = p THEN "none" ELSE shown[v][q]
    BY <1>1, DespawnPicture
  <2>4. \A r \in Players \ {p} : Stays(r)
    BY <1>5, LeaveEffect
  <2> HIDE DEF gone
  <2>5. QED
    BY <1>3, <2>2, <2>3, <2>4 DEF Stays, Becomes
<1>6. ASSUME NEW p \in Players, Die(p) PROVE Right(v, q)
  <2>1. shown'[v][q] =
          IF q = p /\ shown[v][q] # "none" /\ player[v].level = player[q].level
          THEN "corpse" ELSE shown[v][q]
    BY <1>1, <1>6 DEF Die, Pictures
  <2>2. /\ \A r \in Players \ {p} : Stays(r)
        /\ Becomes(p, TRUE, player[p].level, "dead", player[p].riding)
    BY <1>6, DieEffect
  <2>3. QED
    BY <1>3, <2>1, <2>2 DEF Stays, Becomes
<1>7. ASSUME NEW p \in Players, Respawn(p) PROVE Right(v, q)
  <2> DEFINE gone == BroadcastDespawn(shown, p)
             back == BroadcastSpawn(player', gone, p)
  <2>1. gone \in Pictures /\ back \in Pictures /\ shown' = SyncPlayers(player', back, p)
    BY <1>1, <1>7, DespawnPicture, SpawnPicture DEF Respawn
  <2>2. shown'[v][q] = IF v # p THEN back[v][q]
                       ELSE IF Near(player', p, q) THEN BodyFor(player', back, p, q)
                       ELSE "none"
    BY <2>1, SyncPicture
  <2>3. /\ back[v][q] = IF q = p THEN BodyFor(player', gone, v, p) ELSE gone[v][q]
        /\ gone[v][q] = IF q = p THEN "none" ELSE shown[v][q]
    BY <1>1, <2>1, DespawnPicture, SpawnPicture
  <2>4. /\ \A r \in Players \ {p} : Stays(r)
        /\ Becomes(p, TRUE, player[p].level, "alive", player[p].riding)
    BY <1>7, RespawnEffect
  <2> HIDE DEF gone, back
  <2>5. QED
    BY <1>3, <2>2, <2>3, <2>4 DEF BodyFor, Near, Stays, Becomes
<1>8. ASSUME NEW p \in Players, NEW w \in Worlds, NEW s \in Spots,
             player[p].spawned, ChangeWorld(p, w, s)
      PROVE  Right(v, q)
  <2> DEFINE gone == BroadcastDespawn(shown, p)
             cleared == [gone EXCEPT ![p] = [r \in Players |-> "none"]]
             synced == SyncPlayers(player', cleared, p)
  <2>1. gone \in Pictures /\ cleared \in Pictures /\ synced \in Pictures
    BY <1>1, DespawnPicture, ClearPicture, SyncPicture
  <2>2. shown' = BroadcastSpawn(player', synced, p)
    BY <1>8 DEF ChangeWorld
  <2>3. shown'[v][q] = IF q = p THEN BodyFor(player', synced, v, p) ELSE synced[v][q]
    BY <2>1, <2>2, SpawnPicture
  <2>4. synced[v][q] = IF v # p THEN cleared[v][q]
                       ELSE IF Near(player', p, q) THEN BodyFor(player', cleared, p, q)
                       ELSE "none"
    <3>1. synced = SyncPlayers(player', cleared, p)
      OBVIOUS
    <3> HIDE DEF cleared, synced
    <3>2. QED
      BY <2>1, <3>1, SyncPicture
  <2>5. /\ cleared[v][q] = IF v = p THEN "none" ELSE gone[v][q]
        /\ gone[v][q] = IF q = p THEN "none" ELSE shown[v][q]
    <3>1. gone[v][q] = IF q = p THEN "none" ELSE shown[v][q]
      BY <1>1, DespawnPicture
    <3> HIDE DEF gone
    <3>2. QED
      BY <2>1, <3>1, ClearPicture
  <2>6. /\ \A r \in Players \ {p} : Stays(r)
        /\ Becomes(p, player[p].spawned, w, player[p].life, player[p].riding)
    BY <1>8, ChangeWorldEffect
  <2> HIDE DEF gone, cleared, synced
  <2>7. QED
    BY <1>3, <1>8, <2>3, <2>4, <2>5, <2>6 DEF BodyFor, Near, Stays, Becomes
<1>9. ASSUME NEW p \in Players, NEW s \in Spots,
             player' = [player EXCEPT ![p].spot = s], cart' = cart,
             shown' = shown \/ shown' = SyncPlayers(player', shown, p)
      PROVE  Right(v, q)
  <2>1. \A r \in Players : Stays(r)
    BY <1>9, WalkEffect
  <2>2. \/ shown'[v][q] = shown[v][q] \/ shown'[v][q] = "none"
        \/ Near(player', v, q) /\ shown'[v][q] = BodyFor(player', shown, v, q)
    BY <1>1, <1>9, SyncPicture
  <2>3. QED
    BY <1>3, <2>1, <2>2 DEF BodyFor, Near, Stays, Becomes
<1>10. ASSUME NEW p \in Players,
              Dismount(p) \/ \E c \in Carts : PlaceCart(p, c) \/ Mount(p, c)
       PROVE  Right(v, q)
  <2>1. shown' = shown
    BY <1>10 DEF Dismount, PlaceCart, Mount
  <2>2. /\ player'[v].spawned = player[v].spawned /\ player'[v].level = player[v].level
        /\ player'[q].spawned = player[q].spawned /\ player'[q].level = player[q].level
        /\ player'[q].life = player[q].life
    BY <1>10, DismountEffect, MountEffect DEF PlaceCart, Stays, Becomes
  <2>3. QED
    BY <1>3, <2>1, <2>2
<1>11. ASSUME NEW c \in Carts, BreakCart(c) \/ CartTick(c) \/ FallOut(c)
       PROVE  Right(v, q)
  <2>1. shown' = shown
    BY <1>11 DEF BreakCart, CartTick, FallOut
  <2>2. /\ player'[v].spawned = player[v].spawned /\ player'[v].level = player[v].level
        /\ player'[q].spawned = player[q].spawned /\ player'[q].level = player[q].level
        /\ player'[q].life = player[q].life
    BY <1>11, BreakCartEffect, CartTickEffect DEF FallOut, Stays, Becomes
  <2>3. QED
    BY <1>3, <2>1, <2>2
<1>12. CASE SyncTick
  BY <1>3, <1>12 DEF SyncTick
<1> HIDE DEF Right
<1>13. QED
  BY <1>4, <1>5, <1>6, <1>7, <1>8, <1>9, <1>10, <1>11, <1>12 DEF Steps

\* What the server believes a client to know of the entities.
LEMMA KnowledgeKept == ASSUME TypeOK, KnownAreHere, Steps PROVE KnownAreHere'
<1>1. known \in Knowledge
  BY DEF TypeOK, Knowledge
<1> DEFINE Here(v, c) == /\ player'[v].spawned /\ cart'[c].level = player'[v].level
                         /\ cart'[c].stage \in {"live", "lost"}
<1>2. SUFFICES ASSUME NEW v \in Players, NEW c \in known'[v] PROVE Here(v, c)
  BY DEF KnownAreHere
<1>3. \A d \in known[v] : /\ d \in Carts /\ player[v].spawned
                          /\ cart[d].level = player[v].level
                          /\ cart[d].stage \in {"live", "lost"}
  BY <1>1 DEF KnownAreHere, Knowledge
<1>4. ASSUME NEW p \in Players, Join(p) PROVE Here(v, c)
  <2>1. cart' = cart
    BY <1>4 DEF Join
  <2>2. \/ c \in known[v]
        \/ v = p /\ c \in Carts /\ Live(c) /\ cart[c].level = player'[p].level
    <3>1. \A d \in SyncEntities(player', known, p)[v] :
            d \in known[v] \/ (v = p /\ d \in Carts /\ Live(d) /\ cart[d].level = player'[p].level)
      BY <1>1, SyncKnown
    <3>2. QED
      BY <1>4, <3>1 DEF Join
  <2>3. /\ \A r \in Players \ {p} : Stays(r)
        /\ Becomes(p, TRUE, player[p].level, player[p].life, player[p].riding)
    BY <1>4, JoinEffect
  <2>4. QED
    BY <1>3, <2>1, <2>2, <2>3 DEF Stays, Becomes, Live
<1>5. ASSUME NEW p \in Players, Leave(p) PROVE Here(v, c)
  <2>1. c \in known[v] /\ v # p
    BY <1>1, <1>5 DEF Leave, Knowledge
  <2>2. c \in Carts
    BY <1>3, <2>1
  <2>3. CartBecomes(c, cart[c].stage, cart[c].level,
          IF cart[c].linked = p THEN Stranger ELSE cart[c].linked) /\ Stays(v)
    BY <1>5, <2>1, <2>2, LeaveEffect
  <2>4. QED
    BY <1>3, <2>1, <2>3 DEF Stays, Becomes, CartBecomes
<1>6. ASSUME NEW p \in Players, Die(p) \/ Respawn(p) PROVE Here(v, c)
  <2>1. known' = known /\ cart' = cart
    BY <1>6 DEF Die, Respawn
  <2>2. /\ player[v].spawned => player'[v].spawned
        /\ player'[v].level = player[v].level
    BY <1>6, DieEffect, RespawnEffect DEF Stays, Becomes
  <2>3. QED
    BY <1>3, <2>1, <2>2
<1>7. ASSUME NEW p \in Players, NEW w \in Worlds, NEW s \in Spots,
             player[p].spawned, ChangeWorld(p, w, s)
      PROVE  Here(v, c)
  <2>1. /\ Forgotten(known, p) \in Knowledge /\ Forgotten(known, p)[p] = {}
        /\ v # p => Forgotten(known, p)[v] = known[v]
    BY <1>1 DEF Forgotten, Knowledge
  <2>2. known' = SyncEntities(player', Forgotten(known, p), p) /\ cart' = cart
    BY <1>7 DEF ChangeWorld
  <2>3. \A d \in SyncEntities(player', Forgotten(known, p), p)[v] :
          \/ d \in Forgotten(known, p)[v]
          \/ v = p /\ d \in Carts /\ Live(d) /\ cart[d].level = player'[p].level
    <3>1. \A kn \in Knowledge : \A d \in SyncEntities(player', kn, p)[v] :
            d \in kn[v] \/ (v = p /\ d \in Carts /\ Live(d) /\ cart[d].level = player'[p].level)
      BY SyncKnown
    <3>2. QED
      BY <2>1, <3>1
  <2>4. /\ \A r \in Players \ {p} : Stays(r)
        /\ Becomes(p, player[p].spawned, w, player[p].life, player[p].riding)
    BY <1>7, ChangeWorldEffect
  <2>5. QED
    BY <1>3, <1>7, <2>1, <2>2, <2>3, <2>4 DEF Stays, Becomes, Live
<1>8. ASSUME NEW p \in Players, NEW s \in Spots, player[p].spawned,
             player' = [player EXCEPT ![p].spot = s], cart' = cart,
             known' = known \/ known' = SyncEntities(player', known, p)
      PROVE  Here(v, c)
  <2>1. \A r \in Players : Stays(r)
    BY <1>8, WalkEffect
  <2>2. \/ c \in known[v]
        \/ v = p /\ c \in Carts /\ Live(c) /\ cart[c].level = player'[p].level
    <3>1. \A d \in SyncEntities(player', known, p)[v] :
            d \in known[v] \/ (v = p /\ d \in Carts /\ Live(d) /\ cart[d].level = player'[p].level)
      BY <1>1, SyncKnown
    <3>2. QED
      BY <1>8, <3>1
  <2>3. QED
    BY <1>3, <1>8, <2>1, <2>2 DEF Stays, Becomes, Live
<1>9. ASSUME NEW p \in Players, NEW d \in Carts, PlaceCart(p, d) PROVE Here(v, c)
  <2>1. /\ player' = player /\ cart[d].stage = "unused"
        /\ \/ c \in known[v]
           \/ c = d /\ player[v].spawned /\ player[v].level = player[p].level
    BY <1>1, <1>9 DEF PlaceCart, Knowledge
  <2>2. /\ CartBecomes(d, "live", player[p].level, None)
        /\ \A e \in Carts \ {d} : CartStays(e)
    BY <1>9, PlaceCartEffect
  <2>3. QED
    BY <1>3, <2>1, <2>2 DEF CartBecomes, CartStays
<1>10. ASSUME NEW p \in Players, Dismount(p) \/ \E d \in Carts : Mount(p, d)
       PROVE  Here(v, c)
  <2>1. known' = known
    BY <1>10 DEF Dismount, Mount
  <2>2. /\ player'[v].spawned = player[v].spawned /\ player'[v].level = player[v].level
        /\ \A d \in Carts : cart'[d].stage = cart[d].stage /\ cart'[d].level = cart[d].level
    BY <1>10, DismountEffect, MountEffect DEF Stays, Becomes, CartBecomes
  <2>3. QED
    BY <1>3, <2>1, <2>2
<1>11. ASSUME NEW d \in Carts, BreakCart(d) PROVE Here(v, c)
  <2>1. c \in known[v] \ {d}
    BY <1>11 DEF BreakCart, EntityGone
  <2>2. /\ player'[v].spawned = player[v].spawned /\ player'[v].level = player[v].level
        /\ \A e \in Carts \ {d} : CartStays(e)
    BY <1>11, BreakCartEffect DEF Becomes
  <2>3. QED
    BY <1>3, <2>1, <2>2 DEF CartStays, CartBecomes
<1>12. ASSUME NEW d \in Carts, CartTick(d) PROVE Here(v, c)
  <2>1. known' = known
    BY <1>12 DEF CartTick
  <2>2. QED
    BY <1>3, <1>12, <2>1, CartTickEffect DEF Stays, Becomes, CartStays, CartBecomes
<1>13. ASSUME NEW d \in Carts, FallOut(d) PROVE Here(v, c)
  <2>1. known' = known /\ player' = player
    BY <1>13 DEF FallOut
  <2>2. /\ CartBecomes(d, "lost", cart[d].level, cart[d].linked)
        /\ \A e \in Carts \ {d} : CartStays(e)
    BY <1>13, FallOutEffect
  <2>3. QED
    BY <1>3, <2>1, <2>2 DEF CartStays, CartBecomes
<1>14. CASE SyncTick
  <2>1. player' = player /\ cart' = cart
    BY <1>14 DEF SyncTick
  <2>2. \/ c \in known[v]
        \/ player[v].spawned /\ c \in SyncEntities(player, known, v)[v]
    BY <1>1, <1>14 DEF SyncTick, Knowledge
  <2>3. \A d \in SyncEntities(player, known, v)[v] :
          d \in known[v] \/ (d \in Carts /\ Live(d) /\ cart[d].level = player[v].level)
    BY <1>1, SyncKnown
  <2>4. QED
    BY <1>3, <2>1, <2>2, <2>3 DEF Live
<1> HIDE DEF Here
<1>15. QED
  BY <1>4, <1>5, <1>6, <1>7, <1>8, <1>9, <1>10, <1>11, <1>12, <1>13, <1>14 DEF Steps
-----------------------------------------------------------------------------
LEMMA InvHolds == Spec => []PresenceInv
<1>1. Init => PresenceInv
  BY ConstantsAssumption
     DEF Init, PresenceInv, TypeOK, RideInv, ShownAsTheyAre, KnownAreHere, Live,
         PlayerRecords, CartRecords, Lives, Bodies
<1>2. PresenceInv /\ [Next]_vars => PresenceInv'
  <2>1. CASE Next
    BY <2>1, StepsCover, TypesKept, RidesKept, BodiesKept, KnowledgeKept DEF PresenceInv
  <2>2. CASE UNCHANGED vars
    BY <2>2 DEF vars, PresenceInv, TypeOK, RideInv, ShownAsTheyAre, KnownAreHere, Live
  <2>3. QED
    BY <2>1, <2>2
<1>3. QED
  BY <1>1, <1>2, PTL DEF Spec

\* The types of players, carts, pictures and known entities, whatever the
\* worlds and the order of events.
THEOREM TypeCorrect == Spec => []TypeOK
BY InvHolds, PTL DEF PresenceInv

\* No cart carries two players and no player believes to be on a live cart that
\* carries another, for any number of players and carts.
THEOREM LinksStayMatched == Spec => []LinksMatch
<1>1. PresenceInv => LinksMatch
  BY DEF PresenceInv, RideInv, LinksMatch
<1>2. QED
  BY <1>1, InvHolds, PTL

\* No client draws somebody who is elsewhere, gone, or not as he is.
THEOREM BodiesAreTrue == Spec => []ShownAsTheyAre
BY InvHolds, PTL DEF PresenceInv

\* What is kept of the entities a client knows is of its own world.
THEOREM KnownStayHere == Spec => []KnownAreHere
BY InvHolds, PTL DEF PresenceInv
=============================================================================
