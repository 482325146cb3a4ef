------------------------------- MODULE MCServer ------------------------------
(***************************************************************************)
(* A server's life in small: the migrations of a first release, of a       *)
(* second, of one that has edited the first migration, of one whose last   *)
(* migration fails half-way, and of one that names a migration twice; the  *)
(* seed, run twice among a few changes by administrators; and the requests *)
(* of one connection after another, with tokens on both sides of each time *)
(* limit and a few flaws.                                                  *)
(***************************************************************************)
EXTENDS Server, TLC

CONSTANTS snapshots, accessGrants, index, core, access, acme, umbrella, alice

Make(object, needs) == [makes |-> object, needs |-> needs]

CoreTables == [name |-> core, text |-> <<Make(snapshots, {})>>]
AccessTables ==
  [name |-> access,
   text |-> <<Make(accessGrants, {snapshots}), Make(index, {accessGrants})>>]
EditedCore == [name |-> core, text |-> <<Make(snapshots, {}), Make(index, {})>>]
BrokenAccess ==
  [name |-> access,
   text |-> <<Make(accessGrants, {snapshots}), Make(snapshots, {})>>]

MCObjects == {snapshots, accessGrants, index}
MCNames == {core, access}
MCLists ==
  {<<CoreTables>>, <<CoreTables, AccessTables>>, <<EditedCore>>,
   <<CoreTables, BrokenAccess>>, <<CoreTables, CoreTables>>, <<>>}

Token(iat, exp, nbf, flaw) ==
  [sub |-> alice, iat |-> iat, exp |-> exp, nbf |-> nbf, flaw |-> flaw]

\* A good token, expired and not yet valid ones inside and outside the
\* tolerance of 1, a contradictory one, and for each function that refuses
\* tokens for their text or claims one it refuses.
MCTokens ==
  {Token(0, 9, 0, "none"), Token(0, 1, 0, "none"), Token(1, 9, 0, "none"),
   Token(2, 9, 0, "none"), Token(0, 9, 2, "none"), Token(1, 1, 0, "none")}
    \cup {Token(0, 9, 0, flaw) : flaw \in {"claims", "signature", "is_anonymous"}}
=============================================================================
