----------------------------- MODULE BufferViews -----------------------------
(***************************************************************************)
(* gb/container/buffer_view, _2d and _3d: a window of a field of elements, *)
(* which can be moved over it.  The elements are kept in a buffer that is  *)
(* not moved: a position of the window is at its index modulo the size,    *)
(* from an offset that follows the origin.                                 *)
(*                                                                         *)
(* A position is a tuple with one coordinate for every dimension.  What    *)
(* the three classes write out for x, y and z is said once for a dimension *)
(* d here.  Of an element the value is kept, and the position it was last  *)
(* constructed or cleared for, which BufferViewConstructAt and             *)
(* BufferViewClearAt hand to the element's type.                           *)
(***************************************************************************)
EXTENDS Integers, Sequences

CONSTANTS
  Shapes,       (* The sizes of views: tuples of powers of two.            *)
  Origins,      (* Origins[shape]: the origins a program sets.             *)
  Default,      (* The value of an element that was cleared.               *)
  Values        (* What a program sets elements to.                        *)

VARIABLES
  shape,        (* size_                                                   *)
  origin,       (* origin_                                                 *)
  offset,       (* offset_                                                 *)
  buffer,       (* buffer_, by the indices of the dimensions               *)
  field         (* What a program expects in the window.                   *)

vars == <<shape, origin, offset, buffer, field>>

Dimensions == DOMAIN shape
Zero == [d \in Dimensions |-> 0]
Plus(p, q)  == [d \in DOMAIN p |-> p[d] + q[d]]
Minus(p, q) == [d \in DOMAIN p |-> p[d] - q[d]]

(* The positions from `from`, `size` of them in every dimension.           *)
Box(from, size) ==
  LET Coordinates == UNION {from[d] .. from[d] + size[d] - 1 : d \in DOMAIN from}
  IN {p \in [DOMAIN from -> Coordinates] :
        \A d \in DOMAIN from : p[d] \in from[d] .. from[d] + size[d] - 1}

Element(pos, value) == [at |-> pos, value |-> value]

(* The whole buffer, constructed or cleared for a window at `from`.        *)
Fresh(from, size) ==
  [i \in Box([d \in DOMAIN from |-> 0], size) |-> Element(Plus(from, i), Default)]

Init ==
  /\ shape \in Shapes
  /\ origin \in Origins[shape]
  /\ offset = Zero
  /\ buffer = Fresh(origin, shape)
  /\ field = [p \in Box(origin, shape) |-> Default]

(* ModifyRelative: where an element is.                                    *)
Index(rpos) == [d \in Dimensions |-> (rpos[d] + offset[d]) % shape[d]]

(* Get and Modify return null for a position outside of the window.        *)
IsInView(pos) == \A d \in Dimensions : pos[d] - origin[d] \in 0 .. shape[d] - 1
Get(pos) == buffer[Index(Minus(pos, origin))]

(* Mutant: a position is that of the window before it moves.               *)
FromOld(rpos, delta) == Plus(origin, rpos)

(* FromRelative of the views of two and of three dimensions: the position  *)
(* an element has in the window when it has moved by delta.                *)
FromRelative(rpos, delta) ==
  [d \in Dimensions |->
     LET pos == origin[d] + rpos[d]
     IN CASE pos - delta[d] < origin[d] -> pos + shape[d]
          [] pos - delta[d] >= origin[d] + shape[d] -> pos - shape[d]
          [] OTHER -> pos]

(* The same in BufferView, from the new origin that its ClearRelativeImpl  *)
(* is passed.                                                              *)
FromNewOrigin(rpos, delta) ==
  <<rpos[1] + CASE delta[1] < 0 -> origin[1] - shape[1]
                [] delta[1] > 0 -> origin[1] + shape[1]
                [] OTHER -> origin[1]>>

(* ClearRelativeImpl, for several boxes of the window.                     *)
Cleared(delta, boxes) ==
  LET rposes == UNION {Box(b.from, b.size) : b \in boxes}
      At(i)  == CHOOSE r \in rposes : Index(r) = i
      indices == {Index(r) : r \in rposes}
      Position(r) == IF Len(shape) = 1 THEN FromNewOrigin(r, delta)
                     ELSE FromRelative(r, delta)
  IN [i \in DOMAIN buffer |->
        IF i \in indices THEN Element(Position(At(i)), Default)
        ELSE buffer[i]]

(* Clear                                                                   *)
Clear(pos, size) ==
  LET Start(d) == IF pos[d] < origin[d] THEN 0 ELSE pos[d] - origin[d]
      Length(d) == IF pos[d] < origin[d] THEN size[d] + pos[d] - origin[d] ELSE size[d]
      Fits(d)  == IF Length(d) < shape[d] - Start(d) THEN Length(d)
                  ELSE shape[d] - Start(d)
      box == [from |-> [d \in Dimensions |-> Start(d)],
              size |-> [d \in Dimensions |-> Fits(d)]]
  IN /\ buffer' = IF \A d \in Dimensions : Fits(d) > 0
                  THEN Cleared(Zero, {box}) ELSE buffer
     /\ field' = [p \in DOMAIN field |->
                    IF p \in Box(pos, size) THEN Default ELSE field[p]]
     /\ UNCHANGED <<shape, origin, offset>>

(* Set: of a position outside of the window it returns false.              *)
Set(pos, value) ==
  /\ IsInView(pos)
  /\ buffer' = [buffer EXCEPT ![Index(Minus(pos, origin))].value = value]
  /\ field' = [field EXCEPT ![pos] = value]
  /\ UNCHANGED <<shape, origin, offset>>

(* Mutant: the strips of the later dimensions leave out the wrong end.     *)
RestFromStart(d, delta, e) ==
  [from |-> 0, size |-> shape[e] - (IF delta[e] < 0 THEN -delta[e] ELSE delta[e])]

(* The part of dimension e that the strip of dimension d covers: all of it *)
(* if e is yet to be seen to, and what its own strip left over otherwise.  *)
RestOf(d, delta, e) ==
  CASE e > d -> [from |-> 0, size |-> shape[e]]
    [] e < d /\ delta[e] < 0 -> [from |-> 0, size |-> shape[e] + delta[e]]
    [] OTHER -> [from |-> delta[e], size |-> shape[e] - delta[e]]

(* The strip that comes into view in dimension d.                          *)
Strip(d, delta) ==
  LET Part(e) == CASE e # d -> RestOf(d, delta, e)
                   [] e = d /\ delta[d] < 0 ->
                        [from |-> shape[d] + delta[d], size |-> -delta[d]]
                   [] OTHER -> [from |-> 0, size |-> delta[d]]
  IN [from |-> [e \in Dimensions |-> Part(e).from],
      size |-> [e \in Dimensions |-> Part(e).size]]

(* Nothing of the window stays in view.                                    *)
IsFar(delta) ==
  \E d \in Dimensions : delta[d] >= shape[d] \/ delta[d] <= -shape[d]

(* Mutant: an offset that would be negative starts again at 0.             *)
OffsetBehind(delta) ==
  [d \in Dimensions |-> IF offset[d] + delta[d] < 0 THEN 0
                        ELSE (offset[d] + delta[d]) % shape[d]]

OffsetBy(delta) ==
  [d \in Dimensions |->
     LET moved == offset[d] + delta[d]
     IN CASE moved < 0 -> moved + shape[d]
          [] moved >= shape[d] -> moved - shape[d]
          [] OTHER -> moved]

SetOrigin(to) ==
  LET delta == Minus(to, origin)
  IN /\ origin' = to
     /\ offset' = IF IsFar(delta) THEN Zero ELSE OffsetBy(delta)
     /\ buffer' = IF IsFar(delta) THEN Fresh(to, shape)
                  ELSE Cleared(delta, {Strip(d, delta) : d \in Dimensions})
     /\ field' = [p \in Box(to, shape) |->
                    IF p \in DOMAIN field THEN field[p] ELSE Default]
     /\ UNCHANGED shape

Next ==
  \/ \E to \in Origins[shape] : SetOrigin(to)
  \/ \E pos \in Box(origin, shape) :
       \/ \E value \in Values : Set(pos, value)
       \/ \E n \in 1 .. 2 : Clear(Minus(pos, [d \in Dimensions |-> n - 1]),
                                  [d \in Dimensions |-> IF d = 1 THEN 2 ELSE n])

Spec == Init /\ [][Next]_vars

(***************************************************************************)
(* Properties                                                              *)
(***************************************************************************)
(* However the window was moved, an element is found at every position of  *)
(* it: with what the program set there since the position came into view,  *)
(* and constructed or cleared for that position.                           *)
ViewShowsField ==
  /\ DOMAIN field = {p \in Box(origin, shape) : IsInView(p)}
  /\ \A p \in DOMAIN field : Get(p) = Element(p, field[p])
  /\ \A p, q \in DOMAIN field : p # q =>
       Index(Minus(p, origin)) # Index(Minus(q, origin))
=============================================================================
