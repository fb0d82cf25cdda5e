------------------------------- MODULE PageMap -------------------------------
(***************************************************************************)
(* What src/src/include/memrange.h promises to its callers: every address  *)
(* has one tag or none, and the latest call that covers it decides.        *)
(***************************************************************************)
EXTENDS Integers

CONSTANTS Addresses, Tags, None, PAGE

VARIABLES
    paint,      \* the tag of each address, or None
    call        \* the call that was made last

\* The addresses of the pages that the range touches.
Touched(base, size) ==
    {a \in Addresses : a \div PAGE \in base \div PAGE .. (base + size - 1) \div PAGE}

Brush(S, t) == [a \in Addresses |-> IF a \in S THEN t ELSE paint[a]]

\* Inserting wins over what was there, a hole leaves nothing, filling up
\* leaves alone what was there.
Effect(c) ==
    CASE c.op = "insert" -> Brush(Touched(c.base, c.size), c.tag)
      [] c.op = "hole"   -> Brush(Touched(c.base, c.size), None)
      [] c.op = "retag"  -> Brush({a \in Addresses : paint[a] = c.old}, c.tag)
      [] c.op = "fill"   ->
            Brush({a \in Addresses : a < c.limit /\ paint[a] = None}, c.tag)
      [] c.op = "teardown" -> Brush(Addresses, None)

Blank == paint = [a \in Addresses |-> None]

Painting == Blank /\ [][paint' = Effect(call')]_<<paint, call>>
=============================================================================
