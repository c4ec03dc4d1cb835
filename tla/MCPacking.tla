------------------------------- MODULE MCPacking -------------------------------
(***************************************************************************)
(* The structs that Binpack is checked with.                               *)
(***************************************************************************)
EXTENDS Binpack

(* A number and what may stand next to it, or two that share a byte, and   *)
(* then a field that may overlap or have a length or a condition.          *)
Tag == [kind |-> "number", offset |-> 0, size |-> 1, order |-> "be", len |-> 0, enc |-> "",
        bits |-> <<>>, cond |-> <<>>, repeat |-> FALSE, elem |-> 0, of |-> 0]
Sized(offset, size) == [Tag EXCEPT !.offset = offset, !.size = size]
Var(kind, offset, len) == [Tag EXCEPT !.kind = kind, !.offset = offset, !.size = -1, !.len = len]
Repeat(tag, elem) == [tag EXCEPT !.kind = "elements", !.repeat = TRUE, !.elem = elem]
SliceOf(tag, of) == [Repeat(tag, 0) EXCEPT !.of = of]
Bits(bits) == [Tag EXCEPT !.kind = "bits", !.bits = bits]

(* Structs in slices: one with a variable field, one whose variable field  *)
(* may be absent, and one where that begins after the others have ended.   *)
MCElements == <<<<Tag, Var("bytes", 1, 1)>>,
                <<Tag, [Var("bytes", 1, 1) EXCEPT !.cond = <<1, 1>>]>>,
                <<Tag, [Var("bytes", 2, 1) EXCEPT !.cond = <<1, 1>>]>>>>

First == {Tag, Bits(<<0, 0>>)}
Second == {Sized(1, 1), [Sized(1, 2) EXCEPT !.order = "le"], [Sized(1, 2) EXCEPT !.cond = <<1, 1>>],
           Bits(<<1, 1>>), Var("bytes", 1, 1),
           [Sized(1, 2) EXCEPT !.kind = "string", !.enc = "hex"]}
Third == {Sized(2, 1), [Sized(3, 2) EXCEPT !.kind = "string"],
          [Var("string", 3, 1) EXCEPT !.enc = "hex"], Var("bytes", 4, 4),
          [Sized(3, 2) EXCEPT !.kind = "bytes"],
          [Repeat(Var("elements", 2, 2), 2) EXCEPT !.order = "le"],
          [Repeat(Var("elements", 2, 2), 2) EXCEPT !.cond = <<1, 1>>],
          Repeat([Sized(3, 2) EXCEPT !.len = 2], 1)}
MCLayouts ==
    {l \in {<<a, b, c>> : a \in First, b \in Second, c \in Third} :
        /\ l[1].kind = "bits" => l[2].kind = "bits"
        /\ l[3].len = 2 => l[2].kind \in {"number", "bits"}}
    \cup {<<Tag, Repeat([Sized(1, 1) EXCEPT !.len = 1], 1), Sized(2, 1)>>}
    \cup {<<Tag, [Sized(1, size) EXCEPT !.kind = "string", !.enc = enc]>> :
              size \in {1, 3}, enc \in {"", "hex"}}
    \cup {<<Tag, SliceOf(Var("elements", 2, 1), of)>> : of \in DOMAIN MCElements}
    \cup {<<Tag, SliceOf([Sized(1, 2) EXCEPT !.len = 1], 2)>>}
================================================================================
