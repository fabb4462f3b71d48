----------------------------- MODULE MC_Assembler -----------------------------
EXTENDS Assembler

NewConst(bits, base, digits) == [kind |-> "const", bits |-> bits, base |-> base, digits |-> digits]

\* Fields of every base, one that fills the word, one that is too wide for its
\* bits, digits at and above the base, and what does not parse.
Consts ==
  {NewConst(1, "b", <<1>>), NewConst(2, "b", <<1, 0>>), NewConst(3, "d", <<0, 5>>),
   NewConst(4, "h", <<10>>), NewConst(4, "d", <<1, 1>>), NewConst(1, "b", <<1, 1>>),
   NewConst(2, "b", <<2>>), NewConst(2, "b", <<3>>), NewConst(2, "h", <<-1>>),
   [kind |-> "bad"], [kind |-> "empty"]}

Instr(consts) == [kind |-> "instr", consts |-> consts]
Begin1 == <<[kind |-> "begin"]>>
End1 == <<[kind |-> "end"]>>
Other == <<[kind |-> "other"]>>

AnyLine == {Instr(c) : c \in [1 .. 1 -> Consts] \cup [1 .. 2 -> Consts] \cup [1 .. 3 -> Consts]}
SomeLines ==
  {Instr(<<NewConst(4, "h", <<10>>)>>), Instr(<<NewConst(1, "b", <<1>>), NewConst(3, "d", <<5>>)>>),
   Instr(<<NewConst(3, "d", <<5>>)>>), Other[1]}

Programs ==
  {Begin1 \o <<l>> \o End1 : l \in AnyLine}
  \cup {pre \o <<l1, l2, l3>> \o post :
          pre \in {Begin1, Other \o Begin1, Other}, post \in {End1, <<>>, End1 \o Other},
          l1 \in SomeLines, l2 \in SomeLines, l3 \in SomeLines}
  \cup {Begin1, Other \o Begin1, Begin1 \o End1}
=============================================================================
