------------------------------- MODULE MCWire -------------------------------
(* The instance of Wire for TLC: a byte of four bits, a u16 of one of them, *)
(* a u32 of two and a u64 of three.                                         *)
EXTENDS Wire, TLC

Field(kind, size) == [kind |-> kind, size |-> size, step |-> 1]

\* More fields than a mask byte has bits, and one of each kind.
Parts  == [version |-> 3, fields |-> <<Field("signed", 1), Field("unsigned", Word),
              Field("bool", 1), Field("raw", Word), Field("signed", Long)>>]
Parts2 == [Parts EXCEPT !.version = 4, !.fields[4] = Field("unsigned", Word)]
Steps  == [version |-> 5, fields |-> <<[Field("quantized", Long) EXCEPT !.step = 4],
              Field("signed", Word), Field("unsigned", 1)>>]

Registry(first, second) == (20 :> first) @@ (200 :> second)

\* The same build, one type fewer there, and one fewer and one that drifted.
MCBuilds ==
    {[here |-> Registry(Parts, Steps), there |-> Registry(Parts, Steps)],
     [here |-> Registry(Parts, Steps), there |-> 20 :> Parts],
     [here |-> Registry(Steps, Parts), there |-> 200 :> Parts2]}

\* The smallest, the largest, and one between.
MCSample(m, k) ==
    [i \in DOMAIN m.fields |->
        LET f == m.fields[i] IN
        CASE f.kind = "bool"      -> k % 2
          [] f.kind = "signed"    -> <<0, -(Power(Base, f.size) \div 2), Power(Base, f.size) \div 2 - 1>>[k]
          [] f.kind = "quantized" -> <<0, -514, 509>>[k]
          [] OTHER                -> <<0, Most(f.size), Base - 2>>[k]]

MCMessages ==
    {[layout |-> WelcomeLayout, values |-> <<17, 3, 255>>, payload |-> <<>>],
     [layout |-> AnnounceLayout, values |-> <<5, 40, 2>>, payload |-> <<1, 2>>],
     [layout |-> ChunkLayout, values |-> <<5, 1, 2>>, payload |-> <<7, 0, 9>>],
     [layout |-> ChunkLayout, values |-> <<5, 0, 0>>, payload |-> <<>>],
     [layout |-> AckLayout, values |-> <<5, 1>>, payload |-> <<>>],
     [layout |-> AckLayout, values |-> <<5, 2>>, payload |-> <<>>]}

Entity(n, t, label, payload) ==
    [id |-> n, authority |-> 1, owner |-> n + 1, type |-> t, label |-> label, payload |-> payload]
MCWorlds ==
    {[counters |-> <<1, 2, 3>>, entities |-> <<>>],
     [counters |-> <<255, 16, 4095>>,
      entities |-> <<Entity(1, 20, <<5, 6>>, <<1, 2, 3>>), Entity(2, 200, <<>>, <<0>>)>>]}
=============================================================================
