------------------------------ MODULE MCStreams ------------------------------
(* Pipelines of every kind of stage and sink, each short.                  *)
EXTENDS Streams

K(kind, ins, n, list) == [kind |-> kind, ins |-> ins, n |-> n, list |-> list]
Elements(s) == [i \in DOMAIN s |-> <<s[i]>>]

Channel(list, closes) == K("channel", <<>>, closes, Elements(list))
Source(kind, n, list) == K(kind, <<>>, n, list)
Stage(kind, ins, n) == K(kind, ins, n, <<>>)

MCRaises == {<<7>>}

MCStopped == {
    <<Source("from_list", 0, Elements(<<1, 2, 3>>)), Stage("map", <<1>>, 0), Stage("collect", <<2>>, 0)>>,
    <<Source("reading", 0, <<Elements(<<1, 2>>), Elements(<<3>>)>>), Stage("take", <<1>>, 1),
      Stage("writing", <<2>>, 0)>>,
    <<Channel(<<1, 2, 3>>, 0), Stage("flat_map", <<1>>, 0), Stage("first", <<2>>, 0)>>
}

MCShapes == MCStopped \cup {
    <<Source("from_list", 0, Elements(<<1, 7, 3>>)), Stage("map", <<1>>, 0), Stage("filter", <<2>>, 0),
      Stage("collect", <<3>>, 0)>>,
    <<Channel(<<1, 2, 3, 5>>, 1), Stage("map", <<1>>, 0), Stage("take", <<2>>, 2), Stage("collect", <<3>>, 0)>>,
    <<Channel(<<1, 2, 3, 5>>, 0), Stage("buffered", <<1>>, 1), Stage("drop", <<2>>, 1),
      Stage("first", <<3>>, 0)>>,
    <<Channel(<<1, 3, 2, 5>>, 0), Stage("take_while", <<1>>, 0), Stage("chunks", <<2>>, 2),
      Stage("fold", <<3>>, 0)>>,
    <<Channel(<<1, 2, 3, 5>>, 0), Source("from_range", 3, <<5>>), Stage("merge", <<1, 2>>, 0),
      Stage("take", <<3>>, 1), Stage("collect", <<4>>, 0)>>,
    <<Source("from_list", 0, Elements(<<1, 7>>)), Stage("map", <<1>>, 0), Channel(<<2>>, 1),
      Stage("merge", <<2, 3>>, 0), Stage("collect", <<4>>, 0)>>,
    <<Channel(<<1, 2, 3>>, 1), Source("unfold", 0, <<>>), Stage("zip", <<1, 2>>, 0),
      Stage("last", <<3>>, 0)>>,
    <<Source("repeat", 0, <<<<1>>>>), Channel(<<1, 2, 3>>, 1), Stage("zip", <<1, 2>>, 0), Stage("drop_while", <<3>>, 0),
      Stage("count", <<4>>, 0)>>,
    <<Channel(<<1, 1, 2>>, 1), Channel(<<2, 7, 3>>, 1), Stage("concat", <<1, 2>>, 0),
      Stage("dedup", <<3>>, 0), Stage("collect", <<4>>, 0)>>,
    <<Source("reading", 0, <<Elements(<<1, 7>>)>>), Stage("scan", <<1>>, 0), Stage("writing", <<2>>, 0)>>,
    <<Source("reading", 0, <<<<<<1>>, ERR>>>>), Stage("buffered", <<1>>, 0), Stage("writing", <<2>>, 0)>>
}
=============================================================================
