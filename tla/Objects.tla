------------------------------ MODULE Objects -------------------------------
(***************************************************************************)
(* The wire format of nodes: Size, MarshalTo and Unmarshal of PBLink and   *)
(* PBNode (merkledag/pb/merkledag.pb.go).  Bytes are 0 .. 255 and varints  *)
(* have seven bits to a byte, as in the code.  A field that is absent      *)
(* (nil) is the empty sequence of values; one that is present is           *)
(* <<value>>.                                                              *)
(*                                                                         *)
(* The input is what Marshal writes, or a beginning of it (a block that    *)
(* was cut short); PBNode.Unmarshal reads it field by field.               *)
(***************************************************************************)
EXTENDS Naturals, Sequences, SequencesExt, FiniteSets, FiniteSetsExt

CONSTANTS Hashes, NamesUsed, Tsizes, Blobs,   \* values of the fields, each a set of <<>> or <<v>>
          Unknown,                            \* bytes of fields this version does not know
          MaxLinks

PBLink == [Hash : Hashes, Name : NamesUsed, Tsize : Tsizes, unrecognized : Unknown]
PBNode == [Links : BoundedSeq(PBLink, MaxLinks), Data : Blobs, unrecognized : Unknown]
NoLink == [Hash |-> <<>>, Name |-> <<>>, Tsize |-> <<>>, unrecognized |-> <<>>]
EmptyNode == [Links |-> <<>>, Data |-> <<>>, unrecognized |-> <<>>]

-----------------------------------------------------------------------------
(* Writing                                                                 *)

RECURSIVE encodeVarint(_)
encodeVarint(v) == IF v < 128 THEN <<v>> ELSE <<(v % 128) + 128>> \o encodeVarint(v \div 128)
RECURSIVE sov(_)
sovShort(x) == IF x <= 128 THEN 1 ELSE 1 + sov(x \div 128)
sov(x) == IF x < 128 THEN 1 ELSE 1 + sov(x \div 128)

Key(field, type) == field * 8 + type
LenDelimited(field, bytes) == <<Key(field, 2)>> \o encodeVarint(Len(bytes)) \o bytes
SizeDelimited(l) == 1 + l + sov(l)
SumOf(s, Op(_)) == FoldLeft(LAMBDA acc, e : acc + Op(e), 0, s)
Joined(s, Op(_)) == FoldLeft(LAMBDA acc, e : acc \o Op(e), <<>>, s)

LinkSize(m) ==
      SumOf(m.Hash, LAMBDA b : SizeDelimited(Len(b)))
    + SumOf(m.Name, LAMBDA b : SizeDelimited(Len(b)))
    + SumOf(m.Tsize, LAMBDA v : 1 + sov(v))
    + Len(m.unrecognized)
LinkMarshalTo(m) ==
       Joined(m.Hash, LAMBDA b : LenDelimited(1, b))
    \o Joined(m.Name, LAMBDA b : LenDelimited(2, b))
    \o Joined(m.Tsize, LAMBDA v : <<Key(3, 0)>> \o encodeVarint(v))
    \o m.unrecognized

NodeSize(m) ==
      SumOf(m.Links, LAMBDA l : SizeDelimited(LinkSize(l)))
    + SumOf(m.Data, LAMBDA b : SizeDelimited(Len(b)))
    + Len(m.unrecognized)
\* The length written before a link is Size's, not that of the bytes written.
NodeMarshalTo(m) ==
       Joined(m.Links, LAMBDA l : <<Key(2, 2)>> \o encodeVarint(LinkSize(l)) \o LinkMarshalTo(l))
    \o Joined(m.Data, LAMBDA b : LenDelimited(1, b))
    \o m.unrecognized

-----------------------------------------------------------------------------
(* Reading.  i is the index of the next byte, from 1.                      *)

Short == [ok |-> FALSE, v |-> 0, next |-> 0]
RECURSIVE Varint(_, _)
Varint(d, i) ==
    IF i > Len(d) THEN Short
    ELSE IF d[i] < 128 THEN [ok |-> TRUE, v |-> d[i], next |-> i + 1]
    ELSE LET rest == Varint(d, i + 1)
         IN IF rest.ok THEN [rest EXCEPT !.v = d[i] - 128 + 128 * @] ELSE Short

\* The bytes of a length-delimited field.
DelimitedClamped(d, i) ==
    LET n == Varint(d, i)
        end == IF n.next + n.v - 1 > Len(d) THEN Len(d) ELSE n.next + n.v - 1
    IN IF ~n.ok THEN Short ELSE [ok |-> TRUE, v |-> SubSeq(d, n.next, end), next |-> end + 1]
Delimited(d, i) ==
    LET n == Varint(d, i)
    IN IF ~n.ok \/ n.next + n.v - 1 > Len(d) THEN Short
       ELSE [ok |-> TRUE, v |-> SubSeq(d, n.next, n.next + n.v - 1), next |-> n.next + n.v]

\* Skip of gogo/protobuf: the length of one field with its key.
SkipTo(d, i) ==
    LET k == Varint(d, i)
    IN CASE ~k.ok -> Short
         [] k.ok /\ k.v % 8 = 0 -> Varint(d, k.next)
         [] k.ok /\ k.v % 8 = 2 -> Delimited(d, k.next)
         [] OTHER -> Short

\* One pass of the loop of PBLink.Unmarshal: the link with the field, and where
\* the next one starts; an error leaves the link as it is.
Fail(m) == [ok |-> FALSE, m |-> m, next |-> 0]
Unrecognized(m, d, i) ==
    LET s == SkipTo(d, i)
    IN IF s.ok THEN [ok |-> TRUE, m |-> [m EXCEPT !.unrecognized = @ \o SubSeq(d, i, s.next - 1)], next |-> s.next]
       ELSE Fail(m)
LinkField(m, d, i) ==
    LET k == Varint(d, i)
        field == IF k.ok THEN k.v \div 8 ELSE 0
        type == k.v % 8
        x == IF field = 3 THEN Varint(d, k.next) ELSE Delimited(d, k.next)
    IN IF ~k.ok THEN Fail(m)
       ELSE IF field \notin 1 .. 3 THEN Unrecognized(m, d, i)
       ELSE IF type # (IF field = 3 THEN 0 ELSE 2) \/ ~x.ok THEN Fail(m)
       ELSE [ok |-> TRUE, next |-> x.next,
             m |-> CASE field = 1 -> [m EXCEPT !.Hash = <<x.v>>]
                     [] field = 2 -> [m EXCEPT !.Name = <<x.v>>]
                     [] field = 3 -> [m EXCEPT !.Tsize = <<x.v>>]]
RECURSIVE LinkUnmarshal(_, _, _)
LinkUnmarshal(m, d, i) ==
    IF i > Len(d) THEN [ok |-> TRUE, m |-> m]
    ELSE LET f == LinkField(m, d, i)
         IN IF f.ok THEN LinkUnmarshal(f.m, d, f.next) ELSE [ok |-> FALSE, m |-> m]

-----------------------------------------------------------------------------
(* PBNode.Unmarshal, one field at a step                                    *)

VARIABLES sent,        \* the node that was encoded
          wire,        \* what is read of its encoding
          windex, wmsg,
          wstatus       \* "reading", "ok", "error"

wvars == <<sent, wire, windex, wmsg, wstatus>>

WInit ==
    /\ sent \in PBNode
    /\ LET whole == NodeMarshalTo(sent) IN wire \in {SubSeq(whole, 1, k) : k \in 0 .. Len(whole)}
    /\ windex = 1 /\ wmsg = EmptyNode /\ wstatus = "reading"

Become(f) == IF f.ok THEN wmsg' = f.m /\ windex' = f.next /\ UNCHANGED wstatus
             ELSE wstatus' = "error" /\ UNCHANGED <<wmsg, windex>>
\* The error of the link's Unmarshal is not looked at.
AddedLinkFirst(links, bytes) == <<LinkUnmarshal(NoLink, bytes, 1).m>>
AddedLink(links, bytes) == Append(links, LinkUnmarshal(NoLink, bytes, 1).m)
NodeField(d, i) ==
    LET k == Varint(d, i)
        x == Delimited(d, k.next)
    IN IF ~k.ok THEN Fail(wmsg)
       ELSE IF k.v \div 8 \notin {1, 2} THEN Unrecognized(wmsg, d, i)
       ELSE IF k.v % 8 # 2 \/ ~x.ok THEN Fail(wmsg)
       ELSE [ok |-> TRUE, next |-> x.next,
             m |-> IF k.v \div 8 = 2 THEN [wmsg EXCEPT !.Links = AddedLink(@, x.v)]
                   ELSE [wmsg EXCEPT !.Data = <<x.v>>]]
UnmarshalField ==
    /\ wstatus = "reading" /\ windex <= Len(wire)
    /\ Become(NodeField(wire, windex)) /\ UNCHANGED <<sent, wire>>
UnmarshalEnds ==
    /\ wstatus = "reading" /\ windex > Len(wire)
    /\ wstatus' = "ok" /\ UNCHANGED <<sent, wire, windex, wmsg>>
WNext == UnmarshalField \/ UnmarshalEnds
WSpec == WInit /\ [][WNext]_wvars

\* Equal (and VerboseEqual, which says why not): bytes.Equal does not tell an absent
\* field from an empty one; a name or a size that is absent on one side only differs.
BytesOf(f) == IF f = <<>> THEN <<>> ELSE f[1]
LinkEqual(a, b) == /\ BytesOf(a.Hash) = BytesOf(b.Hash) /\ a.Name = b.Name /\ a.Tsize = b.Tsize
                   /\ a.unrecognized = b.unrecognized
NodeEqualShort(a, b) ==
    /\ \A i \in DOMAIN a.Links \cap DOMAIN b.Links : LinkEqual(a.Links[i], b.Links[i])
    /\ BytesOf(a.Data) = BytesOf(b.Data) /\ a.unrecognized = b.unrecognized
NodeEqual(a, b) ==
    /\ Len(a.Links) = Len(b.Links) /\ \A i \in DOMAIN a.Links : LinkEqual(a.Links[i], b.Links[i])
    /\ BytesOf(a.Data) = BytesOf(b.Data) /\ a.unrecognized = b.unrecognized

\* Size is the number of bytes MarshalTo writes, so that the buffer Marshal makes
\* is filled exactly, and the length written before a link is that of the link.
SizeExact ==
    /\ Len(NodeMarshalTo(sent)) = NodeSize(sent)
    /\ \A i \in DOMAIN sent.Links : Len(LinkMarshalTo(sent.Links[i])) = LinkSize(sent.Links[i])

\* Unmarshal gives back the node that was marshalled: absent and empty fields are
\* told apart, the links keep their order, and fields of a later version survive.
RoundTrip == (wstatus # "reading" /\ wire = NodeMarshalTo(sent)) => wstatus = "ok" /\ wmsg = sent

\* An encoding that was cut short is refused, unless the cut is between two
\* fields of the node: then what is read is the node without the later fields.
CutDetected ==
    wstatus = "ok" => /\ wire = NodeMarshalTo(wmsg)
                     /\ IsPrefix(wmsg.Links, sent.Links) /\ wmsg.Data \in {<<>>, sent.Data}
                     /\ IsPrefix(wmsg.unrecognized, sent.unrecognized)

\* Equal tells a node from what was left of it after a cut, unless what was cut
\* is a Data field of no bytes.
EqualTells ==
    wstatus = "ok" => (NodeEqual(wmsg, sent) <=>
                        \/ NodeMarshalTo(wmsg) = NodeMarshalTo(sent)
                        \/ [sent EXCEPT !.Data = <<>>] = wmsg /\ BytesOf(sent.Data) = <<>>)

-----------------------------------------------------------------------------
(***************************************************************************)
(* Nodes in memory and the commands that read and write them whole:        *)
(* ProtoNode with the encoding and CID it remembers (merkledag/node.go,    *)
(* coding.go), 'object get', 'object put' and 'object new'                 *)
(* (core/commands/object/object.go) and ObjectAPI.Put                      *)
(* (core/coreapi/object.go).                                               *)
(*                                                                         *)
(* Link names are numbers in the order of the names.  Bytes of an encoded  *)
(* node are the links in the order written and the data; a CID is the      *)
(* prefix and the bytes.  nil is the empty sequence, a value v is <<v>>.   *)
(***************************************************************************)

CONSTANTS ONames,           \* link names, 1 .. n
          OTargets,         \* CIDs linked to
          OData,            \* node data: "empty", "text", "binary"
          MaxNodeOps

OLink == [name : ONames, cid : OTargets]
SomeLinks == BoundedSeq(OLink, 2)
Raw(d) == <<"raw", d>>

VARIABLES pnode,            \* links, data, Prefix, encoded, cached
          stale,            \* history: links replaced while an encoding was remembered
          reset,            \* history: the prefix was reset while a CID was remembered
          foreign,          \* history: the bytes of a block that was decoded, while the
                            \* node has not been changed
          nops,
          ocmd              \* a 'get' followed by a 'put'

ovars == <<pnode, stale, reset, foreign, nops, ocmd>>

-----------------------------------------------------------------------------
(* ProtoNode                                                               *)

NewNode == [links |-> <<>>, data |-> Raw("empty"), prefix |-> "unset", encoded |-> <<>>, cached |-> <<>>]
\* sort.Stable(LinkSlice(n.links))
Sorted(ls) == FoldLeft(LAMBDA acc, x : acc \o SelectSeq(ls, LAMBDA l : l.name = x), <<>>, SetToSortSeq(ONames, <))
Marshal(n) == [links |-> Sorted(n.links), data |-> n.data]
Sum(p, bytes) == [prefix |-> p, bytes |-> bytes]

EncodeProtobuf(n, force) ==
    LET fresh == n.encoded = <<>> \/ force
        e == [n EXCEPT !.links = Sorted(@),
                       !.encoded = IF fresh THEN <<Marshal(n)>> ELSE @,
                       !.cached = IF fresh THEN <<>> ELSE @]
        p == [e EXCEPT !.prefix = IF @ = "unset" THEN "v0" ELSE @]
    IN IF e.cached # <<>> THEN e ELSE [p EXCEPT !.cached = <<Sum(p.prefix, p.encoded[1])>>]
\* SetPrefix(nil) forgets nothing.
SetPrefix(n, p) == IF p = "nil" THEN [n EXCEPT !.prefix = "v0"]
                   ELSE [n EXCEPT !.prefix = p, !.encoded = <<>>, !.cached = <<>>]
Cid(n) ==
    IF n.encoded # <<>> /\ n.cached # <<>> THEN n
    ELSE LET p == IF n.prefix = "unset" THEN SetPrefix(n, "nil") ELSE n
             e == EncodeProtobuf(p, FALSE)
         IN [e EXCEPT !.cached = <<Sum(p.prefix, e.encoded[1])>>]
AddRawLinkCached(n, l) == [n EXCEPT !.links = Append(@, l)]
AddRawLink(n, l) == [n EXCEPT !.links = Append(@, l), !.encoded = <<>>]
RemoveNodeLink(n, x) == [n EXCEPT !.links = SelectSeq(@, LAMBDA l : l.name # x), !.encoded = <<>>]
SetData(n, d) == [n EXCEPT !.data = d, !.encoded = <<>>, !.cached = <<>>]
SetLinks(n, ls) == [n EXCEPT !.links = ls]
UnmarshalJSON(n, d, ls) == [n EXCEPT !.data = d, !.links = ls]
Copy(n) == [NewNode EXCEPT !.data = n.data, !.links = n.links, !.prefix = n.prefix]
UpdateNodeLink(n, l) == AddRawLink(RemoveNodeLink(Copy(n), l.name), l)
\* The bytes are kept, whatever the order of the links in them.
DecodeResorted(bytes) == [NewNode EXCEPT !.links = Sorted(bytes.links), !.data = bytes.data,
                                         !.encoded = <<[bytes EXCEPT !.links = Sorted(@)]>>]
DecodeProtobuf(bytes) == [NewNode EXCEPT !.links = Sorted(bytes.links), !.data = bytes.data, !.encoded = <<bytes>>]
DecodeProtobufBlock(c) == [DecodeProtobuf(c.bytes) EXCEPT !.cached = <<c>>, !.prefix = c.prefix]

-----------------------------------------------------------------------------
(* 'object get' | 'object put'.  A string field holds the data as text or in   *)
(* base64; JSON and XML replace what is not UTF-8.                          *)

Formats == {"json", "xml", "protobuf"}
Encodings == {"text", "base64"}
encodeData(d, enc) == IF enc = "text" THEN d ELSE <<"b64", d>>
Utf8(s) == IF s = Raw("binary") THEN <<"replaced", "binary">> ELSE s
Struct(links, s) == [links |-> links, str |-> s]
Refused == [ok |-> FALSE, node |-> NewNode]
Accepted(n) == [ok |-> TRUE, node |-> n]

\* deserializeNode: text that is not base64 is refused; the empty text is base64.
deserializeNode(st, enc) ==
    LET set(d) == Accepted(SetLinks(SetData(NewNode, d), st.links))
    IN CASE enc = "text" -> set(st.str)
         [] enc = "base64" /\ st.str = Raw("empty") -> set(st.str)
         [] enc = "base64" /\ st.str[1] = "b64" -> set(st.str[2])
         [] OTHER -> Refused
\* base64 of no bytes is the empty string.
StringOf(d, enc) == IF d = Raw("empty") THEN d ELSE encodeData(d, enc)

\* What ObjectGetCmd writes: the struct, through JSON when a daemon serves it;
\* the protobuf marshaler takes the field for text whatever its encoding.
ObjectGet(n, fmt, enc, daemon) ==
    LET s == StringOf(n.data, enc)
        st == Struct(n.links, IF daemon THEN Utf8(s) ELSE s)
    IN IF fmt = "protobuf" THEN Marshal(deserializeNode(st, "text").node)
       ELSE Struct(st.links, Utf8(st.str))

\* objectPut, and ObjectAPI.Put without its check of the size: the input is cut
\* at the limit, and text that is cut does not parse.
NodeEmpty(st) == st.str = Raw("empty") /\ st.links = <<>>
objectPutUnlinked(stream, fmt, enc) ==
    IF fmt = "protobuf" THEN Accepted(DecodeProtobuf(stream))
    ELSE IF NodeEmpty(stream) THEN Refused ELSE deserializeNode(Struct(<<>>, stream.str), enc)
objectPut(stream, fmt, enc) ==
    IF fmt = "protobuf" THEN Accepted(DecodeProtobuf(stream))
    ELSE IF NodeEmpty(stream) THEN Refused ELSE deserializeNode(stream, enc)
Cut(bytes) == {[bytes EXCEPT !.data = Raw("empty")]} \cup {[links |-> SubSeq(bytes.links, 1, k), data |-> Raw("empty")] : k \in 0 .. Len(bytes.links)}
PutLarge(stream, fmt, api) ==
    IF ~api \/ fmt # "protobuf" THEN {Refused} ELSE {Refused} \cup {Accepted(DecodeProtobuf(b)) : b \in Cut(stream)}

-----------------------------------------------------------------------------
Same == UNCHANGED <<stale, reset, foreign>>
Changed(n) == /\ pnode' = n /\ stale' = FALSE /\ reset' = FALSE /\ foreign' = <<>>
Op == ocmd.step = "none" /\ nops < MaxNodeOps /\ nops' = nops + 1 /\ UNCHANGED ocmd

Encode == Op /\ pnode' = EncodeProtobuf(pnode, FALSE) /\ Same
AskCid == Op /\ pnode' = Cid(pnode) /\ Same
AddLink(l) == Op /\ Len(pnode.links) < 2 /\ Changed(AddRawLink(pnode, l))
RemoveLink(x) == Op /\ Changed(RemoveNodeLink(pnode, x))
ChangeData(d) == Op /\ Changed(SetData(pnode, Raw(d)))
ReplaceLinks(ls) ==
    /\ Op /\ pnode' = SetLinks(pnode, ls) /\ foreign' = <<>>
    /\ stale' = (stale \/ pnode.encoded # <<>>) /\ UNCHANGED reset
ReadJSON(d, ls) ==
    /\ Op /\ pnode' = UnmarshalJSON(pnode, Raw(d), ls) /\ foreign' = <<>>
    /\ stale' = (stale \/ pnode.encoded # <<>>) /\ UNCHANGED reset
Prefix(p) ==
    /\ Op /\ pnode' = SetPrefix(pnode, p)
    /\ IF p = "nil" THEN reset' = (reset \/ pnode.encoded # <<>>) /\ UNCHANGED <<stale, foreign>>
       ELSE reset' = FALSE /\ stale' = FALSE /\ foreign' = <<>>
CopyNode == Op /\ Changed(Copy(pnode))
UpdateLink(l) == Op /\ Changed(UpdateNodeLink(pnode, l))
\* A block is read back, perhaps one whose links another program did not sort.
ReadBlock(ls, d, p) ==
    LET c == Sum(p, [links |-> ls, data |-> Raw(d)])
    IN /\ Op /\ nops = 0
       /\ pnode' = DecodeProtobufBlock(c) /\ foreign' = <<c>>
       /\ stale' = FALSE /\ reset' = FALSE

GetCommand(n, fmt, enc, daemon, api, large) ==
    /\ ocmd.step = "none" /\ nops = 0
    /\ ocmd' = [step |-> "got", of |-> n, fmt |-> fmt, enc |-> enc, daemon |-> daemon, api |-> api, large |-> large,
                stream |-> ObjectGet(n, fmt, enc, daemon), result |-> Refused]
    /\ UNCHANGED <<pnode, stale, reset, foreign, nops>>
PutCommand ==
    /\ ocmd.step = "got"
    /\ \E r \in IF ocmd.large THEN PutLarge(ocmd.stream, ocmd.fmt, ocmd.api)
               ELSE {objectPut(ocmd.stream, ocmd.fmt, ocmd.enc)} :
          ocmd' = [ocmd EXCEPT !.step = "put", !.result = r]
    /\ UNCHANGED <<pnode, stale, reset, foreign, nops>>

OInit ==
    /\ pnode = NewNode /\ stale = FALSE /\ reset = FALSE /\ foreign = <<>> /\ nops = 0
    /\ ocmd = [step |-> "none"]
ONext ==
    \/ Encode \/ AskCid \/ CopyNode \/ PutCommand
    \/ \E l \in OLink : AddLink(l) \/ UpdateLink(l)
    \/ \E x \in ONames : RemoveLink(x)
    \/ \E d \in OData : ChangeData(d)
    \/ \E ls \in SomeLinks : ReplaceLinks(ls) \/ \E d \in OData : ReadJSON(d, ls) \/ \E p \in {"v0", "v1"} : ReadBlock(ls, d, p)
    \/ \E p \in {"nil", "v1"} : Prefix(p)
    \/ \E fmt \in Formats, enc \in Encodings, daemon, api, large \in BOOLEAN, ls \in SomeLinks, d \in OData :
          GetCommand([NewNode EXCEPT !.links = Sorted(ls), !.data = Raw(d)], fmt, enc, daemon, api, large)
OSpec == OInit /\ [][ONext]_ovars

-----------------------------------------------------------------------------
\* The CID a node answers with is that of its present data, links and prefix,
\* whatever it was asked before: unless SetLinks or UnmarshalJSON replaced the
\* content of a node with an encoding, SetPrefix(nil) came after one, or it is a
\* block as it was read.
CidOfContent ==
    (ocmd.step = "none" /\ ~stale /\ ~reset /\ foreign = <<>>) =>
        LET c == Cid(pnode).cached[1]
        IN c.bytes = Marshal(pnode) /\ c.prefix = IF pnode.prefix = "unset" THEN "v0" ELSE pnode.prefix

\* A block that is read keeps its bytes and its CID until it is changed, also when
\* its links are not in the order this program writes them.
BlockKept == (foreign # <<>> /\ ~reset) => /\ Cid(pnode).cached = foreign
                                           /\ EncodeProtobuf(pnode, FALSE).encoded[1] = foreign[1].bytes

\* 'object put' of what 'object get' wrote, in the same encodings, stores the same
\* node or is refused: unless the data is not text and went through a format or a
\* daemon as text, or protobuf was asked for with base64 data, or the API cut a
\* large protobuf.
GetPutSame ==
    (ocmd.step = "put" /\ ocmd.result.ok) =>
        \/ Cid(ocmd.result.node).cached[1].bytes = Marshal(ocmd.of)
        \/ ocmd.of.data = Raw("binary") /\ ocmd.enc = "text" /\ (ocmd.fmt # "protobuf" \/ ocmd.daemon)
        \/ ocmd.fmt = "protobuf" /\ ocmd.enc = "base64"
        \/ ocmd.large /\ ocmd.api

-----------------------------------------------------------------------------
(***************************************************************************)
(* 'tar add' and 'tar cat' (core/commands/tar.go): ImportTar and the       *)
(* reader of ExportTar (tar/format.go).                                    *)
(*                                                                         *)
(* A header is a node with its bytes, a link "data" to the content when    *)
(* there is some, and a link for every entry below it, under its name with *)
(* a dash before it.  The editor that inserts headers is DagEdit's; here   *)
(* it is the edit of the tree it is shown to make (DagEdit!EditExact).     *)
(***************************************************************************)

CONSTANTS TEntry,           \* the entries a tar file may have: a path and a size
          TOrder,           \* link keys in the order of links
          TLength,          \* bound on the entries of a file
          BlockSize,        \* the code's is 512
          Buffers           \* lengths of the buffers the reader is given

VARIABLES tfile,            \* the entries imported, in order
          imported,         \* how many are
          troot,            \* the editor's root
          frames,           \* the readers: links left, header and file bytes left, padding
          tout,             \* the bytes read
          teof

tvars == <<tfile, imported, troot, frames, tout, teof>>

\* A node: the entry whose bytes it holds (0: none), its size, its links.
TNode(id, size, links) == [id |-> id, size |-> size, links |-> links]
Empty == TNode(0, 0, <<>>)
DataKey == <<"", "data">>
escapeNot(name) == <<"", name>>
escape(name) == <<"-", name>>
escapePath(p) == [i \in DOMAIN p |-> escape(p[i])]
Keys(n) == DOMAIN n.links
With(n, k, c) == [n EXCEPT !.links = [x \in Keys(n) \cup {k} |-> IF x = k THEN c ELSE n.links[x]]]

\* The header of entry i, with its content.
Header(i) ==
    LET e == tfile[i]
    IN IF e.size > 0 THEN With(TNode(i, 0, <<>>), DataKey, TNode(i, e.size, <<>>)) ELSE TNode(i, 0, <<>>)
RECURSIVE InsertNodeAtPath(_, _, _)
InsertNodeAtPath(n, p, c) ==
    IF Len(p) = 1 THEN With(n, p[1], c)
    ELSE With(n, p[1], InsertNodeAtPath(IF p[1] \in Keys(n) THEN n.links[p[1]] ELSE Empty, Tail(p), c))

ImportEntry ==
    /\ imported < Len(tfile) /\ imported' = imported + 1
    /\ troot' = InsertNodeAtPath(troot, escapePath(tfile[imported + 1].path), Header(imported + 1))
    /\ UNCHANGED <<tfile, frames, tout, teof>>

-----------------------------------------------------------------------------
LinksOf(n) == LET ks == SelectSeq(TOrder, LAMBDA k : k \in Keys(n)) IN [i \in DOMAIN ks |-> n.links[ks[i]]]
Frame(links) == [links |-> links, hdr |-> <<>>, child |-> <<>>, file |-> <<>>, read |-> 0, pad |-> 0]

ExportTar ==
    /\ imported = Len(tfile) /\ frames = <<>> /\ ~teof
    /\ frames' = <<Frame(LinksOf(troot))>> /\ UNCHANGED <<tfile, imported, troot, tout, teof>>

\* Read with a buffer of n bytes: of the last reader, which is the child of the
\* one before it.  hdr is nil or the bytes left; so is file.
Top == frames[Len(frames)]
SetTop(f) == [frames EXCEPT ![Len(frames)] = f]
Least(a, b) == IF a < b THEN a ELSE b
Put(k, token) == tout' = tout \o [i \in 1 .. k |-> token]
HeaderBytes(id) == IF id = 0 THEN 0 ELSE BlockSize

ReadHeader(n) ==
    /\ Top.hdr # <<>>
    /\ LET k == Least(n, Top.hdr[1].left)
       IN /\ Put(k, <<"h", Top.hdr[1].id>>)
          /\ frames' = SetTop(IF k = 0 THEN [Top EXCEPT !.hdr = <<>>] ELSE [Top EXCEPT !.hdr[1].left = @ - k])
PadNone(nr) == 0
PadTo(nr) == (BlockSize - (nr % BlockSize)) % BlockSize
ReadFile(n) ==
    /\ Top.hdr = <<>> /\ Top.child = <<>> /\ Top.file # <<>>
    /\ LET k == Least(n, Top.file[1].left)
           done == k = Top.file[1].left
       IN /\ Put(k, <<"d", Top.file[1].id>>)
          /\ frames' = SetTop(IF done THEN [Top EXCEPT !.file = <<>>, !.read = 0, !.pad = PadTo(Top.read + k)]
                              ELSE [Top EXCEPT !.file[1].left = @ - k, !.read = @ + k])
ReadPad(n) ==
    /\ Top.hdr = <<>> /\ Top.child = <<>> /\ Top.file = <<>> /\ Top.pad > 0
    /\ LET k == Least(n, Top.pad) IN Put(k, <<"0", 0>>) /\ frames' = SetTop([Top EXCEPT !.pad = @ - k])
\* The next header; a node with content has no entries read below it.
NextLink ==
    /\ Top.hdr = <<>> /\ Top.child = <<>> /\ Top.file = <<>> /\ Top.pad = 0 /\ Top.links # <<>>
    /\ LET nd == Head(Top.links)
           f == [Top EXCEPT !.links = Tail(@), !.hdr = <<[id |-> nd.id, left |-> HeaderBytes(nd.id)]>>]
       IN frames' = SetTop(IF DataKey \in Keys(nd)
                           THEN [f EXCEPT !.file = <<[id |-> nd.links[DataKey].id, left |-> nd.links[DataKey].size]>>]
                           ELSE [f EXCEPT !.child = IF Keys(nd) = {} THEN <<>> ELSE <<LinksOf(nd)>>])
    /\ UNCHANGED tout

\* The reader of the entries below, once the header is read, until its end.
ReadChild ==
    /\ Top.hdr = <<>> /\ Top.child # <<>>
    /\ frames' = Append(SetTop([Top EXCEPT !.child = <<>>]), Frame(Top.child[1]))
    /\ UNCHANGED tout
ReadEnds ==
    /\ Top = Frame(<<>>)
    /\ frames' = SubSeq(frames, 1, Len(frames) - 1) /\ UNCHANGED tout
ReadTar ==
    /\ frames # <<>>
    /\ \/ \E n \in Buffers : ReadHeader(n) \/ ReadFile(n) \/ ReadPad(n)
       \/ NextLink \/ ReadChild \/ ReadEnds
    /\ teof' = (frames' = <<>>)
    /\ UNCHANGED <<tfile, imported, troot>>

TInit == /\ tfile \in BoundedSeq(TEntry, TLength) /\ imported = 0 /\ troot = Empty
         /\ frames = <<>> /\ tout = <<>> /\ teof = FALSE
TNext == ImportEntry \/ ExportTar \/ ReadTar
TSpec == TInit /\ [][TNext]_tvars

-----------------------------------------------------------------------------
\* The entries of the file that a later one replaces (the same path, or a header
\* for a directory that has entries already), or that are below a
\* file that is not replaced.
TarLost(i) == \/ \E j \in i + 1 .. Len(tfile) : IsPrefix(tfile[j].path, tfile[i].path)
           \/ \E j \in 1 .. i - 1 : /\ tfile[j].size > 0 /\ IsStrictPrefix(tfile[j].path, tfile[i].path)
                                    /\ \A k \in j + 1 .. i : ~IsPrefix(tfile[k].path, tfile[j].path)
Kept == {i \in DOMAIN tfile : ~TarLost(i)}
Count(token) == Len(SelectSeq(tout, LAMBDA t : t = token))

\* "This function is the inverse of ImportTar": every entry that was imported is
\* exported once, with all its content, except those that were replaced or are
\* below a file.
TarRoundTrip ==
    teof => \A i \in DOMAIN tfile :
               /\ Count(<<"h", i>>) = IF i \in Kept THEN BlockSize ELSE 0
               /\ Count(<<"d", i>>) = IF i \in Kept THEN tfile[i].size ELSE 0

\* As the comment says it, of every tar file.
TarInverse == teof => \A i \in DOMAIN tfile : Count(<<"h", i>>) = BlockSize /\ Count(<<"d", i>>) = tfile[i].size

\* Whatever the buffers it is read with, every header starts on a block, and its
\* content follows it at once.
TarAligned ==
    \A x \in DOMAIN tout :
        /\ tout[x][1] = "h" => tout[((x - 1) \div BlockSize) * BlockSize + 1] = tout[x]
        /\ (tout[x][1] = "d" /\ x > 1 /\ tout[x - 1] # tout[x]) => tout[x - 1] = <<"h", tout[x][2]>>
=============================================================================
