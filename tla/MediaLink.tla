------------------------------ MODULE MediaLink ------------------------------
(***************************************************************************)
(* One connection from a request to a decoded picture: ProtocolClient      *)
(* frames requests, TlvStreamDecoder cuts the byte stream into frames      *)
(* again, the server sends metadata and the fragments of packets, the      *)
(* client reassembles the packets and VideoDecoder, in a thread of its     *)
(* own, decodes them.                                                      *)
(*                                                                         *)
(* TCP delivers the cells of a frame, HeaderCells and one for each unit of *)
(* its value, in order and in pieces of any size. A cell is known by its   *)
(* frame and its place in it; the lengths a decoder reads are those of the *)
(* frame whose header it finds.                                            *)
(*                                                                         *)
(* The workers of the server execute requests side by side: any request    *)
(* that is queued may be the next to take effect, and between the removal  *)
(* of a session from sessions_ and the join of its threads another one may *)
(* begin, while the first still sends. Such a fragment, sent after the     *)
(* metadata of a later stream, is late and carries the stream number 0.    *)
(* When a sender ends is the matter of MediaStream; here it may always     *)
(* send no more.                                                           *)
(***************************************************************************)
EXTENDS Naturals, FiniteSets, Sequences

CONSTANTS
    HeaderCells,       \* TlvCodec::HeaderSize
    MaxLength,         \* maximum_value_size_
    CompactAt,         \* read_position_ from which the buffer is compacted
    Packets,           \* packets of a stream, numbered from 1
    Fragments,         \* fragments of a packet
    MaxPlays, MaxStops

ASSUME Sizes == {HeaderCells, MaxLength, CompactAt, Packets, Fragments} \subseteq Nat \ {0}
ASSUME RequestLimits == {MaxPlays, MaxStops} \subseteq Nat

VARIABLES
    up, down,          \* each way: cells under way, and frames not yet decoded
    buffer, position,  \* buffer_ and read_position_ of the server's decoder
    requests,          \* frames decoded by the server and not yet executed
    sessions,          \* entry in sessions_, sessions in start(), and senders
    receiveBuffer,
    assemblies,        \* by packet id: count, next and the data so far
    events,            \* queued signals and calls to the decoder's thread
    codec,             \* the stream the decoder is configured for, 0: none
    open,              \* the connection is open
    asked              \* requests made, for the bounds

linkVars == <<up, down, buffer, position, requests, sessions, receiveBuffer,
              assemblies, events, codec, open, asked>>
server == <<buffer, position, requests, sessions>>
client == <<receiveBuffer, assemblies>>
decoder == <<events, codec>>

Ids == 1..Packets

(* A stream is numbered by its metadata.                                   *)
GetStream == [type |-> "GetStream", stream |-> 0, length |-> MaxLength]
StopStream == [type |-> "StopStream", stream |-> 0, length |-> 0]
TooLong == [type |-> "TooLong", stream |-> 0, length |-> MaxLength + 1]
Error == [type |-> "Error", stream |-> 0, length |-> 1]
Metadata(s) == [type |-> "StreamMetadata", stream |-> s, length |-> 1]
Fragment(s, id, i) ==
    [type |-> "StreamPacket", stream |-> s, id |-> id, index |-> i, length |-> 1]

(* What a sender sends next; its stream is its place in sessions.senders.  *)
NewSender == [id |-> 0, index |-> 0]

LinkInit ==
    /\ up = [cells |-> <<>>, frames |-> 0]
    /\ down = [cells |-> <<>>, frames |-> 0]
    /\ buffer = <<>> /\ position = 0
    /\ requests = <<>>
    /\ sessions = [entry |-> FALSE, starting |-> 0, senders |-> <<>>]
    /\ receiveBuffer = <<>>
    /\ assemblies = [id \in {} |-> 0]
    /\ events = <<>> /\ codec = 0
    /\ open = TRUE
    /\ asked = [plays |-> 0, stops |-> 0]

-----------------------------------------------------------------------------
(* Frames as cells, and cells as frames.                                   *)
SizeOf(frame) == HeaderCells + frame.length
Unread(cells, from) == SubSeq(cells, from + 1, Len(cells))
CellsOf(frame) == [i \in 1..SizeOf(frame) |-> [frame |-> frame, at |-> i]]

Sent(flow, frame) ==
    [cells |-> flow.cells \o CellsOf(frame), frames |-> flow.frames + 1]
Arriving(flow, k) == SubSeq(flow.cells, 1, k)
Delivered(flow, k, decoded) ==
    [cells |-> Unread(flow.cells, k), frames |-> flow.frames - decoded]

(* The frame the cells at the front belong to, and whether it is complete. *)
HasHeader(cells) == Len(cells) >= HeaderCells
FrontFrame(cells) == cells[1].frame
Complete(cells) == HasHeader(cells) /\ Len(cells) >= SizeOf(FrontFrame(cells))

(* The loop of the server's decoder, one pass: a frame is cut off if it is *)
(* complete; a length over the limit ends it.                              *)
CutOne(c) ==
    LET f == FrontFrame(c.rest)
    IN  IF ~HasHeader(c.rest) THEN c
        ELSE IF f.length > MaxLength THEN [c EXCEPT !.tooLong = TRUE]
        ELSE IF ~Complete(c.rest) THEN c
        ELSE [c EXCEPT !.rest = Unread(@, SizeOf(f)), !.out = Append(@, f)]

Cut(cells) ==
    LET pass[n \in 0..Len(cells)] ==
            IF n = 0 THEN [rest |-> cells, out |-> <<>>, tooLong |-> FALSE]
            ELSE CutOne(pass[n - 1])
    IN  pass[Len(cells)]

-----------------------------------------------------------------------------
(* TlvStreamDecoder::append() on k more cells: what is decoded leaves the   *)
(* buffer only when it is empty or worth it.                                *)
CompactedBug(cells, from) ==                      \* the position is kept
    IF from = Len(cells) THEN [cells |-> <<>>, from |-> 0]
    ELSE IF from > 0 /\ (from >= CompactAt \/ from * 2 >= Len(cells))
    THEN [cells |-> Unread(cells, from), from |-> from]
    ELSE [cells |-> cells, from |-> from]

Compacted(cells, from) ==
    IF from = Len(cells) THEN [cells |-> <<>>, from |-> 0]
    ELSE IF from > 0 /\ (from >= CompactAt \/ from * 2 >= Len(cells))
    THEN [cells |-> Unread(cells, from), from |-> 0]
    ELSE [cells |-> cells, from |-> from]

(* connection_ready(): frames that were decoded are posted; a decoder that *)
(* throws has the connection closed, and its stream with it.               *)
ServerReads(k) ==
    LET cells == buffer \o Arriving(up, k)
        cut == Cut(Unread(cells, position))
        kept == Compacted(cells, Len(cells) - Len(cut.rest))
    IN  /\ open
        /\ up' = Delivered(up, k, Len(cut.out))
        /\ IF cut.tooLong
           THEN /\ buffer' = <<>> /\ position' = 0
                /\ open' = FALSE /\ sessions' = [sessions EXCEPT !.entry = FALSE]
                /\ UNCHANGED requests
           ELSE /\ buffer' = kept.cells /\ position' = kept.from
                /\ requests' = requests \o cut.out
                /\ UNCHANGED <<open, sessions>>
        /\ UNCHANGED <<down, client, decoder, asked>>

-----------------------------------------------------------------------------
(* StreamProtocolHandler and the sender of MediaStreamSession.             *)
Replies(frame) == down' = Sent(down, frame)
Executes(i, type) ==
    /\ open /\ i \in 1..Len(requests) /\ requests[i].type = type
    /\ requests' = SubSeq(requests, 1, i - 1) \o Unread(requests, i)

StartStream(i) ==
    /\ Executes(i, "GetStream") /\ ~sessions.entry
    /\ sessions' = [sessions EXCEPT !.entry = TRUE, !.starting = @ + 1]
    /\ UNCHANGED <<up, down, buffer, position, client, decoder, open, asked>>

(* There is a stream already.                                              *)
StartRefused(i) ==
    /\ Executes(i, "GetStream") /\ sessions.entry
    /\ Replies(Error)
    /\ UNCHANGED <<up, buffer, position, sessions, client, decoder, open, asked>>

(* The camera is open.                                                     *)
SendMetadata ==
    /\ open /\ sessions.starting > 0
    /\ Replies(Metadata(Len(sessions.senders) + 1))
    /\ sessions' = [sessions EXCEPT !.starting = @ - 1, !.senders = Append(@, NewSender)]
    /\ UNCHANGED <<up, buffer, position, requests, client, decoder, open, asked>>

(* The camera cannot be opened: the entry is erased, whosever it is by now. *)
StartFails ==
    /\ open /\ sessions.starting > 0
    /\ Replies(Error)
    /\ sessions' = [sessions EXCEPT !.starting = @ - 1, !.entry = FALSE]
    /\ UNCHANGED <<up, buffer, position, requests, client, decoder, open, asked>>

(* stop() erases the entry; the sender it waits for may leave amid a packet *)
(* and be overtaken by the stream of another worker.                       *)
StopStreamOf(i) ==
    /\ Executes(i, "StopStream")
    /\ sessions' = [sessions EXCEPT !.entry = FALSE]
    /\ UNCHANGED <<up, down, buffer, position, client, decoder, open, asked>>

(* fragment_packet(): all fragments of a packet, one after the other. The  *)
(* ring may have dropped packets. Every stream counts its packets from 1.  *)
SendFragment(n) ==
    LET sender == sessions.senders[n]
        stream == IF n = Len(sessions.senders) THEN n ELSE 0
    IN  /\ open
        /\ \E id \in Ids :
               /\ IF sender.index = 0 THEN id > sender.id ELSE id = sender.id
               /\ Replies(Fragment(stream, id, sender.index))
               /\ sessions' = [sessions EXCEPT !.senders[n] =
                                   [id |-> id, index |-> (sender.index + 1) % Fragments]]
        /\ UNCHANGED <<up, buffer, position, requests, client, decoder, open, asked>>

ServerStep ==
    \/ \E k \in 1..Len(up.cells) : ServerReads(k)
    \/ \E i \in 1..Len(requests) : StartStream(i) \/ StartRefused(i) \/ StopStreamOf(i)
    \/ SendMetadata \/ StartFails
    \/ \E n \in 1..Len(sessions.senders) : SendFragment(n)

-----------------------------------------------------------------------------
(* What dispatch() does to the assemblies, and the signals it emits to the *)
(* decoder's thread.                                                       *)
Without(f, id) == [i \in DOMAIN f \ {id} |-> f[i]]

BegunBug(as, f) ==                                \* the data is kept
    IF f.index = 0 /\ f.id \in DOMAIN as THEN [as EXCEPT ![f.id].next = 0]
    ELSE IF f.index # 0 THEN as
    ELSE [id \in DOMAIN as \cup {f.id} |->
              IF id = f.id THEN [next |-> 0, data |-> <<>>] ELSE as[id]]
Begun(as, f) ==
    IF f.index # 0 THEN as
    ELSE [id \in DOMAIN as \cup {f.id} |->
              IF id = f.id THEN [next |-> 0, data |-> <<>>] ELSE as[id]]

(* consumeFragment(): index 0 begins the packet anew.                      *)
ConsumeFragment(r, f) ==
    LET as == Begun(r.assemblies, f)
        data == Append(as[f.id].data, f)
    IN  IF f.id \notin DOMAIN as THEN r
        ELSE IF as[f.id].next # f.index THEN [r EXCEPT !.assemblies = Without(as, f.id)]
        ELSE IF f.index + 1 = Fragments
        THEN [r EXCEPT !.assemblies = Without(as, f.id),
                       !.events = Append(@, [call |-> "decode", data |-> data])]
        ELSE [r EXCEPT !.assemblies =
                  [as EXCEPT ![f.id] = [next |-> f.index + 1, data |-> data]]]

Dispatch(r, f) ==
    IF f.type = "StreamMetadata"
    THEN [r EXCEPT !.events = Append(@, [call |-> "configure", stream |-> f.stream])]
    ELSE IF f.type = "StreamPacket" THEN ConsumeFragment(r, f) ELSE r

(* readAvailable(), one pass of its loop: a frame is cut off and dispatched;*)
(* a length over the limit drops what was received.                        *)
ReadOne(r) ==
    LET f == FrontFrame(r.rest)
    IN  IF ~HasHeader(r.rest) THEN r
        ELSE IF f.length > MaxLength THEN [r EXCEPT !.rest = <<>>]
        ELSE IF ~Complete(r.rest) THEN r
        ELSE [Dispatch(r, f) EXCEPT !.rest = Unread(@, SizeOf(f)), !.read = @ + 1]

Read(cells) ==
    LET pass[n \in 0..Len(cells)] ==
            IF n = 0 THEN [rest |-> cells, read |-> 0,
                           assemblies |-> assemblies, events |-> events]
            ELSE ReadOne(pass[n - 1])
    IN  pass[Len(cells)]

ClientReads(k) ==
    LET done == Read(receiveBuffer \o Arriving(down, k))
    IN  /\ down' = Delivered(down, k, done.read)
        /\ receiveBuffer' = done.rest
        /\ assemblies' = done.assemblies
        /\ events' = done.events
        /\ UNCHANGED <<up, server, codec, open, asked>>

(* The user: MainWindow::playLive() and stopLive(). A request that is too  *)
(* long comes from another program; it counts as a play.                   *)
PlayLive ==
    /\ open /\ asked.plays < MaxPlays
    /\ asked' = [asked EXCEPT !.plays = @ + 1]
    /\ up' = Sent(up, GetStream)
    /\ UNCHANGED <<down, server, client, decoder, open>>

StopLive ==
    /\ open /\ asked.stops < MaxStops
    /\ asked' = [asked EXCEPT !.stops = @ + 1]
    /\ up' = Sent(up, StopStream)
    /\ assemblies' = [id \in {} |-> 0]
    /\ events' = Append(events, [call |-> "reset"])
    /\ UNCHANGED <<down, server, receiveBuffer, codec, open>>

SendTooLong ==
    /\ open /\ asked.plays < MaxPlays
    /\ asked' = [asked EXCEPT !.plays = @ + 1]
    /\ up' = Sent(up, TooLong)
    /\ UNCHANGED <<down, server, client, decoder, open>>

ClientStep ==
    \/ \E k \in 1..Len(down.cells) : ClientReads(k)
    \/ PlayLive \/ StopLive \/ SendTooLong

-----------------------------------------------------------------------------
(* VideoDecoder, in its thread: configure() may fail, decode() without a    *)
(* codec is an error.                                                       *)
Called(call) == events # <<>> /\ Head(events).call = call
Handled == events' = Tail(events)

Configure ==
    /\ Called("configure") /\ Handled
    /\ codec' \in {Head(events).stream, 0}
    /\ UNCHANGED <<up, down, server, client, open, asked>>

Decode ==
    /\ Called("decode") /\ Handled
    /\ UNCHANGED <<up, down, server, client, codec, open, asked>>

Reset ==
    /\ Called("reset") /\ Handled
    /\ codec' = 0
    /\ UNCHANGED <<up, down, server, client, open, asked>>

DecoderStep == Configure \/ Decode \/ Reset

LinkNext == ServerStep \/ ClientStep \/ DecoderStep
LinkSpec == LinkInit /\ [][LinkNext]_linkVars

-----------------------------------------------------------------------------
(* Wherever TCP cuts the streams and however the buffer is compacted, what  *)
(* a decoder still holds and what is under way make up exactly the frames   *)
(* that are not decoded, and none of them is complete already.              *)
IsFramed(cells) ==
    \A i \in 1..Len(cells) :
        IF i = Len(cells) \/ cells[i].at = SizeOf(cells[i].frame)
        THEN /\ cells[i].at = SizeOf(cells[i].frame)
             /\ i < Len(cells) => cells[i + 1].at = 1
        ELSE cells[i + 1] = [cells[i] EXCEPT !.at = @ + 1]

Holds(rest, flow) ==
    LET cells == rest \o flow.cells
    IN  /\ IsFramed(cells) /\ (cells # <<>> => cells[1].at = 1)
        /\ Cardinality({i \in 1..Len(cells) : cells[i].at = 1}) = flow.frames
        /\ ~Complete(rest)

FramesAreRecovered ==
    /\ open => Holds(Unread(buffer, position), up)
    /\ Holds(receiveBuffer, down)

(* What is given to the decoder is a packet of one stream with all of its   *)
(* fragments in order, although ids are used again and streams stop amid a  *)
(* packet, and it is decoded with the metadata of that stream or not at all; *)
(* unless a late fragment, which an assembly takes for one of its own, is a *)
(* part of it. A packet with no such part is whole whatever came in between. *)
Late(data) == \E i \in 1..Len(data) : data[i].stream = 0
Whole(data) ==
    \E id \in Ids :
        data = [i \in 1..Fragments |-> Fragment(data[1].stream, id, i - 1)]

PacketsAreWhole ==
    /\ \A i \in 1..Len(events) : events[i].call = "decode" =>
           Late(events[i].data) \/ Whole(events[i].data)
    /\ Called("decode") /\ ~Late(Head(events).data)
           => codec \in {0, Head(events).data[1].stream}

(* No fragment of a stopped stream is decoded with the metadata of the next.*)
(* The workers do not keep this (MCMediaLinkMixed.cfg).                     *)
NothingLateIsDecoded == Called("decode") /\ codec # 0 => ~Late(Head(events).data)
=============================================================================
