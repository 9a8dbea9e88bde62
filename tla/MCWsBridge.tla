----------------------------- MODULE MCWsBridge -----------------------------
(***************************************************************************)
(* Instances of WsBridge. Video 1 has a file below data/videos and         *)
(* segments; 3 is an upload. Of 4 and 5 only segments are left, with a     *)
(* segment_info.json that is too large.                                    *)
(***************************************************************************)
EXTENDS WsBridge, TLC

CONSTANTS w1, w2

One == [w \in Workers |-> 1]
Two == [w \in Workers |-> 2]
TwoAndOne == w1 :> 2 @@ w2 :> 1

Path == 1 :> <<"a">>
UploadPath == 3 :> <<"data", "videos", "c">>
File == <<"data", "videos", "a">> :> 5 @@ <<"data", "videos", "c">> :> 4
LongFile == <<"data", "videos", "a">> :> 10
SegmentCount == 1 :> 1 @@ 5 :> 3
ManySegments == 4 :> 5

Chunk(v, off, len) == [type |-> "stream_chunk", video_id |-> v, offset |-> off,
                       length |-> len, connection_id |-> 1]
Segment(v, i) == [type |-> "ws_segment", video_id |-> v, segment |-> i]
WsInit(v) == [type |-> "ws_init", video_id |-> v]
Send == [type |-> "quic_send", connection_id |-> 1]

Malformed == [type |-> "stream_chunk", video_id |-> 1]

\* A client that watches, and one that takes chunks.
MixedTexts == w1 :> {Segment(1, 0), WsInit(5), Chunk(1, 4, 3)}
                @@ w2 :> {Segment(1, 0), Chunk(1, 1, 3), Send, Malformed}
SegmentTexts == w1 :> {Segment(1, 0), Segment(1, 1)}
PacketTexts == [w \in Workers |-> {Chunk(1, 1, 3), Send}]
LongTexts == w1 :> {WsInit(4)}
WrapTexts == w1 :> {Chunk(1, 0, 7)}
UploadTexts == w1 :> {Chunk(3, 0, 2)}
=============================================================================
