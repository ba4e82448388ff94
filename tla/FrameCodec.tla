------------------------------ MODULE FrameCodec ------------------------------
(***************************************************************************)
(* The conversions of a frame: the datagram a FEC sends, the structure     *)
(* StructData, the Protobuf message, and back.                             *)
(*                                                                         *)
(* A number that is cut into bits is the set of the positions of its bits: *)
(* it fits n bits if the positions are below n, a shift moves them and the *)
(* exclusive or of two numbers is their symmetric difference.  channel_num *)
(* stands for the fields of a hit that are only copied (tdc, offset,       *)
(* vmm_id, is_over_threshold too), frame_counter for udp_timestamp and     *)
(* overflow.  The order of the bytes is left to the libraries.             *)
(***************************************************************************)
EXTENDS Naturals, Sequences

CONSTANTS
  ChannelLen, BcLen, AdcLen,  \* bits of a hit's fields in a datagram
  LowLen, HighLen,            \* bits of the two parts of a timestamp
  CastLen      \* bits of the uint8_t that a reader casts adc to

ASSUME CodecAssumption ==
  {ChannelLen, BcLen, AdcLen, LowLen, HighLen, CastLen} \subseteq Nat

Fits(value, length) == value \subseteq 0..(length - 1)
ShiftRight(value, n) == {i - n : i \in {j \in value : j >= n}}
ShiftLeft(value, n) == {i + n : i \in value}
Xor(a, b) == (a \ b) \cup (b \ a)

BinaryToGray(bits) == Xor(bits, ShiftRight(bits, 1))

\* The loop that shifts the value out and accumulates its exclusive or.
GrayToBinary ==
  LET bin[gray \in SUBSET (0..(BcLen - 1))] ==
        IF gray = {} THEN {} ELSE Xor(gray, bin[ShiftRight(gray, 1)])
  IN bin

GetLow(timestamp) == timestamp \cap 0..(LowLen - 1)
GetHigh(timestamp) == ShiftRight(timestamp, LowLen) \cap 0..(HighLen - 1)
MergeBits(high, low) == ShiftLeft(high, LowLen) \cup low

-----------------------------------------------------------------------------
(* The structure of a frame *)

Hits == [channel_num : SUBSET Nat, bc_id : SUBSET Nat, adc : SUBSET Nat]
Markers == [vmm_id : Nat, srs_timestamp : SUBSET Nat]
Frames ==
  [header : [frame_counter : Nat, vmm_tag : Nat, fec_id : Nat],
   hit_data : Seq(Hits), marker_data : Seq(Markers)]

EmptyHeader == [frame_counter |-> 0, vmm_tag |-> 0, fec_id |-> 0]
EmptyStruct == [header |-> EmptyHeader, hit_data |-> <<>>, marker_data |-> <<>>]

HitFits(hit) ==
  Fits(hit.channel_num, ChannelLen) /\ Fits(hit.bc_id, BcLen) /\ Fits(hit.adc, AdcLen)
MarkerFits(marker) == Fits(marker.srs_timestamp, LowLen + HighLen)

HitToCompact(hit) ==
  [flag |-> 1, channel_num |-> hit.channel_num, adc |-> hit.adc,
   bc_id |-> BinaryToGray(hit.bc_id)]

MarkerToCompact(marker) ==
  [flag |-> 0, vmm_id |-> marker.vmm_id, timestamp_low_bits |-> GetLow(marker.srs_timestamp),
   timestamp_high_bits |-> GetHigh(marker.srs_timestamp)]

MapSeq(Op(_), s) == [i \in DOMAIN s |-> Op(s[i])]

\* StructSerializer fails at the first hit or marker that has too large a value.
Serializable(data) ==
  /\ \A i \in DOMAIN data.hit_data : HitFits(data.hit_data[i])
  /\ \A i \in DOMAIN data.marker_data : MarkerFits(data.marker_data[i])

\* A datagram: its header and its complete elements, hits before markers.
Serialize(data) ==
  [header |-> data.header,
   elements |-> MapSeq(HitToCompact, data.hit_data)
                  \o MapSeq(MarkerToCompact, data.marker_data)]

ArrayToHit(element) ==
  [channel_num |-> element.channel_num, adc |-> element.adc,
   bc_id |-> GrayToBinary[element.bc_id]]

ArrayToMarkerSwapped(element) ==
  [vmm_id |-> element.vmm_id,
   srs_timestamp |-> MergeBits(element.timestamp_low_bits, element.timestamp_high_bits)]

ArrayToMarker(element) ==
  [vmm_id |-> element.vmm_id,
   srs_timestamp |-> MergeBits(element.timestamp_high_bits, element.timestamp_low_bits)]

IsHit(element) == element.flag = 1

\* A datagram without a complete element is an error.
Deserializable(datagram) == datagram.elements # <<>>

\* translate_raw_data: the elements are appended to what the structure has.
Translate(elements, data) ==
  LET read[n \in 0..Len(elements)] ==
        IF n = 0 THEN data
        ELSE IF IsHit(elements[n])
             THEN [read[n - 1] EXCEPT !.hit_data = Append(@, ArrayToHit(elements[n]))]
             ELSE [read[n - 1] EXCEPT !.marker_data = Append(@, ArrayToMarker(elements[n]))]
  IN read[Len(elements)]

Deserialize(datagram, data) ==
  IF ~Deserializable(datagram) THEN data
  ELSE Translate(datagram.elements, [data EXCEPT !.header = datagram.header])

\* CompactExportData::set_value: what goes into a JSON file, one column for each field.
Columns(fields, rows) == [field \in fields |-> [i \in DOMAIN rows |-> rows[i][field]]]

Export(data) ==
  [header |-> data.header,
   hit_size |-> Len(data.hit_data),
   hit_data |-> Columns({"channel_num", "adc", "bc_id"}, data.hit_data),
   marker_size |-> Len(data.marker_data),
   marker_data |-> Columns({"vmm_id", "srs_timestamp"}, data.marker_data)]

-----------------------------------------------------------------------------
(* The Protobuf message *)

\* The message has no field for vmm_tag.
ToProto(data) ==
  [header |-> [frame_counter |-> data.header.frame_counter, fec_id |-> data.header.fec_id],
   marker_data |-> data.marker_data,
   hit_data |-> data.hit_data]

\* ProtoMsgReader::convert.  adc, which has AdcLen bits, is cast to uint8_t.
FromProto(proto) ==
  [header |-> [EmptyHeader EXCEPT !.frame_counter = proto.header.frame_counter,
                                  !.fec_id = proto.header.fec_id],
   hit_data |-> MapSeq(LAMBDA h : [h EXCEPT !.adc = @ \cap 0..(CastLen - 1)], proto.hit_data),
   marker_data |-> proto.marker_data]
===============================================================================
