---------------------------- MODULE MCLineTaskflow ----------------------------
(* Small fields and frames for LineTaskflow: 3 bits of bc_id and adc, of which   *)
(* a reader keeps 2, timestamps of 2 + 2 bits.                                   *)
EXTENDS LineTaskflow, TLC

Hit(channel_num, bc_id, adc) == [channel_num |-> channel_num, bc_id |-> bc_id, adc |-> adc]
Marker(srs_timestamp) == [vmm_id |-> 1, srs_timestamp |-> srs_timestamp]
Header(n) == [frame_counter |-> n, vmm_tag |-> 1, fec_id |-> 1]

\* Two hits and a marker.
Measured ==
  {[header |-> Header(1), hit_data |-> <<Hit({0}, {0, 2}, {1, 2}), Hit({}, {1}, {0})>>,
    marker_data |-> <<Marker({0, 3})>>]}

\* A header without a complete element.
TooShort == {[header |-> Header(3), elements |-> <<>>]}

Extensions == [binary |-> ".bin", lmd |-> ".lmd", message |-> ".binpb", tree |-> ".root",
               list |-> ".json", rawsocket |-> ":?", socket |-> ":", text |-> ".txt"]

LineSymmetry == Permutations(Lines)

\* The conversions that the program never composes to the identity on frames so
\* small are inverse to each other on every value of the fields.
ASSUME GrayInverse == \A v \in SUBSET (0..5) : Fits(v, BcLen) => GrayToBinary[BinaryToGray(v)] = v
ASSUME TimestampInverse ==
  \A v \in SUBSET (0..5) : Fits(v, LowLen + HighLen) => MergeBits(GetHigh(v), GetLow(v)) = v
===============================================================================
