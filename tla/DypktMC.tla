------------------------------ MODULE DypktMC ------------------------------
(* Records for model checking module Dypkt: every type, every marker width,  *)
(* values on both sides of a varint form, empty and non-empty blocks, and    *)
(* payload bytes that look like markers.                                     *)
EXTENDS Dypkt

Record(t, i, v) == [type |-> t, index |-> i, value |-> v]

PlainRecords ==
  { Record(dype_bool, 7, TRUE), Record(dype_bool, 8, FALSE),
    Record(dype_int, 255, -1), Record(dype_int, 256, 64), Record(dype_int, 0, -8256),
    Record(dype_uint, 8191, 127), Record(dype_uint, 8192, 128), Record(dype_uint, MaxIndex, 16512),
    Record(dype_uint, 3, 2113664),
    Record(dype_float, 0, <<63, 128, 0, 0>>), Record(dype_double, 1, <<64, 9, 33, 251, 84, 68, 45, 24>>),
    Record(dype_string, 0, <<>>), Record(dype_string, 1, <<120, 16>>),
    Record(dype_bytes, 0, <<>>), Record(dype_bytes, 2, <<240, 255, 0>>),
    Record(dype_f, dype_f_eof, <<>>), Record(dype_f, dype_f_version, 300),
    Record(dype_f, dype_f_protocol, <<106>>), Record(dype_f, dype_f_proto_version, 1) }

=============================================================================
