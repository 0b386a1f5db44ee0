------------------------------- MODULE FlvTag --------------------------------
(***************************************************************************)
(* pkg/av/flv/tag.go: the first bytes of an audio or video message, as far *)
(* as they decide whether it is decoded.                                   *)
(***************************************************************************)
EXTENDS Integers

(* The length of a message, and of audio the format: 10 is AAC, 2 stands   *)
(* for any other.                                                          *)
VideoTags == [type : {"video"}, len : {4, 5}]

AudioTags == [type : {"audio"}, len : {0, 1, 2}, format : {2, 10}]

(* decodeVideoHeader and decodeAudioHeader check the length first, ...     *)
Decodes(t) == IF t.type = "video" THEN t.len >= 5 ELSE t.len >= 1

(* ... but of an AAC message the second byte is read, and it may have one. *)
Overruns(t) == t.type = "audio" /\ t.format = 10 /\ t.len = 1
=============================================================================
