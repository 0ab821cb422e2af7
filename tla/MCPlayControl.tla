--------------------------- MODULE MCPlayControl ----------------------------
(* Small instances of PlayControl: sounds of AudioService/audio.xml, with  *)
(* their priorities.                                                       *)
EXTENDS PlayControl

XmlPriority == [s \in Sounds |-> CASE s = "dooropen"  -> 7
                                   [] s = "overspeed" -> 10
                                   [] OTHER           -> 13]
=============================================================================
