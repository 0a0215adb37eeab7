--------------------------- MODULE MCBridgeSerial ---------------------------
(***************************************************************************)
(* Messages whose bodies need every escape: a request to the bridge, its   *)
(* report, and a frame of a type the bridge does not know, which no single *)
(* fault of the line makes into one another, as the CRC would tell; and a  *)
(* frame longer than the bridge's buffer.                                  *)
(***************************************************************************)
EXTENDS BridgeSerial

MCBytes == {END, ESC, ESC_END, ESC_ESC, "MAGIC"}

MCRequest == [body |-> <<"MAGIC", ESC_ESC, ESC>>, type |-> "STAT_REQ", toBridge |-> TRUE]
MCReport  == [body |-> <<"MAGIC", END, ESC_END>>, type |-> "STAT_RSP", toBridge |-> FALSE]
MCNewType == [body |-> <<"MAGIC", "MAGIC", "MAGIC">>, type |-> "NEW", toBridge |-> FALSE]
MCLong    == [body |-> <<"MAGIC", ESC, ESC_END, END, "MAGIC">>,
              type |-> "NEW", toBridge |-> FALSE]

MCMessages   == {MCRequest, MCReport, MCNewType}
MCOversized  == {MCLong}
MCKnownTypes == {"STAT_REQ", "STAT_RSP"}
=============================================================================
