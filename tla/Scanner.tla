------------------------------ MODULE Scanner ------------------------------
(***************************************************************************)
(* ble/scanner.rs, and find_bmap_characteristic of connection.rs: which of *)
(* the peripherals a scan has heard the daemon takes for Bose headphones,  *)
(* and whether it can talk to them.                                        *)
(*                                                                         *)
(* A peripheral is a record: the substrings of its local name that         *)
(* anybody looks for, the service UUIDs it advertises, what properties()   *)
(* returns ("some", "none" or "error"), and its characteristics.           *)
(***************************************************************************)
EXTENDS Naturals, Sequences

BMAP_SERVICE_UUID == "0000febe-0000-0000-0000-000000000000"
BOSE_NAME_PATTERNS == {"bose", "adjuster"}

IsBoseName(name) == name \cap BOSE_NAME_PATTERNS # {}

Identified(p) == BMAP_SERVICE_UUID \in p.services \/ IsBoseName(p.name)

\* Err, as <<>>, or Ok(peripheral): the first one identified, unless reading the
\* properties of one before it fails.
FindBoseDevice(peripherals) ==
    LET Stops(p) == p.properties = "error" \/ (p.properties = "some" /\ Identified(p))
        stops == SelectSeq(peripherals, Stops)
    IN  IF stops = << >> \/ stops[1].properties = "error" THEN << >> ELSE <<stops[1]>>

\* Err, or Ok(the secure characteristic if there is one).
FindBmapCharacteristic(p) ==
    IF "RWN_SECURE" \in p.characteristics THEN <<"RWN_SECURE">>
    ELSE IF "RWN_UNSECURE" \in p.characteristics THEN <<"RWN_UNSECURE">>
    ELSE << >>
=============================================================================
