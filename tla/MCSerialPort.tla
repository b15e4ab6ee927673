---------------------------- MODULE MCSerialPort ----------------------------
(***************************************************************************)
(* Small instances of SerialPort: reads of up to five bytes, so that every *)
(* escape can straddle two of them and every event can follow more data    *)
(* than fits the caller's buffer of one.                                   *)
(***************************************************************************)
EXTENDS SerialPort

DarwinAndLinux == {Darwin, Linux}
=============================================================================
