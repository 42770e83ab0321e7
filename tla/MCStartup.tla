----------------------------- MODULE MCStartup -----------------------------
(***************************************************************************)
(* Instance of Startup: files with a shared port, a port spelled in two    *)
(* ways, a missing port, the Modbus port given to a board, more boards     *)
(* than digits, and a file that does not parse.                            *)
(***************************************************************************)
EXTENDS Startup

Numbers == [s \in {"", "4110", "04110", "4111", "8268"} |->
              CASE s = "4110" -> 4110 [] s = "04110" -> 4110
                [] s = "4111" -> 4111 [] s = "8268" -> 8268 [] OTHER -> 0]

Workshop(key, boards, list) == [Key |-> key, IP_NUM |-> boards, Ports |-> list]
Off == Workshop("Flase", 1, <<"4111">>)

SomeFiles == {
  Unparsed,
  <<Off, Off>>,
  <<Off, Workshop("True", 2, <<"4110", "4111">>), Workshop("True", 1, <<"4111">>)>>,
  <<Workshop("True", 2, <<"4110", "4110">>)>>,
  <<Workshop("True", 2, <<"04110", "4110">>)>>,
  <<Workshop("True", 2, <<"4111">>)>>,
  <<Workshop("True", 1, <<"8268">>)>>,
  <<Workshop("True", 3, <<"4110", "4111", "8268">>)>>}
=============================================================================
