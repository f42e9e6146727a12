--------------------------- MODULE MCFileTransfer ---------------------------
(***************************************************************************)
(* Small instances of FileTransfer: two TVs, one name, a file of that name *)
(* from before, files of none or two units, a PC that comes and goes.      *)
(***************************************************************************)
EXTENDS FileTransfer, TLC

TwoTransfers == {1, 2}
OnePC        == {"pc"}
OneName      == {"shot"}
Sizes        == {0, 2}
Longer       == {3}

AnyRequest == [rw_type : {STORE}, name : OneName, size : Sizes, target : OnePC, eager : BOOLEAN]
                \union
              [rw_type : {FETCH}, name : OneName, size : {0}, target : OnePC, eager : {FALSE}]
=============================================================================
