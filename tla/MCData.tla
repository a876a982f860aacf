------------------------------- MODULE MCData -------------------------------
(***************************************************************************)
(* Checking the containers, codecs, parsers, buffers and addresses with    *)
(* TLC, in one run.  No module knows of another, so a behaviour is one of  *)
(* the subject's and the others stay as they were, and their states add    *)
(* up.                                                                     *)
(***************************************************************************)
EXTENDS MCDictionary, Containers, Scan, Strings, Binary, MemoryBuf, Address

CONSTANTS c1, c2

TwoCallers == {c1, c2}

TwoDelimiters == {<<"r", "n">>, <<"n">>}
BeforeMemory == -100

SomeCapitals == [A |-> "a", B |-> "b"]
SomeSymbols == {"a", "B", " ", "\"", "{", "}"}
SomePieces == {<<>>, <<"a">>, <<"B">>, <<"a", "B">>, <<"a", "a">>, <<" ">>}

VARIABLE subject

dataVars == <<dictVars, containerVars, text, str, buffer_, bufferVars, addressVars>>

DataInit ==
    /\ subject \in {"dictionary", "container", "scan", "strings", "binary", "buffer", "address"}
    /\ DictInit
    /\ ContainersInit
    /\ subject # "container" => class = "stack"
    /\ ScanInit
    /\ StringsInit
    /\ BinaryInit
    /\ BufferInit
    /\ subject # "buffer" => memory = <<>>
    /\ AddressInit

DataNext ==
    /\ UNCHANGED subject
    /\ \/ subject = "dictionary" /\ DictNext
          /\ UNCHANGED <<containerVars, text, str, buffer_, bufferVars, addressVars>>
       \/ subject = "container" /\ ContainersNext
          /\ UNCHANGED <<dictVars, text, str, buffer_, bufferVars, addressVars>>
       \/ subject = "scan" /\ Grows
          /\ UNCHANGED <<dictVars, containerVars, str, buffer_, bufferVars, addressVars>>
       \/ subject = "strings" /\ Types
          /\ UNCHANGED <<dictVars, containerVars, text, buffer_, bufferVars, addressVars>>
       \/ subject = "binary" /\ BinaryNext
          /\ UNCHANGED <<dictVars, containerVars, text, str, bufferVars, addressVars>>
       \/ subject = "buffer" /\ BufferNext
          /\ UNCHANGED <<dictVars, containerVars, text, str, buffer_, addressVars>>
       \/ subject = "address" /\ AddressNext
          /\ UNCHANGED <<dictVars, containerVars, text, str, buffer_, bufferVars>>

DataSpec == DataInit /\ [][DataNext]_<<subject, dataVars>>
=============================================================================
