------------------------------ MODULE MCFiles ------------------------------
(* The files of the system for TLC, which share nothing: the CSV file the  *)
(* data hub reads, line by line, the block file it writes and reads back,  *)
(* the key files of the key manager and the files of an enclave.  The last *)
(* three are worked on after an empty CSV file was closed unread, and each *)
(* while the other two are as they started.                                *)
EXTENDS CsvReader, MCBlockFile, KeyStore, FileBridge

\* CSV files with short, empty and too long lines, of every length around two and
\* three blocks, with and without a final newline, with carriage returns and with
\* a byte order mark.
MCCsvFiles ==
  BoundedSeq({"x", NL}, 8)
    \cup {<<"x", NL, "x", CR, NL>> \o s : s \in BoundedSeq({"x", NL}, 5)}
    \cup {s \in BoundedSeq({NL, CR, "x"}, 6) : Len(s) = 6}
    \cup {<<"x", NL, NL, "x", "x", NL, "x", "x", NL>>}
    \cup {Bom \o s : s \in BoundedSeq({"x", NL}, 4)}

\* Two blocks and a bit, exactly two blocks, less than two blocks, three
\* blocks, and a line that is too long.
MCDisturbed ==
  {<<"x", "x", NL, "x", NL, "x", NL>>, <<"x", NL, "x", "x", NL, NL>>,
   <<"x", NL, NL, "x">>, <<"x", NL, "x", "x", "x", "x", NL>>,
   <<"x", "x", NL, "x", "x", NL, NL, "x">>,
   <<"x", NL, NL, "x", "x", NL, "x", "x", NL>>}

MCKsName == ("k1" :> "n1") @@ ("k2" :> "n1") @@ ("k3" :> "n2") @@ (NoKey :> "n3")

FilesInit == CsvInit /\ FileInit /\ KeyStoreInit /\ FileBridgeInit
CsvClosed ==
  thread.pc = "closed" /\ file = <<>> /\ result = "none" /\ budget = [reset |-> 0, count |-> 0]
FilesNext ==
  \/ CsvNext /\ UNCHANGED <<fvars, kvars, bvars>>
  \/ CsvClosed /\ KeyStoreInit /\ FileBridgeInit /\ FileNext /\ UNCHANGED <<cvars, kvars, bvars>>
  \/ CsvClosed /\ FileInit /\ FileBridgeInit /\ KeyStoreNext /\ UNCHANGED <<cvars, fvars, bvars>>
  \/ CsvClosed /\ FileInit /\ KeyStoreInit /\ FileBridgeNext /\ UNCHANGED <<cvars, fvars, kvars>>
FilesSpec ==
  /\ FilesInit
  /\ [][FilesNext]_<<cvars, fvars, kvars, bvars>>
  /\ CsvFairness
=============================================================================
