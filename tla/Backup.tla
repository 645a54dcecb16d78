------------------------------- MODULE Backup -------------------------------
(***************************************************************************)
(* Entities are exported from one datastore and the output is loaded into  *)
(* another one, as the aeremote tool does: with -dump or -dump-entity, and *)
(* with any number of -load flags, one after the other, whose errors it    *)
(* logs.  The output that the export left unfinished does not decode.      *)
(***************************************************************************)
EXTENDS Dump, Load

CONSTANT MaxFiles   \* bound on the number of -load flags

ASSUME BackupAssumption == Key \subseteq Entity /\ MaxFiles \in Nat

VARIABLE files      \* how many -load flags are left

vars == <<dumpVars, loadVars, files>>

(* DecodeEntities. *)
Decoded(x)  == [key |-> x.key, properties |-> decodeEntity(x.object)]
Unmarshaled == [n \in DOMAIN out |-> Decoded(out[n])]
Decodable   == \A n \in DOMAIN out : Unmarshals(out[n].object)

TypeOK ==
  /\ DumpTypeOK
  /\ LoadTypeOK
  /\ entities \in Seq({Decoded(Export(k)) : k \in Key})
  /\ files \in 0..MaxFiles


Init == DumpInit /\ LoadInit /\ files \in 0..MaxFiles

Exporting == DumpActions /\ UNCHANGED <<loadVars, files>>

(* One turn of the loop over the -load flags. *)
LoadFile ==
  /\ dump # "running"
  /\ Idle /\ files > 0
  /\ files' = files - 1
  /\ IF array = "closed" /\ Decodable
       THEN \E getting \in BOOLEAN : LoadBegin(Unmarshaled, getting)
       ELSE DecodeError
  /\ UNCHANGED dumpVars

(* A file that cannot be opened is passed over. *)
OpenError ==
  /\ dump # "running"
  /\ Idle /\ files > 0
  /\ files' = files - 1
  /\ UNCHANGED <<dumpVars, loadVars>>

Importing == LoadNext /\ UNCHANGED <<dumpVars, files>>

Next == Exporting \/ LoadFile \/ OpenError \/ Importing

(* The functions run on, without any call owing an error.                  *)
Spec ==
  /\ Init /\ [][Next]_vars
  /\ WF_vars(DumpStep /\ UNCHANGED <<loadVars, files>>)
  /\ WF_vars(LoadFile)
  /\ WF_vars(LoadStep /\ UNCHANGED <<dumpVars, files>>)

-----------------------------------------------------------------------------
(* When a load says ok, every entity that was there during the dump is in  *)
(* the other datastore, but for one of which the writer took nothing: an   *)
(* error of Dump, a bracket or comma lost or an entity cut short leaves an *)
(* output that does not load.                                              *)
Restored(k) == stored[k] = Decoded(Export(k)).properties
RestoredWhenOk == load = "ok" => \A k \in Asked : Restored(k) \/ k \in dropped

(* An entity comes back as it was: the same names, each with its values in *)
(* their order, of the same type, indexed and multiple as before.  Only    *)
(* floats that print without a point, fractions of seconds and namespaces  *)
(* of keys are lost.  Nothing that has no form in JSON, or none that can   *)
(* be read back, is loaded as something else.                              *)
Same(entity, loaded) ==
  /\ DOMAIN loaded = Names(entity)
  /\ \A n \in Names(entity) :
       /\ \A i \in DOMAIN entity[n] : Loadable(entity[n][i])
       /\ loaded[n] = [i \in DOMAIN entity[n] |-> Returned(entity[n][i])]

ComesBack == \A k \in Key : stored[k] # None => Same(content[k], stored[k])

(* One trip takes all that the format does not hold: what was loaded can   *)
(* be exported again, read back, and is then the same in every detail.     *)
OneTripSettles ==
  \A k \in Key : stored[k] # None =>
    /\ Marshals(stored[k])
    /\ Unmarshals(MarshalJSON(stored[k]))
    /\ decodeEntity(MarshalJSON(stored[k])) = stored[k]

(* A backup ends, well or not, with every file.                            *)
BackupEnds == <>(files = 0 /\ Idle)

(* The documentation of the package: data is exported "as well as" loaded  *)
(* back.  An indexed float property reads the same from the loaded entity. *)
FloatsSurvive ==
  \A k \in Key : stored[k] # None =>
    \A n \in DOMAIN content[k] :
      GetTyped(stored[k], n, "float") = GetTyped(content[k], n, "float")

=============================================================================
