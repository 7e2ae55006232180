------------------------------ MODULE Firmware ------------------------------
(***************************************************************************)
(* The BIOS from its entry: head.S sets up the static variables and jumps  *)
(* to main, and behind main there are the functions of bios/string.c and   *)
(* bios/tty.c, one at a time, and the picture of vga-demo.c.               *)
(***************************************************************************)
EXTENDS Startup, Strings, Format, Demo

CONSTANT Usual   \* the sections of the build whose functions are looked at

firmwareVars == <<startupVars, stringVars, formatVars, demoVars>>

FirmwareInit == StartupInit /\ StringsInit /\ FormatInit /\ DemoInit

\* There is one flow of control: what runs returns before the next is called.
Idle == call = NoCall /\ job.fn \in {"none", "done"} /\ painting \in {"idle", "shown"}
Ran  == calls > 0 \/ job # NoJob \/ painting = "shown"

InMain == boot = "main" /\ sections = Usual /\ UNCHANGED startupVars

StringStep == /\ InMain /\ (call # NoCall \/ (Idle /\ ~Ran))
              /\ StringsNext
              /\ UNCHANGED <<formatVars, demoVars>>
FormatStep == /\ InMain /\ (job.fn \in {"printf", "hexdump"} \/ (Idle /\ ~Ran))
              /\ FormatNext
              /\ UNCHANGED <<stringVars, demoVars>>
DemoStep   == /\ InMain /\ (painting \in {"shade", "scale"} \/ (Idle /\ ~Ran))
              /\ DemoNext
              /\ UNCHANGED <<stringVars, formatVars>>

FirmwareNext == \/ StartupNext /\ UNCHANGED <<stringVars, formatVars, demoVars>>
                \/ StringStep \/ FormatStep \/ DemoStep
FirmwareSpec == FirmwareInit /\ [][FirmwareNext]_firmwareVars

FirmwareTypeOK == StartupTypeOK /\ StringsTypeOK /\ FormatTypeOK /\ DemoTypeOK

=============================================================================
