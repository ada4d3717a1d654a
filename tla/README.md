# A TLA+ model of the electronic lock

The repository is the firmware of an electronic door lock for the EDU-CIAA board
(`proyecto/CerraduraElectronica`) and the small web server that keeps its list of
users (`Server/server.py`). A door is opened with a PIN, a card or a finger; an
administrator registers cards and fingers at the lock and users on the web page;
the lock sleeps when nobody is there and downloads the list when it wakes up.
Everything else in the repository (sAPI, LPCOpen, examples, PCB) is third-party or
not part of the program.

File names below are relative to `proyecto/CerraduraElectronica/src`.

## Inventory

| Component | State | Operations | Interacts with |
|---|---|---|---|
| Main machine, `MEF.c` | `estadoActual`, `pinIngresado`, `rfid`, `intentosFallidos`, `ultimaPresencia`, `agendaHuella`, `escaneoActivo`, `eventoPresencia`, `ultimaVersionConocida` | `mefInit`, `mefUpdate` (one case of a switch per call), `entrarModoSleep`, `GPIO0_IRQHandler` | calls all the others; the interrupt handler shares `eventoPresencia` with it |
| User database, `validacion.c` | `listaPins` | searches by PIN, card, finger; associations; deletions; replacement by the server's list | called by MEF; downloads through espAT |
| Keypad, `teclado.c` | digit buffer and its length, held key | `tecladoLeerPin`, `tecladoLeerTecla`, `tecladoReset` | one buffer for all the prompts of MEF |
| Fingerprint sensor, `as608.c` | scan machine `g_scan`; the sensor's own template flash | `as608ScanReset`, `as608ScanStep` (non-blocking); enrol, delete, empty (blocking) | stepped by MEF, a UART to the sensor |
| Bolt, `stepperMotor.c` | none in software (the position is physical) | `abrirCerradura`, `cerrarCerradura`: relative moves | called by MEF |
| ESP-AT link, `espAT.c` | `conectado`, UART | connect, HTTP requests, BluFi reset | MEF and validacion; the server |
| Server, `Server/server.py` | SQLite table, `LAST_UPDATE_TIME` | web form, `syncPins`, `check-status`, updates and deletions; threaded | the lock and the browser |
| Card reader, display, alerts, pin setup | registers only | polling and output | MEF |

What makes it hard: the machine is a loop of short steps whose inputs arrive in any
order; several cases contain loops of their own with clocks of their own; a scan is
spread over many calls of `mefUpdate` and survives changes of state; the interrupt
races the instruction that puts the processor to sleep; the sensor and the network
may answer late, partly, or not at all; the motor only knows relative moves; and three
stores (sensor, local list, server) hold what should be one fact.

What makes each component correct:

- MEF: the bolt is open only after an authorised credential and only until the door is
  closed; sleep can always be left; an abandoned operation has no effect; the machine
  ends up asleep when nobody is there.
- validacion: the table never overflows; an accepted credential has a name; an enrolment
  never takes another user's page of the sensor.
- teclado: the buffer never outgrows a PIN.
- as608: every scan ends; no command is sent over one in flight.
- espAT: the start-up ends once the network is there; a wake-up never hangs on it; new
  credentials can be given when they are needed.
- server: the master's row is always there and always first; an id is never given twice.
- lock and server together: a lock that takes itself for up to date is; when changes
  stop its list becomes the server's; a page of the sensor is never taken for another
  user's.

## Modules

| Module | Models | Kind |
|---|---|---|
| `Validacion` | `validacion.c`, all of it | component; its own specification calls the functions in any order |
| `Teclado` | `teclado.c` | component, used through MEF |
| `As608` | the scan of `as608.c` and its template commands | component; its own specification polls the scan without pause |
| `MEF` | `MEF.c`, `stepperMotor.c`, the main loop | composition: extends the three above |
| `ControlAcceso` | what a lock with several credentials promises | abstract specification |
| `MEFAcceso` | the refinement mapping from MEF to ControlAcceso | refinement |
| `MEFHistoria` | MEF with history variables on the age of a match and of typed digits | auxiliary |
| `MEFReinicio` | MEF on a board that may be reset | extends MEF |
| `EspAT` | `inicializarESP`, `resetearCredencialesESP`, the WiFi loop of `mefInit`, the reconnection of the wake-up and option 3 of the menu | component, with the ESP, the router and the BluFi application as its world |
| `Servidor` | `server.py`: the table, the clock, the handlers in threads | component |
| `Sincronizacion` | the exchange of versions and lists between lock and server, uploads, faults | composition: extends Servidor |
| `ListaReplicada` | what a lock that works from a copy of a list promises | abstract specification, implemented by Sincronizacion (the mapping is there) and by Huellas |
| `Huellas` | fingerprint numbers in sensor, list and table | composition: extends Sincronizacion |
| `MCValidacion`, `MCAs608`, `MCMEF`, `MCMEFHistoria`, `MCMEFReinicio`, `MCEspAT`, `MCSincronizacion`, `MCHuellas` | small instances | TLC |
| `ValidacionProofs`, `MEFProofs`, `MEFAccesoProofs`, `MEFReinicioProofs`, `EspATProofs`, `ServidorProofs`, `SincronizacionProofs`, `HuellasProofs` | theorems | TLAPS |

### How state and actions correspond to the code

*MEF.* `estadoActual` is the code's variable (the enumerator `BLOQUEADO` is never
assigned and is left out). Some cases of the switch poll the keypad or the reader in a
loop of their own, so the program counter matters: `punto` says in which loop the
program is, and `punto = "mef"` is the top of `mefUpdate`. A case without a loop is one
action; a loop is one action per poll. Display, alerts, delays and prints are left out.
`pin` stands for the PIN buffers, which are local to a case or overwritten before they
are read again, so it is emptied when a case ends. The compile-time switches have their
values of `mef_config.h`: motor and door sensor present, WiFi and fingerprint on.

*Time.* The code only ever asks whether a limit has passed since a stored tick, so a
clock is a member of the set `vencido` or not; assigning `tickRead()` to the tick takes
it out. `"presencia"` is `ultimaPresencia` against `TIMEOUT_MS`, `"huella"` is
`agendaHuella` against 600 ms, `"pregunta"` the clock of the running prompt.

*Interrupt.* `irqPendiente` is the edge latched by the pin-interrupt block,
`irqHabilitada` the NVIC enable bit. `entrarModoSleep` is three actions: up to and
including the enabling (lines 43-64), `WFI` (66), and what follows waking up (68-127).
Between the first two the handler may run.

*Keypad.* A key is an input of the poll that sees it down; `teclaPrevia` is `lastIndex`
while `keyHeld`. The four results of `tecladoLeerPin` are four actions.

*Sensor.* The bytes received are abstracted to what `as608TryParseAck` and the frame
length check make of them: no acknowledge, a code, or code 0 with an incomplete search
frame. `plantillas` is the sensor's flash. A blocking command succeeds, or fails
without or with its effect (the acknowledge was lost).

*User list.* A fingerprint field keeps its number and how it is written, because the
code compares texts and uses numbers. A failed download leaves the list alone; a
successful one replaces it by a list of `ListasServidor`.

*Server calls that report a change* (`espEnviarNuevoRFID`, `espBorrarHuellaServidor`,
...) only choose what is displayed, so they have no counterpart in MEF; their effect on
the server is in Sincronizacion and Huellas.

*Server.* `usuarios` is the table, a function from ids to rows, and `siguienteId` the
AUTOINCREMENT counter. `hilos` says for each thread where it is: after its SELECT, after
its commit, or between reading the clock and storing it (`notificar_cambio` is
`leeHora` and then the assignment). A write and its commit are one step, since SQLite
shows nothing before the commit; a handler that refuses a request changes nothing and
has no step. `Web` offers the buttons of a page shown at any time before, so ids of
deleted users too. `reinicia` is a new process: threads gone, `LAST_UPDATE_TIME` the
present (`server.py:14`), table kept. `reloj` is the latest value of `time.time()`; it
moves only when it is read, because only the order of the readings matters. With
`RETROCEDE` it may be set back.

*Synchronisation.* `fase` is where the lock is in an exchange; the server's threads go
on in every phase. The SELECT of `sync_pins` is the step `respondeLista`, and
`actualizarBaseDeDatos` the step `guarda`. A list on its way may be lost (`falla`), cut
after any user by a pause of a second (`CORTA`), or be still on its way when the lock gives
up (`TARDA`, `Demoradas`), after the first attempt of a download (`reintenta`, the fallback
to TCP) or after the whole of it. A list that is late (`rezagadas`) is then read in the
place of the next one (`leeRezagada`), or together with it: `enviarComandoAT` does not
empty the receiver and reads until a second of silence, the body goes from the first `{` to
the last `}`, and the parser takes every object, past a `]` too, so the two lists become one
(`unida`, `adoptaMezcla`), the late one first or last, and cut like any other. `CABEN` is
how many users fit the 2048 bytes and the table; a downloaded list that outgrows it is cut
by `recibidas` also when it is joined. The joined rows get numbers above every id of the
server, which keeps their order. At most one list is late at a time, a bound: a second one
would need two downloads given up in a row within the seconds that an answer travels. The
rest of an answer cut by a pause, which begins in the middle of a list and has no `"pins"`
key of its own, has no step: read alone it is an answer without users (`falla`), read before
the next answer it is skipped up to that answer's `"pins"`; read after it, it adds the end of
a list that `adoptaMezcla` adds from its beginning, and that variant is left out. `despierta` forgets the
late list, because the lock was idle and asleep longer than any answer takes. An update is
sent a second time over TCP when no answer was seen (`envios`), and may still be served
after the lock gave up (`TARDA`). The lock's list is indexed by the server's ids; the code
keeps only their order, which is what its searches depend on. Other late answers need no
step of their own: a late time is one that `check_status` gave earlier, which is a wake-up
at that earlier moment; a late answer of an upload only changes what is displayed; and a
time cut by a pause is a smaller number, which either skips this download, as `falla` does,
or makes the next one happen again.

*Fingers.* The owner of a page is the PIN that was typed for it. Storing or deleting is
sensor, then list, then server: the first two are one step because nothing can come in
between except a reset, which leaves what `sensorSinAcuse` followed by `reset` leaves.
`incidente` is a history variable, no state of the code: it is set by the first event after
which the three places may disagree (`Incidente`).

*ESP.* `edad` counts exchanges since the ESP started or the router appeared; with
`ASOCIA` of them it has an address. `VENTANA` is how many `AT+CIPSTATUS` fit 15 seconds.
`llamador` is who called `inicializarESP`: `mefInit` repeats a call that failed; the menu
makes a second call after the one inside `resetearCredencialesESP`.

*Reset.* `reinicio` gives every variable of RAM its initial value, downloads a list or
keeps the image's, and leaves bolt and templates as they are. A reset in the middle of a
move, which would leave the bolt between its ends, is not modelled.

## Runs

Runs that pass:

| Run | Shows | Bounds |
|---|---|---|
| `validacion` | the table keeps its shape, accepted credentials have names, an enrolment never takes another user's page (`EnrolarNoPisa`), under any sequence of calls | 3 entries, 3 PINs, 2 cards; 5 server lists: one longer than the table, so the table is full, empty and overfull, one with a number in another form, and one that gives two users a number |
| `as608` | every scan ends although commands change the flash between its steps | 4 pages plus one out of range; any answer or none at every command |
| `acceso` | the four invariants of MEF on the paths to an opening, and `ImplementaAcceso` | two entries, one card, one finger, PINs of 2 digits over one digit key and `*`; two lists, so the user comes and goes |
| `admin` | types in the menus and prompts, `RegistroAbandonado`, and that a lock left alone falls asleep from any of them (`QuietudDuerme`) | two users with one-digit PINs, keys 1, 2, 4, 5 and `*`; pages 0 and 1, so that the number found is in use, free, or (2) past the last page; scans stay unanswered |
| `sincronizacion` | `Actualizada`, and that the lists become equal once changes stop (`Converge`) | one thread, users added and deleted and cards removed on the page, 2 PINs, up to 3 ids, `MAX_HORA = 4` (three changes or restarts), `CABEN = 2`, an image with a user the server does not know; lost, late and joined answers, both attempts of a download, lost and late uploads, resets and restarts; no answer cut by a pause, and a clock that only goes forward |
| `fallas` | the administrator's PIN is the master's under every fault (`AdministradorEsMaestro`), and the lock's list is what one answer, or two joined ones, brought (`ImplementaLista`) | one thread, users added and deleted, up to 2 ids, `MAX_HORA = 2`; the faults of `sincronizacion`, answers cut by a pause and a clock set back |
| `huellas` | `HuellaDeSuDueno`, `Actualizada`, and of the server that the master's row stays first and a deleted id never comes back | 2 threads, 2 PINs, up to 3 ids, `MAX_HORA = 4`, `CABEN = 2`, 2 pages (one per user), an image whose second user has a number that no page of the sensor has; users added with and without a number, deleted, the master's PIN changed; lost uploads and lost acknowledges, restarts of the server; a behaviour is followed up to its first incident |
| `espat` | `Conecta`, `DespiertaVuelve`, and that a lock which never connected keeps offering BluFi (`OfreceBluFi`) | `VENTANA = 7`, which is 15 seconds at two seconds a question; `ASOCIA = 12`, the largest with which `Conecta` holds: with 13 the restart after the fourth question comes before the address in every round |

`huellas` uses symmetry over the threads, which differ in nothing but their names
(`Simetria`); no liveness is checked there. Its constraint `SinIncidente` stops at the first
incident: `HuellaDeSuDueno` says nothing after it, `Actualizada` after resets and late lists
is the question of `sincronizacion`, and the four properties of the run are theorems without
the constraint. `MAX_FILAS` and `MAX_HORA` bound the number of
users ever added and of changes; the bound on changes counts those under way, so no thread
is stuck for it.

The access and administration instances are separate because their product is too
large; they share no prompt. The theorems of `MEFProofs` hold for all keys, users and
answers at once. Three attempts and five attempts are the code's own numbers.
`STEPS = 100` is the code's value; the states do not grow with it. The instances of the
lock have no symmetry: they have one card, and users differ by their PINs.

Runs that find a disagreement between the code and its own comments:

| Run | What TLC shows |
|---|---|
| `pulso_perdido` | A pulse between `NVIC_EnableIRQ` (54) and `__WFI` (66) is served too early: the processor stops with `eventoPresencia` set |
| `apertura_vieja` | A match is reported one step after it is found; a PIN or card accepted in between opens and closes the door, and the old match then opens it again |
| `pin_viejo` | Digits left by a prompt that timed out begin the next person's PIN: nothing empties the buffer before or after sleep (`teclado.c:88`) |
| `reinicio_cierre` | After a reset with the bolt open, the next opening goes past the end and "closed" is the open position: `mefInit` does not home the bolt |

### What the hypotheses leave out

Several properties hold only under a hypothesis that the code does not ensure. Each one
is a constant, an input set, a disjunct of the property or, for `HuellaDeSuDueno`, an event
of `Incidente`, so that changing it gives the counterexample:

| Property | Hypothesis | Without it |
|---|---|---|
| `EnrolarNoPisa` | the disjunct for a number typed on the web page in another form than `%04d` | a number written `1` does not block `0001`: two users get one page (`validacion.c:242`, `index.html:22`) |
| `EnrolarNoPisa` | the disjunct for a list of the server that shares a page already | nothing on the server or in `actualizarBaseDeDatos` looks for a number used twice (`server.py:247`) |
| `EscaneoTermina` | search frames arrive whole or not at all (no `ACK_PARCIAL` among the answers) | a frame that stays incomplete has no time limit: the scan never ends (`as608.c:592-593`) |
| `Actualizada` | `RETROCEDE = FALSE` | the clock of the server is set back: later changes look old (`MEF.c:107`) |
| `Actualizada` | `CORTA = FALSE` | a pause of a second ends the answer; the partial list replaces the whole one (`espAT.c:356`) |
| `Actualizada` | compares with the part of the table that fits (`CABEN`) | a list that does not fit 2048 bytes is cut, and the lock takes itself for up to date (`espAT.c:289`) |
| `Actualizada` | says nothing unless `LAST_UPDATE_TIME = reloj` | a thread stores the time it read before two later changes; the lock, which noted the first of them, never sees the second (`server.py:18`) |
| `Converge` | the disjunct `editada` | a card whose upload failed stays at the lock only, for ever (`MEF.c:742`) |
| `HuellaDeSuDueno` | no deletion given up unserved (`SubidaSinFin`) | the page of a lost deletion goes to another user and the next download gives it back to the first (`MEF.c:637`) |
| `HuellaDeSuDueno` | no update of a page given up while a thread is serving it (`SubidaSinFin`) | it is carried out later, with a download in between: the page has another owner by then (`MEF.c:850`) |
| `HuellaDeSuDueno` | no `reset` | after a reset without a download, the image's list names other people's pages (`validacion.c:7`) |
| `HuellaDeSuDueno` | every list arrived whole | the user cut off by a pause or by the 2048 bytes loses the number in the list, which gives it to somebody else; a later download brings the first one back (`espAT.c:289, 356`) |
| `HuellaDeSuDueno` | no late list read (`leeRezagada`, `adoptaMezcla`) | an old list brings back numbers given to others since (`espAT.c:325`) |
| `HuellaDeSuDueno` | nobody typed a number of a page in the web form (`AltaConHuella`) | the number may be one whose page holds another user's finger (`server.py:236, 247`) |
| `HuellaDeSuDueno` | the master's PIN was not changed on the web | the owner of a page is the PIN that was typed for it, so the master under a new PIN counts as another person: a limit of the model, the finger is still the master's |
| `HuellaDeSuDueno` | the users of the image have different numbers (`UnDueno(Imagen)`) | they have (`validacion.c:7-14`); with an image that gives two users one number, the finger of one is taken for the other's |
| `Conecta` | router, ESP and credentials stay | without a router `mefInit` never ends, although its comment promises an offline mode (`MEF.c:151, 163`) |

Other behaviours that the modules contain and that a reader of the code may not expect: a
card whose owner has no tag is refused (`validacion.c:151`), where the comment says it is
called "usuario"; the presence interrupt is disabled while the machine is awake
(`MEF.c:68, 169`), so presence does not renew the timeout as line 203 says; two threads
that look for one PIN before either inserts it both insert it (`server.py:240`); and a late
list joined to the next one leaves its users in the table, those the server has deleted in
between too, until a later download (`espAT.c:234-276, 299-309, 344-362`).

`conectado` is set by the first connection and never cleared (`espAT.c:7, 107`). From then on
`inicializarESP` reports success whenever the ESP answers, with or without a network, although
its message says "Conexión WiFi verificada" (108) and its caller expects to be told whether
it connected (`MEF.c:90`); and after option 3 has made the ESP forget its credentials the
display says to use the BluFi application (`MEF.c:513`) while BluFi is not enabled. EspAT has
this behaviour; no property states it, since it is not what the code is for.

### Fairness

`As608Spec` and `FairSpec` assume that the program goes on stepping (`main` calls
`mefUpdate` for ever, and no case blocks for ever except `__WFI`), that the tick
advances (SysTick is disabled only while stopped at `__WFI`, when no clock is looked
at), and that an enabled pending interrupt is served. `SinUsuario` is the program
stepping without any input. Nothing is assumed of people, the door, the sensor or the
network. `QuietudDuerme` is conditional on people staying away from some moment on
(`Silencio`), which is a hypothesis of the property, not of the specification.

`SincFairSpec` assumes that a thread that has begun a request finishes it (Flask runs it
to its end) and that an exchange of the lock ends one way or the other (every wait of
`espAT.c` has a limit). That exchanges stop failing, that changes stop and that people
keep waking the lock are hypotheses of `Converge`. `EspSpec` assumes that
`inicializarESP` goes on, since each of its loops has a limit; that the router, the ESP
and the credentials stay, and that the board is not reset, are hypotheses of `Conecta`;
that the ESP answers and the lock has not connected, of `OfreceBluFi`.

## Proofs

All are for every value of the constants that satisfies the named assumptions
(`MaxPinsAssumption`, `PinesAssumption`, `CamposAssumption`, `ListasAssumption`,
`TeclasAssumption`, `As608Assumption`, `MefAssumption`, `ServidorAssumption`,
`SincronizacionAssumption`, `HuellasAssumption`, `EspAssumption`), which TLC evaluates on each
instance.

*`ValidacionProofs`.* `ValidacionTypeOK` is inductive. `SaludoConNombre` follows from
it: both searches look for the same first entry. `EnrolarNuncaPisa` is an action property
with no hypothesis on the lists: every function but the enrolment keeps or erases the numbers
it finds; the enrolment keeps the user's own page or takes one whose text `%04d` no active
entry has, and two texts in that form with the same number are the same text. The lemma
`IdLibreExiste` (pigeonhole: `MAX_PINS` users cannot use `MAX_PINS + 1` numbers) shows
that the unbounded loop at `validacion.c:236` ends.

*`MEFProofs`.* None of MEF's invariants is inductive alone. `CerrojoSegunEstado`
follows the state, so one must know which states a prompt can end from
(`PuntoSegunEstado`); the interrupt follows the program point (`IrqSegunPunto`); a
released scan is idle only because a scan is stepped only while it is active
(`EscaneoConDueno`); and the user list keeps its type through an enrolment only because
the PIN was found in the list and the list cannot change before the finger is stored
(`RegistroConUsuario`). `IInv` is the conjunction, and the five safety theorems follow,
`RegistroSiempreAbandonado` as an action property. The proof has one step per action of
`Next` for each part.

*`MEFAccesoProofs`.* `Spec => ImplementaAcceso`: each action maps to one of presenting,
refusing, opening, closing, changing the authorised set, or a stutter. The mapping
needs one more invariant, `CredencialEnEspera`: the PIN or card being judged is one of
the constants' credentials.

`As608Tipos` is the same type invariant for the scan by itself.

*`MEFReinicioProofs`.* `CerrojoDesdeInicio` for every number of resets; it is proved and
has no run. `IInv` of
MEFProofs cannot be reused as it stands, because it says that the bolt is closed outside
`SENSOR_CIERRE`, which a reset breaks. What is inductive is the bolt relative to where
the program found it, together with the prompts of each state.

*`ServidorProofs`.* The invariant adds to the types that the master's row exists and
that every id in the table is below the counter, which is what makes a new id new.
`BorradoSiempreDefinitivo` follows as an action property.

*`SincronizacionProofs`.* `AdministradorSiempreMaestro` needs that every list under way,
late ones included, begins with the master. `SiempreActualizada` is proved under the
hypotheses that the clock is not set back and answers are not cut, both of which are
needed. Its invariant says that no time noted, being
noted or stored is later than the clock; that a list on its way, with the version read
before it, is the table's unless a change since then has a later time or has not read
the clock yet; and the same of a late list and of the lock's own. Two answers that are
joined under a current time both are the table, so the lock has it twice, which every search
reads like once (`Repite`, `DosVecesLoMismo`). The property itself is far from inductive: it
says nothing while a change is unannounced.
`ImplementaSiempreLista` maps every step of lock and server to one of `ListaReplicada`:
the table to `original`, the lock's list to `copia`, and the list being received together
with the late one to `enCamino`. Its core is `PrefijoEsPrincipio`: what arrives of an
answer that was cut is a beginning of the table, because the position of a row grows with
its id. A mixture is one list with users of the other behind it, perhaps cut
(`MezclaDeDos`), which needs that no number in a list on its way reaches the server's counter
of ids (`Numeros`). It needs no hypothesis about the faults.

*`HuellasProofs`.* The first part carries the results of the two modules above over to
a lock with a sensor, whose three new operations are editions of the list like that of a
card: types, `Actualizada`, the promises of the server, and the refinement.
`HuellaSiempreDeSuDueno` is the second part. `HuellaDeSuDueno` is about the list and the
sensor only and is not inductive: a download may bring numbers the list does not have.
The invariant `InvDueno` adds that it never does, namely that every page that the table
gives to somebody is given to the same PIN by the list of the lock (`TablaConocida`), and
so for a list on its way, which stands between the two (`RespuestaConocida`). Then a
number that is free in the list is free in the table and in whatever arrives later
(`PaginaLibre`: the number that the loop of `validacion.c:236-252` finds is the least free
one). The exception is a deletion under way, which the list has done and the table has
not: the lock waits, and until the server has served it those rows may be ahead (`Sale`).
Further parts say that a thread which will write a page serves the very request the lock
waits for (`Subidas`), so that a request served twice does no harm, and that new users
begin without a page (`Altas`). The theorem has no hypothesis: every fault of the model may
happen, and what is proved is that `InvDueno` survives all of them but the events of
`Incidente` (`InvHastaIncidente`).

*`EspATProofs`.* The types, in which the number of questions asked never reaches
`VENTANA`.

Only model-checked: the liveness properties `EscaneoTermina`, `QuietudDuerme`,
`Converge`, `Conecta`, `DespiertaVuelve` and `OfreceBluFi` (fairness is out of the prover's reach), and
of course the violations.

## Not modelled

The byte level of the AS608 and AT protocols, the text of commands and answers and the
JSON parser character by character, the SPI reader, display and alerts (output only).
`as608SearchInBuffer1` and `configurarInterrupcionRFID` have no callers. Of the server,
`get_local_ip`, the column `tag`, and the messages shown to the browser. A reset in the
middle of a move of the bolt.

The third-party libraries under `libs/` (sAPI, LPCOpen, FreeRTOS, lwIP, FatFs, CMSIS,
and others), which are nearly all of the repository's 410 thousand lines, are board
support that the lock calls or does not use at all; none of the program's logic is in
them, so the modules stand for about one line in two hundred of the repository and for nearly
all of the program's own.

## Plan

1. Done: `Validacion`, `Teclado`, `As608`, `MEF`, `ControlAcceso`; `Servidor`,
   `Sincronizacion`, `Huellas`, `EspAT`, `MEFReinicio`; the theorems above.
2. Done: every invariant, action property and refinement that a run checks is a theorem,
   `HuellaDeSuDueno` and the abstract specification `ListaReplicada` the last ones.
3. To prove: the safety half of the liveness properties, that is, for the scan and for the
   start-up of the ESP a rank that every step of the program lowers while the property is
   not yet reached.
