----------------------------- MODULE UpdateHub -----------------------------
(***************************************************************************)
(* The update client: the hub's state machine with its event handlers, the *)
(* firmware manager, the source manager with its two sources (HTTP for the *)
(* firmware, LWM2M for the manifest), the control centre and the manifest  *)
(* manager.  They run on the one callback queue of UCScheduler, which is   *)
(* used here through what it promises: callbacks run one at a time, in the *)
(* order they were posted, and a post on a node that is queued is refused. *)
(* Three things act by themselves: the storage port (PAAL), which performs *)
(* the operations it has accepted in order and then posts an event; the    *)
(* network; and the application, which grants authorizations.              *)
(***************************************************************************)
EXTENDS Integers, Sequences, FiniteSets

CONSTANTS
  Manifests,       \* the manifests the service may send
  None,            \* a null manifest, and data that is no part of an image
  Timestamp,       \* fwinfo.timestamp of each manifest
  Cipher,          \* fwinfo.cipherMode: "none", "psk" or "other"
  MaxRetry,        \* MAX_RETRY of the HTTP source (3 in the code)
  Scenarios        \* devices and surroundings, one of which is chosen at the start

FaultKinds ==
  {"reject", "write", "finalize", "read", "activate", "details", "prepare_late",
   "activate_reject", "corrupt", "http", "http_reject", "manifest", "uri", "alloc"}

ASSUME HubAssumption ==
  /\ None \notin Manifests
  /\ Timestamp \in [Manifests -> Nat \ {0}]
  /\ Cipher \in [Manifests -> {"none", "psk", "other"}]
  /\ MaxRetry \in Nat
  /\ \A s \in Scenarios :
       /\ s.size \in [Manifests -> Nat]
       /\ s.faults \subseteq FaultKinds
       /\ s.push \in {"quiet", "idle", "always"}
       /\ {s.authority, s.async_init, s.reboots} \subseteq BOOLEAN
       /\ {s.pushes, s.crashes} \subseteq Nat

VARIABLES
  hub_state,          \* arm_uc_hub_state
  new_state,          \* the state setState's loop enters next, or "-"
  queue,              \* the callback queue: nodes with the event to pass
  request_in_flight,  \* the source manager's request
  http,               \* arm_ucs_state of the HTTP source, and its socket
  manifest_buffer,    \* the manifest the LWM2M source has cached
  buffer,             \* the hub's front_buffer and back_buffer
  fwinfo,             \* the saved manifest, and the one it was parsed to
  config,             \* arm_uc_hub_firmware_config, the key and the uri
  firmware_offset,
  active_version,     \* arm_uc_active_details.version
  mm,                 \* the manifest manager's state machines
  fm,                 \* the firmware manager
  paal,               \* operations the storage port has accepted
  storage,            \* the firmware slot: header and data
  activated, running, \* the activated image; the version that runs
  token, authority,   \* the control centre
  granted,            \* requests granted since they were last made
  pushes, crashes,
  scenario            \* the scenario, which stays

hubVars == <<fwinfo, config, firmware_offset, active_version>>
sourceVars == <<request_in_flight, http, manifest_buffer>>
deviceVars == <<storage, activated, running>>
controlVars == <<token, authority, granted>>
bounds == <<pushes, crashes, scenario>>
vars == <<hub_state, new_state, queue, sourceVars, buffer, hubVars, mm, fm,
          paal, deviceVars, controlVars, bounds>>

Size == scenario.size             \* fwinfo.size of each manifest, in buffers of data
Faults == scenario.faults         \* which of the failures may happen
Push == scenario.push             \* when manifests arrive: "quiet", "idle" or "always"
Authority == scenario.authority   \* the application has set an authority handler
AsyncInit == scenario.async_init  \* the storage port initializes on a thread of its own
Reboots == scenario.reboots       \* pal_osReboot is implemented on the platform
MaxPushes == scenario.pushes      \* bound on the manifests sent
MaxCrashes == scenario.crashes    \* bound on the power cuts

Requests == {"download", "install"}

(* What a buffer or a cell of the slot holds: part of an image (encrypted  *)
(* or not), a manifest (part -1), or something else.                       *)
Cell(m, i, enc) == [of |-> m, part |-> i, enc |-> enc]
Junk == Cell(None, 0, FALSE)
Image(m) == [i \in 1..Size[m] |-> Cell(m, i - 1, FALSE)]
MaxSize == CHOOSE n \in {Size[m] : m \in Manifests} : \A m \in Manifests : Size[m] <= n
Erased == [i \in 0..MaxSize |-> Junk]

NoRequest == [type |-> "unknown", offset |-> 0, excluded |-> FALSE, current |-> "-"]
HttpIdle == [phase |-> "idle", offset |-> 0, retryCount |-> 0, of |-> None]
Entry(n, e) == [node |-> n, event |-> e]
Queued(n) == \E i \in 1..Len(queue) : queue[i].node = n

(* ARM_UC_PostCallback: a node that is in the queue is not posted again.   *)
Post(q, n, e) == IF \E i \in 1..Len(q) : q[i].node = n THEN q ELSE Append(q, Entry(n, e))

Op(op, buf, off, m) == [op |-> op, buf |-> buf, offset |-> off, of |-> m]

-----------------------------------------------------------------------------
(* The state after ARM_UC_HUB_Initialize, with everything volatile reset;  *)
(* the storage port's own initialization has been reported, or is pending. *)
Booted(st, next, q, ops, req, src, man, bufs, info, conf, off, ver, mms, mgr, tok, auth, gr) ==
  /\ st = "UNINITIALIZED" /\ next = "-"
  /\ q = (IF AsyncInit THEN <<>> ELSE <<Entry("fm", "INITIALIZE_DONE")>>)
         \o <<Entry("mmApp", "DONE")>>
  /\ ops = IF AsyncInit THEN <<Op("INITIALIZE", "-", 0, None)>> ELSE <<>>
  /\ req = NoRequest /\ src = HttpIdle /\ man = None
  /\ bufs = [b \in {"front", "back"} |-> [data |-> Junk, size |-> 0]]
  /\ info = [saved |-> None, of |-> None]
  /\ conf = [of |-> None, aes |-> FALSE, key |-> None, uri |-> None]
  /\ off = 0 /\ ver = 0
  /\ mms = [state |-> "IDLE", insert |-> "IDLE", signature |-> "IDLE", fw |-> "IDLE"]
  /\ mgr = [ready |-> FALSE, offset |-> 0, front |-> "front", hashed |-> <<>>, key |-> None]
  /\ tok = [r \in Requests |-> FALSE] /\ auth = Authority
  /\ gr = [r \in Requests |-> FALSE]

Init ==
  /\ scenario \in Scenarios
  /\ Booted(hub_state, new_state, queue, paal, request_in_flight, http, manifest_buffer,
            buffer, fwinfo, config, firmware_offset, active_version, mm, fm, token,
            authority, granted)
  /\ storage = [header |-> None, data |-> Erased] /\ activated = None
  /\ running \in {Timestamp[m] : m \in Manifests} \cup {1}
  /\ pushes = 0 /\ crashes = 0

(* external: the bootloader installs the activated image if the slot still *)
(* holds it, whole.                                                        *)
Installed ==
  IF /\ activated # None /\ storage.header = activated
     /\ \A i \in 1..Size[activated] : storage.data[i - 1] = Image(activated)[i]
  THEN Timestamp[activated] ELSE running

Restart ==
  /\ Booted(hub_state', new_state', queue', paal', request_in_flight', http',
            manifest_buffer', buffer', fwinfo', config', firmware_offset',
            active_version', mm', fm', token', authority', granted')
  /\ running' = Installed /\ UNCHANGED <<storage, activated, pushes, scenario>>

-----------------------------------------------------------------------------
(* Source manager: ARM_UCSM_Get.  The LWM2M source has the manifest when it *)
(* is cached; the HTTP source has the firmware unless it was excluded.      *)
RouteManifest(r) == r.type = "manifest" /\ manifest_buffer # None /\ ~r.excluded
RouteFirmware(r) == r.type = "firmware" /\ ~r.excluded

(* ARM_UCSM_Get with ARM_UCS_LWM2M_SOURCE_GetManifestDefault and           *)
(* ARM_UCS_Get, for request r, with the queue q, the HTTP source h and the *)
(* buffers b as they are when it is called.  A busy source is retried by a *)
(* callback; each attempt of the HTTP source counts as a retry; a source   *)
(* that cannot start is excluded, and there is no second one.              *)
Get(r, q, h, b) ==
  \/ /\ RouteManifest(r)
     /\ buffer' = [b EXCEPT !["front"] =
                     [data |-> Cell(manifest_buffer, -1, FALSE), size |-> 1]]
     /\ manifest_buffer' = None /\ queue' = Post(q, "lwm2mM", "MANIFEST")
     /\ request_in_flight' = [r EXCEPT !.current = "lwm2m"]
     /\ http' = h
  \/ /\ RouteFirmware(r) /\ h.phase # "idle"
     /\ queue' = Post(q, "sm", "RETRY") /\ request_in_flight' = r
     /\ http' = h /\ buffer' = b /\ UNCHANGED manifest_buffer
  \/ /\ RouteFirmware(r) /\ h.phase = "idle"
     /\ \E n \in 1..(IF "http_reject" \in Faults THEN MaxRetry ELSE 1) :
          http' = [phase |-> "connect", offset |-> r.offset, retryCount |-> n, of |-> None]
     /\ buffer' = [b EXCEPT !["front"].size = 0]
     /\ request_in_flight' = [r EXCEPT !.current = "http"] /\ queue' = q
     /\ UNCHANGED manifest_buffer

(* The get fails: the request is forgotten.                                *)
GetFails(r, h, b) ==
  /\ \/ ~RouteManifest(r) /\ ~RouteFirmware(r) /\ buffer' = b
     \/ /\ RouteFirmware(r) /\ h.phase = "idle" /\ "http_reject" \in Faults
        /\ buffer' = [b EXCEPT !["front"].size = 0]
  /\ request_in_flight' = NoRequest /\ http' = h /\ UNCHANGED manifest_buffer

(* A failure after the call that made the request has returned is reported *)
(* through the storage of the source manager's one event.                  *)
GetLater(r, q, h) ==
  \/ Get(r, q, h, buffer)
  \/ GetFails(r, h, buffer) /\ queue' = Post(q, "sm", "ERROR")

(* ARM_UCSM_CallbackWrapper: an error excludes the source that was used    *)
(* and tries again; any other event ends the request, whatever it is       *)
(* about.  With no current source, that of a busy HTTP source, the code    *)
(* marks the entry past the end of the array, the current_source field: it *)
(* then names the LWM2M source, and no source of firmware is excluded.     *)
CallbackWrapper(e, q, h) ==
  IF e = "ERROR" /\ request_in_flight.type # "unknown"
  THEN GetLater([request_in_flight EXCEPT !.excluded =
                   @ \/ request_in_flight.current # "-"], q, h)
  ELSE /\ request_in_flight' = NoRequest /\ queue' = Post(q, "sm", e)
       /\ http' = h /\ UNCHANGED <<manifest_buffer, buffer>>

-----------------------------------------------------------------------------
(* Entering a state: one pass of the loop in ARM_UC_HUB_setState.          *)

Enter(s) == new_state = s /\ hub_state' = s
Next_(s) == new_state' = s
Waits == new_state' = "-"

(* A state that only reports, to the monitor or the application.           *)
Pass(from, to) ==
  /\ Enter(from) /\ Next_(to)
  /\ UNCHANGED <<queue, sourceVars, buffer, hubVars, mm, fm, paal, deviceVars,
                 controlVars, bounds>>

EnterReporting ==
  \/ Pass("INITIALIZED", "GET_ACTIVE_FIRMWARE_DETAILS")
  \/ Pass("REPORT_ACTIVE_VERSION", "GET_INSTALLER_DETAILS")
  \/ Pass("REPORT_INSTALLER_DETAILS", "IDLE")
  \/ Pass("DOWNLOAD_AUTHORIZED", "SETUP_FIRMWARE")
  \/ Pass("INSTALL_AUTHORIZED", "ACTIVATE_FIRMWARE")
  \/ Pass("ERROR", "IDLE")
  \/ \E s \in {"IDLE", "WAIT_FOR_DOWNLOAD_AUTHORIZATION", "WAIT_FOR_STORAGE",
               "WAIT_FOR_NETWORK", "STORE_LAST_FRAGMENT",
               "WAIT_FOR_INSTALL_AUTHORIZATION"} : Pass(s, "-")

(* An operation handed to the storage port, or refused by it.              *)
Accepted(op) == paal' = Append(paal, op) /\ Waits
RejectedBy(fault) == fault \in Faults /\ Next_("IDLE") /\ UNCHANGED paal
Rejected == RejectedBy("reject")

EnterGetDetails ==
  /\ \/ /\ Enter("GET_ACTIVE_FIRMWARE_DETAILS")
        /\ Accepted(Op("GET_ACTIVE", "-", 0, None)) \/ RejectedBy("details")
     \/ /\ Enter("GET_INSTALLER_DETAILS")
        /\ Accepted(Op("GET_INSTALLER", "-", 0, None)) \/ RejectedBy("details")
  /\ UNCHANGED <<queue, sourceVars, buffer, hubVars, mm, fm, deviceVars,
                 controlVars, bounds>>

EnterReportHash ==
  /\ Enter("REPORT_ACTIVE_HASH") /\ Next_("REPORT_ACTIVE_VERSION")
  /\ buffer' = [buffer EXCEPT !["front"] = [data |-> Junk, size |-> 1]]
  /\ UNCHANGED <<queue, sourceVars, hubVars, mm, fm, paal, deviceVars,
                 controlVars, bounds>>

EnterNotified ==
  LET r == [NoRequest EXCEPT !.type = "manifest"] IN
  /\ Enter("NOTIFIED")
  /\ \/ Get(r, queue, http, buffer) /\ Waits
     \/ GetFails(r, http, buffer) /\ Next_("IDLE") /\ UNCHANGED queue
  /\ UNCHANGED <<hubVars, mm, fm, paal, deviceVars, controlVars, bounds>>

(* The manifest is saved, and inserted from where it is: the callback node *)
(* is reset, so it is queued even if it is in the queue.                   *)
EnterManifestFetched ==
  /\ Enter("MANIFEST_FETCHED") /\ Waits
  /\ fwinfo' = [fwinfo EXCEPT !.saved =
       IF buffer["front"].data.part = -1 THEN buffer["front"].data.of ELSE None]
  /\ mm' = [mm EXCEPT !.state = "INSERTING", !.insert = "BEGIN"]
  /\ queue' = Append(queue, Entry("mmInsert", "BEGIN"))
  /\ UNCHANGED <<sourceVars, buffer, config, firmware_offset, active_version, fm,
                 paal, deviceVars, controlVars, bounds>>

EnterManifestComplete ==
  /\ Enter("MANIFEST_COMPLETE") /\ Waits
  /\ mm' = [mm EXCEPT !.state = "FWINFO", !.fw = "BEGIN"]
  /\ queue' = Append(queue, Entry("mmFw", "BEGIN"))
  /\ UNCHANGED <<sourceVars, buffer, hubVars, fm, paal, deviceVars, controlVars, bounds>>

(* Mutant: rollback protection is left out.                                *)
EnterCheckVersionAny ==
  /\ Enter("CHECK_VERSION") /\ Next_("PREPARE_FIRMWARE_SETUP")
  /\ UNCHANGED <<queue, sourceVars, buffer, hubVars, mm, fm, paal, deviceVars,
                 controlVars, bounds>>

EnterCheckVersion ==
  /\ Enter("CHECK_VERSION")
  /\ Next_(IF Timestamp[fwinfo.of] > active_version
           THEN "PREPARE_FIRMWARE_SETUP" ELSE "IDLE")
  /\ UNCHANGED <<queue, sourceVars, buffer, hubVars, mm, fm, paal, deviceVars,
                 controlVars, bounds>>

(* The parsed manifest configures the download.  HANDLE_ERROR of an        *)
(* unsupported cipher mode leaves only the inner switch: the mode keeps    *)
(* its old value and the update goes on.                                   *)
EnterPrepareFirmwareSetup ==
  LET m == fwinfo.of IN
  /\ Enter("PREPARE_FIRMWARE_SETUP")
  /\ \/ "uri" \in Faults /\ Next_("IDLE") /\ UNCHANGED config
     \/ /\ config' = [of |-> m, uri |-> m,
                      aes |-> CASE Cipher[m] = "none" -> FALSE
                                [] Cipher[m] = "psk" -> TRUE
                                [] OTHER -> config.aes,
                      key |-> IF Cipher[m] = "psk" THEN m ELSE config.key]
        /\ Next_("REQUEST_DOWNLOAD_AUTHORIZATION")
  /\ UNCHANGED <<queue, sourceVars, buffer, fwinfo, firmware_offset, active_version,
                 mm, fm, paal, deviceVars, controlVars, bounds>>

(* ARM_UC_ControlCenter_GetAuthorization: the token is armed; without an   *)
(* authority handler the request is granted at once.                       *)
GetAuthorization(r) ==
  /\ token' = [token EXCEPT ![r] = authority]
  /\ granted' = [granted EXCEPT ![r] = ~authority]
  /\ queue' = IF authority THEN queue ELSE Post(queue, "authorize", r)
  /\ UNCHANGED authority

EnterRequestAuthorization ==
  /\ \/ /\ Enter("REQUEST_DOWNLOAD_AUTHORIZATION") /\ GetAuthorization("download")
        /\ Next_("WAIT_FOR_DOWNLOAD_AUTHORIZATION")
     \/ /\ Enter("STORAGE_FINALIZED") /\ GetAuthorization("install")
        /\ Next_("WAIT_FOR_INSTALL_AUTHORIZATION")
  /\ UNCHANGED <<sourceVars, buffer, hubVars, mm, fm, paal, deviceVars, bounds>>

(* ARM_UCFM_Prepare.                                                       *)
EnterSetupFirmware ==
  /\ Enter("SETUP_FIRMWARE")
  /\ \/ /\ Accepted(Op("PREPARE", "front", 0, fwinfo.of))
        /\ fm' = [fm EXCEPT !.ready = TRUE, !.offset = 0,
                            !.key = IF config.aes THEN config.key ELSE @]
     \/ Rejected /\ UNCHANGED fm
  /\ UNCHANGED <<queue, sourceVars, buffer, hubVars, mm, deviceVars, controlVars, bounds>>

(* Ask for the fragment at the offset, or go on to state s at the end.     *)
FetchFragment(b, offset, s) ==
  LET r == [NoRequest EXCEPT !.type = "firmware", !.offset = offset]
      cleared == [b EXCEPT !["front"].size = 0]
  IN  IF offset < Size[fwinfo.of]
      THEN \/ Get(r, queue, http, cleared) /\ Waits
           \/ GetFails(r, http, cleared) /\ Next_("IDLE") /\ UNCHANGED queue
      ELSE Next_(s) /\ buffer' = b /\ UNCHANGED <<queue, sourceVars>>

EnterFetchFirstFragment ==
  /\ Enter("FETCH_FIRST_FRAGMENT") /\ firmware_offset' = 0
  /\ FetchFragment([b \in {"front", "back"} |-> [buffer[b] EXCEPT !.size = 0]],
                   0, "FINALIZE_STORAGE")
  /\ UNCHANGED <<fwinfo, config, active_version, mm, fm, paal, deviceVars,
                 controlVars, bounds>>

(* ARM_UCFM_Write decrypts in place before the storage port is called.     *)
Decrypt(c) ==
  IF ~config.aes THEN c
  ELSE IF c.enc /\ c.of = fm.key THEN [c EXCEPT !.enc = FALSE] ELSE Junk

(* Mutant: the two buffers are not swapped.                                *)
EnterStoreAndDownloadUnswapped ==
  LET size == buffer["front"].size
      written == [buffer EXCEPT !["front"].data = Decrypt(@)]
      offset == firmware_offset + size
  IN  /\ Enter("STORE_AND_DOWNLOAD") /\ firmware_offset' = offset
      /\ size > 0 /\ fm.ready
      /\ paal' = Append(paal, Op("WRITE", "front", fm.offset, None))
      /\ fm' = [fm EXCEPT !.offset = @ + size]
      /\ FetchFragment(written, offset, "STORE_LAST_FRAGMENT")
      /\ UNCHANGED <<fwinfo, config, active_version, mm, deviceVars, controlVars, bounds>>

EnterStoreAndDownload ==
  LET swapped == [front |-> buffer["back"], back |-> buffer["front"]]
      size == swapped["back"].size
      written == [swapped EXCEPT !["back"].data = Decrypt(@)]
      offset == firmware_offset + size
  IN  /\ Enter("STORE_AND_DOWNLOAD") /\ firmware_offset' = offset
      /\ \/ /\ size > 0 /\ fm.ready
            /\ paal' = Append(paal, Op("WRITE", "back", fm.offset, None))
            /\ fm' = [fm EXCEPT !.offset = @ + size]
            /\ FetchFragment(written, offset, "STORE_LAST_FRAGMENT")
         \/ /\ size = 0 /\ UNCHANGED <<paal, fm>>
            /\ FetchFragment(swapped, offset, "STORE_LAST_FRAGMENT")
         \/ /\ size > 0 /\ (fm.ready => "reject" \in Faults)
            /\ Next_("IDLE") /\ buffer' = IF fm.ready THEN written ELSE swapped
            /\ UNCHANGED <<queue, sourceVars, paal, fm>>
      /\ UNCHANGED <<fwinfo, config, active_version, mm, deviceVars, controlVars, bounds>>

(* ARM_UCFM_Finalize.                                                      *)
EnterFinalizeStorage ==
  /\ Enter("FINALIZE_STORAGE")
  /\ fm' = IF fm.ready THEN [fm EXCEPT !.ready = FALSE, !.front = "front", !.key = None] ELSE fm
  /\ \/ fm.ready /\ Accepted(Op("FINALIZE", "-", 0, None))
     \/ (fm.ready => "reject" \in Faults) /\ Next_("IDLE") /\ UNCHANGED paal
  /\ UNCHANGED <<queue, sourceVars, buffer, hubVars, mm, deviceVars, controlVars, bounds>>

(* The result of ARM_UC_FirmwareManager.Activate is not looked at.         *)
EnterActivateFirmware ==
  /\ Enter("ACTIVATE_FIRMWARE") /\ Waits
  /\ \/ paal' = Append(paal, Op("ACTIVATE", "-", 0, None))
     \/ "activate_reject" \in Faults /\ UNCHANGED paal
  /\ UNCHANGED <<queue, sourceVars, buffer, hubVars, mm, fm, deviceVars, controlVars, bounds>>

EnterReboot ==
  \/ Reboots /\ new_state = "REBOOT" /\ Restart /\ UNCHANGED crashes
  \/ ~Reboots /\ Pass("REBOOT", "GET_ACTIVE_FIRMWARE_DETAILS")

SetState ==
  \/ EnterReporting \/ EnterGetDetails \/ EnterReportHash \/ EnterNotified
  \/ EnterManifestFetched \/ EnterManifestComplete \/ EnterCheckVersion
  \/ EnterPrepareFirmwareSetup \/ EnterRequestAuthorization \/ EnterSetupFirmware
  \/ EnterFetchFirstFragment \/ EnterStoreAndDownload \/ EnterFinalizeStorage
  \/ EnterActivateFirmware \/ EnterReboot

-----------------------------------------------------------------------------
(* The hub's event handlers: the state an event leads to, "-" if the event *)
(* is ignored and "ERROR" for ARM_UC_HUB_ErrorHandler.                     *)

In(s, next) == IF hub_state = s THEN next ELSE "ERROR"

FirmwareManagerEvent(e) ==
  CASE e = "PREPARE_DONE" -> In("SETUP_FIRMWARE", "FETCH_FIRST_FRAGMENT")
    [] e = "WRITE_DONE" ->
         (CASE hub_state = "STORE_AND_DOWNLOAD" -> "WAIT_FOR_NETWORK"
            [] hub_state = "WAIT_FOR_STORAGE" -> "STORE_AND_DOWNLOAD"
            [] OTHER -> In("STORE_LAST_FRAGMENT", "FINALIZE_STORAGE"))
    [] e = "FINALIZE_DONE" -> In("FINALIZE_STORAGE", "STORAGE_FINALIZED")
    [] e = "ACTIVATE_DONE" -> In("ACTIVATE_FIRMWARE", "REBOOT")
    [] e = "GET_ACTIVE_DONE" -> "REPORT_ACTIVE_HASH"
    [] e = "GET_INSTALLER_DONE" -> "REPORT_INSTALLER_DETAILS"
    [] e = "GET_ACTIVE_ERROR" -> "GET_INSTALLER_DETAILS"
    [] e = "GET_INSTALLER_ERROR" -> "IDLE"
    [] e \in {"INITIALIZE_DONE", "PREPARE_ERROR"} -> "-"
    [] OTHER -> "ERROR"

ManifestManagerEvent(e) ==
  CASE e = "NEED_FW" -> In("MANIFEST_COMPLETE", "CHECK_VERSION")
    [] e = "DONE" -> IF hub_state = "UNINITIALIZED" THEN "INITIALIZED"
                     ELSE In("MANIFEST_FETCHED", "MANIFEST_COMPLETE")
    [] OTHER -> "ERROR"

(* Mutants: a fragment that arrives before its predecessor is written is   *)
(* dropped; a failed download is not reported.                             *)
SourceManagerEventEarly(e) ==
  CASE e = "NOTIFICATION" -> IF hub_state = "IDLE" THEN "NOTIFIED" ELSE "-"
    [] e = "MANIFEST" -> In("NOTIFIED", "MANIFEST_FETCHED")
    [] e = "FIRMWARE" ->
         IF hub_state \in {"FETCH_FIRST_FRAGMENT", "WAIT_FOR_NETWORK"}
         THEN "STORE_AND_DOWNLOAD" ELSE "-"
    [] OTHER -> "ERROR"


SourceManagerEvent(e) ==
  CASE e = "NOTIFICATION" -> IF hub_state = "IDLE" THEN "NOTIFIED" ELSE "-"
    [] e = "MANIFEST" -> In("NOTIFIED", "MANIFEST_FETCHED")
    [] e = "FIRMWARE" ->
         (CASE hub_state \in {"FETCH_FIRST_FRAGMENT", "WAIT_FOR_NETWORK"} -> "STORE_AND_DOWNLOAD"
            [] OTHER -> In("STORE_AND_DOWNLOAD", "WAIT_FOR_STORAGE"))
    [] OTHER -> "ERROR"

ControlCenterEvent(r) ==
  CASE r = "download" /\ hub_state = "WAIT_FOR_DOWNLOAD_AUTHORIZATION" -> "DOWNLOAD_AUTHORIZED"
    [] r = "install" /\ hub_state = "WAIT_FOR_INSTALL_AUTHORIZATION" -> "INSTALL_AUTHORIZED"
    [] OTHER -> "-"

-----------------------------------------------------------------------------
(* Callbacks: the head of the queue runs while no state is being entered.  *)
Run(n) == new_state = "-" /\ queue # <<>> /\ Head(queue).node = n /\ UNCHANGED hub_state
Event == Head(queue).event
Rest == Tail(queue)

(* event_handler_finalize: the stored image is read back from the start.   *)
EventHandlerFinalize ==
  /\ fm' = [fm EXCEPT !.offset = 0, !.hashed = <<>>]
  /\ \/ Accepted(Op("READ", fm.front, 0, None))
     \/ /\ "reject" \in Faults /\ UNCHANGED paal
        /\ Next_(FirmwareManagerEvent("FINALIZE_ERROR"))
  /\ UNCHANGED buffer

(* Mutant: the hash of the first buffer stands for all of them.            *)
EventHandlerReadFirst ==
  /\ fm' = [fm EXCEPT !.offset = 1, !.hashed = <<>>] /\ UNCHANGED <<buffer, paal>>
  /\ Next_(FirmwareManagerEvent(
       IF Size[fwinfo.of] > 0 => buffer[fm.front].data = Image(fwinfo.of)[1]
       THEN "FINALIZE_DONE" ELSE "FINALIZE_INVALID_HASH_ERROR"))

(* event_handler_read and arm_uc_internal_process_hash: what was read is   *)
(* trimmed to the package's size; the next read is started into the other  *)
(* buffer, or the hash is compared with the one of the parsed manifest.    *)
EventHandlerRead ==
  LET total == Size[config.of]
      front == fm.front
      back == IF front = "front" THEN "back" ELSE "front"
      size == IF fm.offset + 1 > total THEN total - fm.offset ELSE 1
      offset == fm.offset + size
      hashed == CASE size > 0 -> Append(fm.hashed, buffer[front].data)
                  [] size = 0 -> fm.hashed
                  [] OTHER -> Append(fm.hashed, Junk)
      trimmed == [buffer EXCEPT ![front].size = size]
  IN  \/ /\ buffer[front].size = 0 /\ UNCHANGED <<buffer, fm, paal>>
         /\ Next_(FirmwareManagerEvent("FINALIZE_ERROR"))
      \/ /\ buffer[front].size > 0 /\ offset < total
         /\ buffer' = [trimmed EXCEPT ![back].size = 0]
         /\ \/ /\ Accepted(Op("READ", back, offset, None))
               /\ fm' = [fm EXCEPT !.offset = offset, !.hashed = hashed, !.front = back]
            \/ /\ "reject" \in Faults /\ fm' = [fm EXCEPT !.offset = offset]
               /\ Next_(FirmwareManagerEvent("FINALIZE_ERROR")) /\ UNCHANGED paal
      \/ /\ buffer[front].size > 0 /\ offset >= total
         /\ buffer' = trimmed /\ UNCHANGED paal
         /\ fm' = [fm EXCEPT !.offset = offset, !.hashed = <<>>, !.front = back]
         /\ Next_(FirmwareManagerEvent(
              IF hashed = Image(fwinfo.of) THEN "FINALIZE_DONE"
                                           ELSE "FINALIZE_INVALID_HASH_ERROR"))

(* arm_uc_internal_event_handler of the firmware manager.                  *)
RunFirmwareManager ==
  /\ Run("fm") /\ queue' = Rest
  /\ CASE Event = "FINALIZE_DONE" -> EventHandlerFinalize
       [] Event = "READ_DONE" -> EventHandlerRead
       [] OTHER -> Next_(FirmwareManagerEvent(Event)) /\ UNCHANGED <<fm, paal, buffer>>
  /\ UNCHANGED <<sourceVars, hubVars, mm, deviceVars, controlVars, bounds>>

(* The source manager's own event storage: a retry, or an event for the    *)
(* hub.                                                                    *)
RunSourceManager ==
  /\ Run("sm")
  /\ IF Event = "RETRY" THEN GetLater(request_in_flight, Rest, http) /\ UNCHANGED new_state
     ELSE /\ Next_(SourceManagerEvent(Event)) /\ queue' = Rest
          /\ UNCHANGED <<sourceVars, buffer>>
  /\ UNCHANGED <<hubVars, mm, fm, paal, deviceVars, controlVars, bounds>>

(* ARM_UCS_HTTPEvent: an error is retried MaxRetry times, with the uri as  *)
(* it is then.                                                             *)
RunHttpSource ==
  /\ Run("http")
  /\ \/ Event = "DOWNLOAD" /\ CallbackWrapper("FIRMWARE", Rest, HttpIdle)
     \/ /\ Event = "ERROR" /\ http.retryCount < MaxRetry
        /\ http' = [http EXCEPT !.phase = "connect", !.retryCount = @ + 1]
        /\ buffer' = [buffer EXCEPT !["front"].size = 0] /\ queue' = Rest
        /\ UNCHANGED <<request_in_flight, manifest_buffer>>
     \/ /\ Event = "ERROR" /\ (http.retryCount < MaxRetry => "http_reject" \in Faults)
        /\ CallbackWrapper("ERROR", Rest, HttpIdle)
  /\ UNCHANGED <<new_state, hubVars, mm, fm, paal, deviceVars, controlVars, bounds>>

RunLwm2mSource ==
  /\ Run("lwm2mM") \/ Run("lwm2mN")
  /\ CallbackWrapper(Event, Rest, http)
  /\ UNCHANGED <<new_state, hubVars, mm, fm, paal, deviceVars, controlVars, bounds>>

RunAuthorize ==
  /\ Run("authorize") /\ Next_(ControlCenterEvent(Event)) /\ queue' = Rest
  /\ UNCHANGED <<sourceVars, buffer, hubVars, mm, fm, paal, deviceVars, controlVars, bounds>>

(* arm_uccc_override_task: the pending request is granted, the download    *)
(* before the installation, and the authority handler is dropped.          *)
RunOverride ==
  LET r == IF token["download"] THEN "download" ELSE "install" IN
  /\ Run("override") /\ queue' = Rest /\ authority' = FALSE
  /\ IF token[r] THEN /\ token' = [token EXCEPT ![r] = FALSE]
                      /\ granted' = [granted EXCEPT ![r] = TRUE]
                      /\ Next_(ControlCenterEvent(r))
     ELSE UNCHANGED <<token, granted, new_state>>
  /\ UNCHANGED <<sourceVars, buffer, hubVars, mm, fm, paal, deviceVars, bounds>>

-----------------------------------------------------------------------------
(* Manifest manager: ARM_UC_mmCallbackFSMEntry runs the machine the mode   *)
(* selects, from k, the machines' state when it is called; an error is     *)
(* reported to the hub directly and leaves the mode as it is.              *)
FSMError(k, q) ==
  mm' = k /\ Next_(ManifestManagerEvent("ERROR")) /\ queue' = q /\ UNCHANGED fwinfo

FSMDone(k, q) ==
  /\ mm' = [k EXCEPT !.state = "IDLE"] /\ queue' = Post(q, "mmApp", "DONE")
  /\ UNCHANGED <<new_state, fwinfo>>

(* ARM_UC_mmInsertFSM: the basic checks start the check of the signature,  *)
(* whose result ends the insertion.                                        *)
InsertFSM(k, e, q) ==
  \/ /\ k.insert = "BEGIN" /\ buffer["front"].data.part = -1
     /\ mm' = [k EXCEPT !.insert = "SIGNATURE", !.signature = "FIND"]
     /\ queue' = Append(q, Entry("mmSign", "BEGIN")) /\ UNCHANGED <<new_state, fwinfo>>
  \/ /\ k.insert = "BEGIN"
     /\ buffer["front"].data.part # -1 \/ "manifest" \in Faults
     /\ FSMError([k EXCEPT !.insert = "FAIL"], q)
  \/ k.insert = "SIGNATURE" /\ e = "DONE" /\ FSMDone([k EXCEPT !.insert = "IDLE"], q)
  \/ /\ k.insert \in {"SIGNATURE", "FAIL"}
     /\ (k.insert = "SIGNATURE" /\ e = "DONE") => "manifest" \in Faults
     /\ FSMError(k, q)

(* ARM_UC_mmFetchFirmwareInfoFSM: the saved manifest is parsed into fwinfo.*)
FetchFirmwareInfoFSM(k, e, q) ==
  \/ /\ k.fw = "BEGIN" /\ fwinfo.saved # None
     /\ fwinfo' = [fwinfo EXCEPT !.of = fwinfo.saved]
     /\ mm' = [k EXCEPT !.fw = "WAIT"] /\ queue' = Post(q, "mmFw", "NEED_FW")
     /\ UNCHANGED new_state
  \/ k.fw = "BEGIN" /\ (fwinfo.saved # None => "manifest" \in Faults) /\ FSMError(k, q)
  \/ /\ k.fw = "BEGIN" /\ fwinfo.saved # None /\ "manifest" \in Faults
     /\ FSMDone([k EXCEPT !.fw = "READ_URI"], q)
  \/ k.fw = "WAIT" /\ FSMDone([k EXCEPT !.fw = IF e = "BEGIN" THEN "IDLE" ELSE @], q)

CallbackFSMEntry(k, e, q) ==
  CASE k.state = "INSERTING" -> InsertFSM(k, e, q)
    [] k.state = "FWINFO" -> FetchFirmwareInfoFSM(k, e, q)
    [] OTHER -> mm' = k /\ queue' = q /\ UNCHANGED <<new_state, fwinfo>>

(* The callback of either context's storage; the one of the firmware       *)
(* context also carries the event for the hub.                             *)
RunManifestManager ==
  /\ Run("mmInsert") \/ Run("mmFw")
  /\ IF Event = "NEED_FW"
     THEN Next_(ManifestManagerEvent(Event)) /\ queue' = Rest /\ UNCHANGED <<mm, fwinfo>>
     ELSE CallbackFSMEntry(mm, Event, Rest)
  /\ UNCHANGED <<sourceVars, buffer, config, firmware_offset, active_version, fm, paal,
                 deviceVars, controlVars, bounds>>

(* ARM_UC_mmVerifySignatureEntry: the certificate is fetched into the back *)
(* buffer, then the signature of what the front buffer holds is checked.   *)
RunSignature ==
  LET done == [mm EXCEPT !.signature = "IDLE"] IN
  /\ Run("mmSign")
  /\ \/ /\ mm.signature = "FIND"
        /\ mm' = [mm EXCEPT !.signature = "FINDING"]
        /\ queue' = Post(Rest, "mmSign", "FETCHED")
        /\ buffer' = [buffer EXCEPT !["back"].data = Junk] /\ UNCHANGED <<new_state, fwinfo>>
     \/ /\ mm.signature = "FINDING" /\ Event = "FETCHED" /\ buffer["front"].data.part = -1
        /\ CallbackFSMEntry(done, "DONE", Rest) /\ UNCHANGED buffer
     \/ /\ mm.signature = "FINDING"
        /\ Event # "FETCHED" \/ buffer["front"].data.part # -1 \/ "manifest" \in Faults
        /\ CallbackFSMEntry(mm, "ERROR", Rest) /\ UNCHANGED buffer
  /\ UNCHANGED <<sourceVars, config, firmware_offset, active_version, fm, paal,
                 deviceVars, controlVars, bounds>>

RunManifestDone ==
  /\ Run("mmApp") /\ Next_(ManifestManagerEvent("DONE")) /\ queue' = Rest
  /\ UNCHANGED <<sourceVars, buffer, hubVars, mm, fm, paal, deviceVars, controlVars, bounds>>

RunCallback ==
  \/ RunFirmwareManager \/ RunSourceManager \/ RunHttpSource \/ RunLwm2mSource
  \/ RunAuthorize \/ RunOverride
  \/ RunManifestManager \/ RunSignature \/ RunManifestDone

-----------------------------------------------------------------------------
(* external: the storage port.  An operation that fails may have been      *)
(* performed in part, or not at all.  Each ends with an event posted on    *)
(* the firmware manager's one callback node (ARM_UCFM_PALEventHandler).    *)
Completes(e) == queue' = Post(queue, "fm", e)

PaalStorage ==
  LET o == Head(paal) IN
  \/ /\ o.op = "PREPARE"
     /\ \/ storage' = [header |-> o.of, data |-> Erased] /\ Completes("PREPARE_DONE")
        \/ /\ "prepare_late" \in Faults /\ Completes("PREPARE_ERROR")
           /\ storage' \in {storage, [header |-> None, data |-> Erased]}
     /\ buffer' = [buffer EXCEPT !["front"].data = Junk]
     /\ UNCHANGED <<activated, active_version>>
  \/ /\ o.op = "WRITE"
     /\ \/ Completes("WRITE_DONE") /\ storage' = [storage EXCEPT !.data[o.offset] = buffer[o.buf].data]
        \/ "write" \in Faults /\ Completes("WRITE_ERROR") /\ UNCHANGED storage
     /\ UNCHANGED <<buffer, activated, active_version>>
  \/ /\ o.op = "FINALIZE"
     /\ Completes("FINALIZE_DONE") \/ ("finalize" \in Faults /\ Completes("FINALIZE_ERROR"))
     /\ UNCHANGED <<storage, buffer, activated, active_version>>
  \/ /\ o.op = "READ"
     /\ \/ /\ Completes("READ_DONE")
           /\ \E n \in IF storage.data[o.offset] = Junk THEN {0, 1} ELSE {1} :
                buffer' = [buffer EXCEPT ![o.buf] = [data |-> storage.data[o.offset], size |-> n]]
        \/ "read" \in Faults /\ Completes("READ_ERROR") /\ UNCHANGED buffer
     /\ UNCHANGED <<storage, activated, active_version>>
  \/ /\ o.op = "ACTIVATE"
     /\ \/ Completes("ACTIVATE_DONE") /\ activated' = storage.header
        \/ "activate" \in Faults /\ Completes("ACTIVATE_ERROR") /\ UNCHANGED activated
     /\ UNCHANGED <<storage, buffer, active_version>>
  \/ /\ o.op = "GET_ACTIVE"
     /\ \/ Completes("GET_ACTIVE_DONE") /\ active_version' = running
        \/ "details" \in Faults /\ Completes("GET_ACTIVE_ERROR") /\ UNCHANGED active_version
     /\ UNCHANGED <<storage, buffer, activated>>
  \/ /\ o.op = "GET_INSTALLER"
     /\ \/ Completes("GET_INSTALLER_DONE")
        \/ "details" \in Faults /\ Completes("GET_INSTALLER_ERROR")
     /\ UNCHANGED <<storage, buffer, activated, active_version>>
  \/ /\ o.op = "INITIALIZE" /\ Completes("INITIALIZE_DONE")
     /\ UNCHANGED <<storage, buffer, activated, active_version>>

PaalCompletes ==
  /\ paal # <<>> /\ paal' = Tail(paal) /\ PaalStorage
  /\ UNCHANGED <<hub_state, new_state, sourceVars, fwinfo, config, firmware_offset,
                 mm, fm, running, controlVars, bounds>>

(* The HTTP socket, on the event loop: the request for the fragment is put *)
(* together in the front buffer from the uri as it is now; the answer is   *)
(* received into the front buffer as it is then.                           *)
Network(phase) ==
  /\ new_state = "-" /\ http.phase = phase
  /\ UNCHANGED <<hub_state, new_state, request_in_flight, manifest_buffer, hubVars,
                 mm, fm, paal, deviceVars, controlVars, bounds>>

HttpSend ==
  /\ Network("connect")
  /\ http' = [http EXCEPT !.phase = "receive", !.of = config.uri]
  /\ buffer' = [buffer EXCEPT !["front"] = [data |-> Junk, size |-> 0]]
  /\ UNCHANGED queue

HttpReceive ==
  /\ Network("receive") /\ http.offset < Size[http.of]
  /\ http' = [http EXCEPT !.phase = "done"]
  /\ \E data \in {Cell(http.of, http.offset, Cipher[http.of] # "none")}
                  \cup (IF "corrupt" \in Faults THEN {Cell(None, 1, FALSE)} ELSE {}) :
       buffer' = [buffer EXCEPT !["front"] = [data |-> data, size |-> 1]]
  /\ queue' = Post(queue, "http", "DOWNLOAD")

(* A socket error, the socket's timeout, or an answer that is an error.    *)
HttpError ==
  /\ Network("connect") \/ Network("receive")
  /\ "http" \in Faults \/ (http.phase = "receive" /\ http.offset >= Size[http.of])
  /\ http' = [http EXCEPT !.phase = "done"]
  /\ queue' = Post(queue, "http", "ERROR") /\ UNCHANGED buffer

(* ARM_UCS_PackageCallback: a manifest is received over LWM2M.             *)
(* It may come at any time, only while the hub is idle (though operations  *)
(* of an aborted update may still be under way), or only when nothing is.  *)
MayPush ==
  CASE Push = "always" -> TRUE
    [] Push = "idle" -> /\ hub_state = "IDLE" /\ manifest_buffer = None
                        /\ ~Queued("lwm2mN") /\ ~Queued("sm")
    [] Push = "quiet" -> hub_state = "IDLE" /\ queue = <<>> /\ paal = <<>> /\ http.phase = "idle"

PackageCallback(m) ==
  /\ new_state = "-" /\ pushes < MaxPushes /\ MayPush
  /\ \/ manifest_buffer' = m /\ queue' = Post(queue, "lwm2mN", "NOTIFICATION")
     \/ /\ "alloc" \in Faults
        /\ manifest_buffer' = None /\ queue' = Post(queue, "lwm2mN", "ERROR")
  /\ pushes' = pushes + 1
  /\ UNCHANGED <<hub_state, new_state, request_in_flight, http, buffer, hubVars, mm, fm,
                 paal, deviceVars, controlVars, crashes, scenario>>

(* The application, from any thread: ARM_UC_ControlCenter_Authorize.       *)
Authorize(r) ==
  /\ token[r]
  /\ token' = [token EXCEPT ![r] = FALSE] /\ granted' = [granted EXCEPT ![r] = TRUE]
  /\ queue' = Post(queue, "authorize", r)
  /\ UNCHANGED <<hub_state, new_state, sourceVars, buffer, hubVars, mm, fm, paal,
                 deviceVars, authority, bounds>>

OverrideAuthorization ==
  /\ authority /\ queue' = Post(queue, "override", "-")
  /\ UNCHANGED <<hub_state, new_state, sourceVars, buffer, hubVars, mm, fm, paal,
                 deviceVars, controlVars, bounds>>

PowerCut == crashes < MaxCrashes /\ Restart /\ crashes' = crashes + 1

HttpStep == HttpSend \/ HttpReceive \/ HttpError

Next ==
  \/ SetState \/ RunCallback \/ PaalCompletes \/ HttpStep
  \/ \E m \in Manifests : PackageCallback(m)
  \/ \E r \in Requests : Authorize(r)
  \/ OverrideAuthorization
  \/ PowerCut

Spec == Init /\ [][Next]_vars

(* The event loop runs what is queued, accepted storage operations end,    *)
(* the network answers or times out, and the application answers what it   *)
(* is asked.                                                               *)
FairSpec ==
  /\ Spec
  /\ WF_vars(SetState) /\ WF_vars(RunCallback) /\ WF_vars(PaalCompletes) /\ WF_vars(HttpStep)
  /\ \A r \in Requests : WF_vars(Authorize(r))

-----------------------------------------------------------------------------
(* Properties.                                                             *)

HubStates ==
  {"UNINITIALIZED", "INITIALIZED", "GET_ACTIVE_FIRMWARE_DETAILS", "REPORT_ACTIVE_HASH",
   "REPORT_ACTIVE_VERSION", "GET_INSTALLER_DETAILS", "REPORT_INSTALLER_DETAILS", "IDLE",
   "NOTIFIED", "MANIFEST_FETCHED", "MANIFEST_COMPLETE", "CHECK_VERSION",
   "PREPARE_FIRMWARE_SETUP", "REQUEST_DOWNLOAD_AUTHORIZATION",
   "WAIT_FOR_DOWNLOAD_AUTHORIZATION", "DOWNLOAD_AUTHORIZED", "SETUP_FIRMWARE",
   "FETCH_FIRST_FRAGMENT", "STORE_AND_DOWNLOAD", "WAIT_FOR_STORAGE", "WAIT_FOR_NETWORK",
   "STORE_LAST_FRAGMENT", "FINALIZE_STORAGE", "STORAGE_FINALIZED",
   "WAIT_FOR_INSTALL_AUTHORIZATION", "INSTALL_AUTHORIZED", "ACTIVATE_FIRMWARE", "REBOOT",
   "ERROR"}

(* The states of arm_uc_hub_state, the retry counter of the HTTP source,   *)
(* and the offsets: the hub and the firmware manager never read or write   *)
(* past the image, from whatever state the last update was given up in.    *)
TypeOK ==
  /\ hub_state \in HubStates /\ new_state \in HubStates \cup {"-"}
  /\ http.retryCount \in 0..MaxRetry
  /\ firmware_offset \in 0..MaxSize /\ fm.offset \in 0..MaxSize
  /\ fwinfo.saved \in Manifests \cup {None} /\ fwinfo.of \in Manifests \cup {None}
  /\ \A i \in 1..Len(paal) : paal[i].offset \in 0..MaxSize

(* When the storage port activates the slot, the slot holds the image its  *)
(* header names, whole and decrypted, whatever happened since: the install *)
(* authorization is asked for only after the hash check of                 *)
(* event_handler_read over what the slot really holds, and nothing writes  *)
(* to the slot in between.                                                 *)
ActivateOnlyVerified ==
  (paal # <<>> /\ Head(paal).op = "ACTIVATE") =>
    /\ storage.header \in Manifests
    /\ \A k \in 1..Size[storage.header] : storage.data[k - 1] = Image(storage.header)[k]

(* The hub downloads only what was authorized after it was last asked for, *)
(* and installs likewise: a grant left over from an aborted update is not  *)
(* used (the tokens of control_center.c, the state checks of               *)
(* ARM_UC_HUB_ControlCenterEventHandler).                                  *)
AuthorizedFirst ==
  /\ hub_state \in {"SETUP_FIRMWARE", "FETCH_FIRST_FRAGMENT", "STORE_AND_DOWNLOAD",
                    "WAIT_FOR_STORAGE", "WAIT_FOR_NETWORK", "STORE_LAST_FRAGMENT",
                    "FINALIZE_STORAGE"} => granted["download"]
  /\ hub_state \in {"ACTIVATE_FIRMWARE", "REBOOT"} => granted["install"]

(* The hub asks for and downloads only images it can decrypt: the cipher   *)
(* mode of the manifest is one that PREPARE_FIRMWARE_SETUP supports.       *)
SupportedOnly ==
  hub_state \in {"WAIT_FOR_DOWNLOAD_AUTHORIZATION", "SETUP_FIRMWARE", "FETCH_FIRST_FRAGMENT",
                 "STORE_AND_DOWNLOAD"} => Cipher[config.of] # "other"

(* Rollback protection (CHECK_VERSION): the version that runs never goes   *)
(* back, on a device whose active details can be read.                     *)
NoRollback == [][~("details" \in Faults) => running' >= running]_vars

(* The same on every device: NoRollbackEver is violated when the details   *)
(* cannot be read, as version 0 is assumed then.                           *)
NoRollbackEver == [][running' >= running]_vars

(* While a fragment is being written its buffer is left alone, by the      *)
(* download into the other buffer, by a swap and by the next update.       *)
WriteIntact ==
  [][(paal # <<>> /\ paal' # <<>> /\ Head(paal).op = "WRITE" /\ paal'[1] = Head(paal))
       => buffer'[Head(paal).buf] = buffer[Head(paal).buf]]_vars

(* What the hub waits for in each state is on its way.                     *)
Pending(ops) == \E i \in 1..Len(paal) : paal[i].op \in ops
Reported(n, es) == \E i \in 1..Len(queue) : queue[i].node = n /\ queue[i].event \in es
FragmentComing ==
  http.phase \in {"connect", "receive"} \/ Queued("http")
    \/ Reported("sm", {"FIRMWARE", "RETRY", "ERROR"})
WriteComing == Pending({"WRITE"}) \/ Reported("fm", {"WRITE_DONE", "WRITE_ERROR"})

(* The hub is never stranded: a state other than IDLE always has coming    *)
(* the event that moves it on, although each of the firmware manager, the  *)
(* source manager and the control centre posts its events through a single *)
(* node, and a post on a queued node is silently refused.                  *)
NeverStranded ==
  new_state = "-" =>
    CASE hub_state = "UNINITIALIZED" -> Queued("mmApp")
      [] hub_state = "GET_ACTIVE_FIRMWARE_DETAILS" ->
           Pending({"GET_ACTIVE"}) \/ Reported("fm", {"GET_ACTIVE_DONE", "GET_ACTIVE_ERROR"})
      [] hub_state = "GET_INSTALLER_DETAILS" ->
           Pending({"GET_INSTALLER"}) \/ Reported("fm", {"GET_INSTALLER_DONE", "GET_INSTALLER_ERROR"})
      [] hub_state = "NOTIFIED" -> Queued("lwm2mM") \/ Reported("sm", {"MANIFEST", "ERROR"})
      [] hub_state = "MANIFEST_FETCHED" -> \E n \in {"mmInsert", "mmSign", "mmApp"} : Queued(n)
      [] hub_state = "MANIFEST_COMPLETE" -> Queued("mmFw") \/ Queued("mmApp")
      [] hub_state = "WAIT_FOR_DOWNLOAD_AUTHORIZATION" ->
           token["download"] \/ Reported("authorize", {"download"})
      [] hub_state = "SETUP_FIRMWARE" -> Pending({"PREPARE"}) \/ Reported("fm", {"PREPARE_DONE"})
      [] hub_state \in {"FETCH_FIRST_FRAGMENT", "WAIT_FOR_NETWORK"} -> FragmentComing
      [] hub_state = "STORE_AND_DOWNLOAD" -> FragmentComing /\ WriteComing
      [] hub_state \in {"WAIT_FOR_STORAGE", "STORE_LAST_FRAGMENT"} -> WriteComing
      [] hub_state = "FINALIZE_STORAGE" ->
           \/ Pending({"FINALIZE", "READ"})
           \/ Reported("fm", {"FINALIZE_DONE", "FINALIZE_ERROR", "READ_DONE", "READ_ERROR"})
      [] hub_state = "WAIT_FOR_INSTALL_AUTHORIZATION" ->
           token["install"] \/ Reported("authorize", {"install"})
      [] hub_state = "ACTIVATE_FIRMWARE" ->
           Pending({"ACTIVATE"}) \/ Reported("fm", {"ACTIVATE_DONE", "ACTIVATE_ERROR"})
      [] OTHER -> hub_state = "IDLE"


(* A newer manifest that arrives when the hub is idle, and meets no        *)
(* failure, is installed, unless the power is cut before; a manifest that  *)
(* is sent again after the cut is installed again.                         *)
UpdateInstalled ==
  \A m \in Manifests, c \in 0..1 :
    (/\ Faults = {} /\ manifest_buffer = m
     /\ Timestamp[m] > running /\ Size[m] > 0 /\ crashes = c)
      ~> (running >= Timestamp[m] \/ crashes > c)

=============================================================================
