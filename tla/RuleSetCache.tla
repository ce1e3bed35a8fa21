---------------------------- MODULE RuleSetCache ----------------------------
(***************************************************************************)
(* The cache of downloaded rule-sets (geo.rs): metadata.json, with a record*)
(* per file and the epoch of the schedules, and the files themselves.  A   *)
(* rule-set is a key (the name of its file) and the address it comes from; *)
(* the version a server serves stands for the bytes and for the ETag.      *)
(***************************************************************************)
EXTENDS Schedule, FiniteSetsExt

NoUrl == "none"
NoFile == [url |-> NoUrl, version |-> 0, usable |-> FALSE]

\* RuleSetRecord::default
NoRecord == [url |-> NoUrl, etag |-> Unset, checked |-> Unset, retry |-> NoRetry, next |-> Unset]

\* A record without an address describes whatever file has its name.
Describes(record, rs) == record.url \in {NoUrl, rs.url}

\* GeoMetadata::record
RecordOf(meta, rs) ==
    IF Describes(meta.records[rs.key], rs) THEN meta.records[rs.key] ELSE NoRecord

HasCurrent(meta, files, rs) == Describes(meta.records[rs.key], rs) /\ files[rs.key].usable

\* GeoManager::states
StatesOf(meta, files, sets) ==
    [k \in {rs.key : rs \in sets} |->
        LET rs == CHOOSE r \in sets : r.key = k
            record == RecordOf(meta, rs)
        IN  [present |-> HasCurrent(meta, files, rs), checked |-> record.checked,
             retry |-> record.retry, next |-> record.next]]

\* adopt_source: the record of another address starts anew (and its file is
\* removed, see AdoptedFile).
Adopted(record, rs) ==
    [(IF Describes(record, rs) THEN record ELSE NoRecord) EXCEPT !.url = rs.url]

\* Seeded fault: the file of another address stays.
AdoptedFile_Kept(record, file, rs) == file

AdoptedFile(record, file, rs) == IF Describes(record, rs) THEN file ELSE NoFile

\* rule_set_needs_download and check_single, given what HEAD answered: an
\* answer other than 200 asks for a download, as a changed or unknown ETag does.
NeedsDownload(saved, files, rs, head, version) ==
    ~HasCurrent(saved, files, rs) \/ head = "status" \/ RecordOf(saved, rs).etag /= version

\* download_file: the file at dest is replaced whole, by a rule-set.
DownloadedFile(rs, version) == [url |-> rs.url, version |-> version, usable |-> TRUE]

\* record_outcome: ETag and time of a success, and the schedule if it is of
\* the epoch that is current; nothing if the record is of another address.
Recorded(meta, rs, outcome, write, now) ==
    LET record == meta.records[rs.key]
        scheduled == write.on /\ write.epoch = meta.epoch
        checked == [record EXCEPT
                      !.etag = IF outcome.etag = Unset THEN @ ELSE outcome.etag,
                      !.checked = IF outcome.failed \/ outcome.alreadyPresent THEN @ ELSE now]
    IN  IF ~Describes(record, rs) THEN record
        ELSE IF ~scheduled THEN checked
        ELSE [checked EXCEPT
                !.retry = IF outcome.failed THEN AfterFailure(@, now) ELSE NoRetry,
                !.next = IF outcome.failed \/ outcome.alreadyPresent THEN @
                         ELSE Date(now) + write.days]

\* The records of sets, each changed by Change unless it is of another address.
WithRecords(meta, sets, Change(_)) ==
    [meta EXCEPT !.records = [k \in DOMAIN @ |->
        IF \E rs \in sets : rs.key = k /\ Describes(meta.records[k], rs)
        THEN Change(@[k]) ELSE @[k]]]

\* reset_update_schedules: a new epoch, no retries, the next window or none.
ResetSchedules(meta, sets, enabled, now) ==
    LET reset(record) == [record EXCEPT !.retry = NoRetry,
                                        !.next = IF enabled THEN NextWindowDate(now) ELSE Unset]
    IN  [WithRecords(meta, sets, reset) EXCEPT !.epoch = @ + 1]

\* ensure_update_schedules, when the daemon starts: the next window where
\* there is no date.
EnsureSchedules(meta, sets, enabled, now) ==
    LET ensure(record) == [record EXCEPT !.next = IF @ = Unset THEN NextWindowDate(now) ELSE @]
    IN  IF enabled THEN WithRecords(meta, sets, ensure) ELSE meta
=============================================================================
