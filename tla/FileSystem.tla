----------------------------- MODULE FileSystem -----------------------------
(***************************************************************************)
(* The project file system of mcrl2ide                                    *)
(* (src/tools/release/mcrl2ide/filesystem.cpp): the properties of an open *)
(* project in memory, the property entries of the project file, the       *)
(* property files of the properties folder, and the specification in the  *)
(* editor and on disk.                                                     *)
(*                                                                         *)
(* A property is a record of its name, its kind ("mcf" for a mu-calculus  *)
(* formula, "equ" for an equivalence) and its text; a file of the          *)
(* properties folder is named by a name and an extension.  The project    *)
(* file is rewritten whenever projectOptions changes (updateProjectFile),  *)
(* so one variable stands for both.  Only the folder of the open project  *)
(* is modelled: a new project or a save as moves to a new folder, or to   *)
(* the same one chosen again.  Before a reopen files can be deleted       *)
(* outside the IDE; reopening reads everything back.                       *)
(*                                                                         *)
(* The IDE starts with no project, or, given a .mcrl2 file, in            *)
(* specification-only mode.  Its main window (not under src/) offers the  *)
(* property operations and reopening only while a project is open, and    *)
(* no project operation in specification-only mode; these are guards.     *)
(*                                                                         *)
(* Files carry the modification time QFileInfo::lastModified reports.     *)
(* The clock now is the time of the next write, and every handler that    *)
(* writes stamps its files with it and advances it, so a later write has  *)
(* a later time.  The temporary folder of a session (a QTemporaryDir     *)
(* member, lines 62-65, removed only when the IDE exits) holds, per       *)
(* property name, the reinitialised specification of                      *)
(* createReinitialisedSpecification (the one of SpecType::First), whose   *)
(* path names the project and the property (lines 137-138), and the      *)
(* copies saveProperty(property, true) writes for parsing, whose path     *)
(* names only the property (lines 163-168).  A new session has neither;   *)
(* a project of another name sees no reinitialised specification.        *)
(***************************************************************************)
EXTENDS Integers, Sequences, SequencesExt

CONSTANTS
  Names,       \* property names
  Texts,       \* property and specification texts
  Empty,       \* the empty text: an emptied editor, a new file
  Absent,      \* a file that does not exist
  MaxEntries,  \* bound on the entries of the project file (model size)
  MaxTime      \* bound on the clock: the number of writes (model size)

Kinds == {"equ", "mcf"}

Property == [name : Names, kind : Kinds, text : Texts]

SpecTexts == Texts \cup {Empty}

VARIABLES
  properties,            \* std::list<Property> properties
  entries,               \* the <property> elements of projectOptions
  files,                 \* the properties folder: Names \X Kinds -> file
  editor,                \* the text in the specification editor
  specFile,              \* the file at specFilePath
  specificationModified,
  projectOpen,
  specificationOnlyMode,
  now,                   \* the modification time the next write gets
  stamp,                 \* lastModified of the files of the properties folder
  specStamp,             \* lastModified of the specification file
  reinit,                \* the temporary folder: name -> reinitialised spec
  parseCopies,           \* the temporary folder: property files for parsing
  lastKnownSpecificationModificationTime

timeVars == <<now, stamp, specStamp, reinit, parseCopies,
              lastKnownSpecificationModificationTime>>

vars == <<properties, entries, files, editor, specFile, specificationModified,
          projectOpen, specificationOnlyMode, now, stamp, specStamp, reinit, parseCopies,
          lastKnownSpecificationModificationTime>>

NoFiles == [f \in Names \X Kinds |-> Absent]

NoReinit == [n \in Names |-> Absent]

NoParseCopies == [f \in Names \X Kinds |-> Absent]

(* A handler that writes the specification file (when specWritten) and    *)
(* the property files in written stamps them with the time of the write.  *)
(* A handler that writes nothing leaves the clock alone.                   *)
WriteFiles(specWritten, written) ==
  IF ~specWritten /\ written = {}
  THEN UNCHANGED <<now, stamp, specStamp>>
  ELSE /\ now < MaxTime
       /\ now' = now + 1
       /\ specStamp' = IF specWritten THEN now ELSE specStamp
       /\ stamp' = [f \in Names \X Kinds |-> IF f \in written THEN now ELSE stamp[f]]

(* updateSpecificationModificationTime, lines 238-242, after a write of   *)
(* the specification file when written holds.                              *)
updateSpecificationModificationTime(written) ==
  lastKnownSpecificationModificationTime' =
    IF written THEN specStamp' ELSE lastKnownSpecificationModificationTime

(* newProject and saveAs choose a project folder.  The folder of the open *)
(* project chosen again keeps its properties folder and project name, and *)
(* so the reinitialised specifications of the session; any other folder   *)
(* is a new one (mkpath), named differently.                               *)
Folder(sameFolder) == IF sameFolder THEN files ELSE NoFiles

ReinitOfFolder(sameFolder) == IF sameFolder THEN reinit ELSE NoReinit


PropertyNames == {properties[i].name : i \in DOMAIN properties}

(* propertyNameExists, lines 255-266; names are compared after toLower,    *)
(* and distinct model values stand for names that differ in more than     *)
(* case.                                                                   *)
propertyNameExists(n) == n \in PropertyNames

(* saveProperty, lines 990-1010, at propertyFilePath (lines 163-168): the *)
(* file is named after the property's name and kind.                       *)
saveProperty(p) == [files EXCEPT ![p.name, p.kind] = p.text]

(* The files of the properties folder the properties of ps are saved in.  *)
PropertyFiles(ps) == {<<q.name, q.kind>> : q \in Range(ps)}

(* Lines 927-933: saveProperty for every property of the list, into the   *)
(* properties folder fs.                                                   *)
saveAllProperties(fs) ==
  [f \in Names \X Kinds |->
     IF \E q \in Range(properties) : <<q.name, q.kind>> = f
     THEN (CHOOSE q \in Range(properties) : <<q.name, q.kind>> = f).text
     ELSE fs[f]]

(* findPropertyFilePath, lines 728-741: the first *.mcf or *.equ file of   *)
(* the folder, in QDir's default name order, whose base name is the        *)
(* property's name; "" when there is none.                                 *)
findPropertyFilePath(n, fs) ==
  IF fs[n, "equ"] # Absent THEN "equ"
  ELSE IF fs[n, "mcf"] # Absent THEN "mcf"
  ELSE ""

(* readPropertyFromFile, lines 743-791, on the file found for name n.     *)
readPropertyFromFile(n, k, fs) == [name |-> n, kind |-> k, text |-> fs[n, k]]

(* The properties a reopen reads when no entry is removed: one per entry   *)
(* whose file is found.                                                    *)
RECURSIVE ReadProperties(_, _)
ReadProperties(es, fs) ==
  IF es = <<>> THEN <<>>
  ELSE LET k == findPropertyFilePath(Head(es), fs)
       IN (IF k = "" THEN <<>> ELSE <<readPropertyFromFile(Head(es), k, fs)>>)
            \o ReadProperties(Tail(es), fs)

(* removePropertyFromProjectFile, lines 884-897: the loop runs over the    *)
(* live QDomNodeList of <property> elements by index and removes a match   *)
(* at i, so the element that moves into place i is not looked at.          *)
RECURSIVE RemoveEntriesFrom(_, _, _)
RemoveEntriesFrom(es, n, i) ==
  IF i > Len(es) THEN es
  ELSE IF es[i] = n THEN RemoveEntriesFrom(RemoveAt(es, i), n, i + 1)
  ELSE RemoveEntriesFrom(es, n, i + 1)

removePropertyFromProjectFile(es, n) == RemoveEntriesFrom(es, n, 1)

(* Mutant: an entry without a file is read as a property anyway.           *)
RECURSIVE ReopenOutcomes_NoCheck(_, _, _, _)
ReopenOutcomes_NoCheck(es, i, props, fs) ==
  IF i > Len(es) THEN {<<es, props>>}
  ELSE LET k == findPropertyFilePath(es[i], fs)
       IN ReopenOutcomes_NoCheck(es, i + 1,
            Append(props, [name |-> es[i], kind |-> k,
                           text |-> IF k = "" THEN Absent ELSE fs[es[i], k]]), fs)

(* The read loop of openProjectFromFolder, lines 676-711, from entry i on, *)
(* as the set of <<entries, properties>> it can end with.  For an entry    *)
(* without a file the user is asked whether to remove it: yes calls        *)
(* removePropertyFromProjectFile and i-- (the same index is read next).    *)
RECURSIVE ReopenOutcomes(_, _, _, _)
ReopenOutcomes(es, i, props, fs) ==
  IF i > Len(es) THEN {<<es, props>>}
  ELSE LET k == findPropertyFilePath(es[i], fs)
       IN IF k = ""
          THEN ReopenOutcomes(es, i + 1, props, fs)
               \cup ReopenOutcomes(removePropertyFromProjectFile(es, es[i]), i, props, fs)
          ELSE ReopenOutcomes(es, i + 1, Append(props, readPropertyFromFile(es[i], k, fs)), fs)

-----------------------------------------------------------------------------
(* The constructor, lines 50-69, with no project open; or, when mcrl2ide *)
(* is started on a .mcrl2 file, openFromArgument (lines 545-571), which   *)
(* loads it (loadSpecification, lines 497-543) and enters                 *)
(* specification-only mode.                                                *)
Init ==
  /\ properties = <<>>
  /\ entries = <<>>
  /\ files = NoFiles
  /\ specificationModified = FALSE
  /\ projectOpen = FALSE
  /\ now = 1 /\ stamp = [f \in Names \X Kinds |-> 0] /\ specStamp = 0
  /\ reinit = NoReinit /\ parseCopies = NoParseCopies
  /\ lastKnownSpecificationModificationTime = 0
  /\ \/ /\ specificationOnlyMode = FALSE
        /\ editor = Empty /\ specFile = Absent
     \/ /\ specificationOnlyMode = TRUE
        /\ specFile \in SpecTexts /\ editor = specFile

(* The editor's modificationChanged signal, connected to                   *)
(* setSpecificationModified (lines 234-237), after a change of the text.  *)
EditSpecification(t) ==
  /\ t # editor
  /\ editor' = t
  /\ specificationModified' = TRUE
  /\ UNCHANGED <<properties, entries, files, specFile, projectOpen,
                 specificationOnlyMode>>
  /\ UNCHANGED timeVars

(* newProject(true), lines 422-495: new project options without           *)
(* properties, an emptied editor and properties list if a project was     *)
(* open, and then save(true), which writes the specification and clears  *)
(* the modified flag.                                                      *)
newProject(sameFolder) ==
  /\ ~specificationOnlyMode
  /\ properties' = <<>>
  /\ entries' = <<>>
  /\ files' = Folder(sameFolder)
  /\ editor' = IF projectOpen THEN Empty ELSE editor
  /\ specFile' = editor'
  /\ specificationModified' = FALSE
  /\ projectOpen' = TRUE
  /\ WriteFiles(TRUE, {})
  /\ updateSpecificationModificationTime(TRUE)
  /\ reinit' = ReinitOfFolder(sameFolder)
  /\ UNCHANGED <<specificationOnlyMode, parseCopies>>

(* saveAs, lines 947-988.  In specification-only mode: the chosen file is  *)
(* created by opening it WriteOnly, and save() writes the editor's text   *)
(* into it only if the specification is modified.  Otherwise:              *)
(* newProject(!projectOpen) (with a project open, newProject(false) keeps *)
(* the project options and the properties), then save(true), which writes *)
(* the specification and every property.                                   *)
saveAs(sameFolder) ==
  /\ IF specificationOnlyMode
     THEN /\ specFile' = IF specificationModified THEN editor ELSE Empty
          /\ WriteFiles(TRUE, {})
          /\ updateSpecificationModificationTime(specificationModified)
          /\ UNCHANGED <<files, projectOpen, reinit>>
     ELSE /\ files' = saveAllProperties(Folder(sameFolder))
          /\ specFile' = editor
          /\ projectOpen' = TRUE
          /\ WriteFiles(TRUE, PropertyFiles(properties))
          /\ updateSpecificationModificationTime(TRUE)
          /\ reinit' = ReinitOfFolder(sameFolder)
  /\ specificationModified' = FALSE
  /\ UNCHANGED <<properties, entries, editor, specificationOnlyMode, parseCopies>>

(* Mutant: the specification is written only on a forced save.            *)
save_ForcedOnly(force) ==
  IF projectOpen \/ specificationOnlyMode
  THEN /\ specFile' = IF force THEN editor ELSE specFile
       /\ files' = IF force /\ ~specificationOnlyMode
                   THEN saveAllProperties(files) ELSE files
       /\ specificationModified' = FALSE
       /\ WriteFiles(force, IF force /\ ~specificationOnlyMode
                            THEN PropertyFiles(properties) ELSE {})
       /\ updateSpecificationModificationTime(force)
       /\ UNCHANGED <<properties, entries, editor, projectOpen,
                      specificationOnlyMode, reinit, parseCopies>>
  ELSE saveAs(FALSE)

(* Mutant: the write of the specification does not record its time.      *)
save_NoTimeUpdate(force) ==
  IF projectOpen \/ specificationOnlyMode
  THEN /\ specFile' = IF specificationModified \/ force THEN editor ELSE specFile
       /\ files' = IF force /\ ~specificationOnlyMode
                   THEN saveAllProperties(files) ELSE files
       /\ specificationModified' = FALSE
       /\ WriteFiles(specificationModified \/ force,
                     IF force /\ ~specificationOnlyMode
                     THEN PropertyFiles(properties) ELSE {})
       /\ updateSpecificationModificationTime(FALSE)
       /\ UNCHANGED <<properties, entries, editor, projectOpen,
                      specificationOnlyMode, reinit, parseCopies>>
  ELSE saveAs(FALSE)

(* save, lines 911-945: with a project or a specification open, the       *)
(* specification is written when modified or forced, and a forced save of *)
(* a project also writes every property; with neither, saveAs.             *)
save(force) ==
  IF projectOpen \/ specificationOnlyMode
  THEN /\ specFile' = IF specificationModified \/ force THEN editor ELSE specFile
       /\ files' = IF force /\ ~specificationOnlyMode
                   THEN saveAllProperties(files) ELSE files
       /\ specificationModified' = FALSE
       /\ WriteFiles(specificationModified \/ force,
                     IF force /\ ~specificationOnlyMode
                     THEN PropertyFiles(properties) ELSE {})
       /\ updateSpecificationModificationTime(specificationModified \/ force)
       /\ UNCHANGED <<properties, entries, editor, projectOpen,
                      specificationOnlyMode, reinit, parseCopies>>
  ELSE saveAs(FALSE)

(* The project as newProperty and importProperties change it.              *)
Project == [properties |-> properties, entries |-> entries, files |-> files]

(* newProperty, lines 793-819, on project pj: the property is appended    *)
(* and saved, and an entry is added unless the project file has one of    *)
(* that name.                                                              *)
AddProperty(pj, p) ==
  [properties |-> Append(pj.properties, p),
   files      |-> [pj.files EXCEPT ![p.name, p.kind] = p.text],
   entries    |-> IF p.name \in Range(pj.entries) THEN pj.entries
                  ELSE Append(pj.entries, p.name)]

(* The loop of importProperties, lines 827-851: a selected file whose     *)
(* name is taken is refused, every other one is added by newProperty.     *)
RECURSIVE ImportSelected(_, _)
ImportSelected(pj, sel) ==
  IF sel = <<>> THEN pj
  ELSE ImportSelected(
         IF Head(sel).name \in {q.name : q \in Range(pj.properties)} THEN pj
         ELSE AddProperty(pj, Head(sel)),
         Tail(sel))

SetProject(pj) ==
  /\ properties' = pj.properties
  /\ entries' = pj.entries
  /\ files' = pj.files

PropertyUnchanged ==
  UNCHANGED <<editor, specFile, specificationModified, projectOpen,
              specificationOnlyMode, reinit, parseCopies,
              lastKnownSpecificationModificationTime>>

(* newProperty, after the add-property dialog's check that the name is    *)
(* new.                                                                    *)
newProperty(p) ==
  /\ projectOpen
  /\ ~propertyNameExists(p.name)
  /\ Len(entries) < MaxEntries
  /\ SetProject(AddProperty(Project, p))
  /\ WriteFiles(FALSE, {<<p.name, p.kind>>})
  /\ PropertyUnchanged

(* importProperties, lines 821-855: the property files selected in the    *)
(* dialog, read by readPropertyFromFile, in selection order.               *)
importProperties(sel) ==
  /\ projectOpen
  /\ Len(entries) + Len(sel) <= MaxEntries
  /\ SetProject(ImportSelected(Project, sel))
  /\ WriteFiles(FALSE, PropertyFiles(properties') \ PropertyFiles(properties))
  /\ PropertyUnchanged

(* Mutant: a renamed property keeps its old entry in the project file.     *)
editProperty_NoRename(old, new) ==
  /\ projectOpen
  /\ old \in Range(properties) /\ new # old
  /\ new.name # old.name => ~propertyNameExists(new.name)
  /\ properties' = [i \in DOMAIN properties |->
                      IF properties[i] = old THEN new ELSE properties[i]]
  /\ files' = saveProperty(new)
  /\ UNCHANGED entries
  /\ WriteFiles(FALSE, {<<new.name, new.kind>>})
  /\ PropertyUnchanged

(* Mutant: the edited property is not saved.                               *)
editProperty_NoSave(old, new) ==
  /\ projectOpen
  /\ old \in Range(properties) /\ new # old
  /\ new.name # old.name => ~propertyNameExists(new.name)
  /\ properties' = [i \in DOMAIN properties |->
                      IF properties[i] = old THEN new ELSE properties[i]]
  /\ entries' = IF old.name = new.name THEN entries
                ELSE [i \in DOMAIN entries |->
                        IF entries[i] = old.name THEN new.name ELSE entries[i]]
  /\ UNCHANGED files
  /\ UNCHANGED <<now, stamp, specStamp>>
  /\ PropertyUnchanged

(* editProperty, lines 857-882, after the dialog's check that a new name  *)
(* is not taken: every equal property is replaced (std::replace), the new *)
(* one is saved, and on a change of name the entries of the old name are  *)
(* renamed.  The file of the old name or kind is left in the folder.       *)
editProperty(old, new) ==
  /\ projectOpen
  /\ old \in Range(properties) /\ new # old
  /\ new.name # old.name => ~propertyNameExists(new.name)
  /\ properties' = [i \in DOMAIN properties |->
                      IF properties[i] = old THEN new ELSE properties[i]]
  /\ files' = saveProperty(new)
  /\ entries' = IF old.name = new.name THEN entries
                ELSE [i \in DOMAIN entries |->
                        IF entries[i] = old.name THEN new.name ELSE entries[i]]
  /\ WriteFiles(FALSE, {<<new.name, new.kind>>})
  /\ PropertyUnchanged

(* deleteProperty, lines 884-909: every equal property leaves the list,   *)
(* every entry of its name leaves the project file, and the file of its   *)
(* name and kind is removed.                                               *)
deleteProperty(old) ==
  /\ projectOpen
  /\ old \in Range(properties)
  /\ properties' = SelectSeq(properties, LAMBDA q : q # old)
  /\ entries' = removePropertyFromProjectFile(entries, old.name)
  /\ files' = [files EXCEPT ![old.name, old.kind] = Absent]
  /\ UNCHANGED <<now, stamp, specStamp>>
  /\ PropertyUnchanged

(* readSpecification and loadSpecification, lines 497-543: a file that   *)
(* does not exist reads as false; otherwise the editor gets its text and  *)
(* the modified flag is cleared.                                           *)
loadSpecification(spec) ==
  /\ spec # Absent
  /\ editor' = spec
  /\ specificationModified' = FALSE
  /\ lastKnownSpecificationModificationTime' = specStamp

(* isSpecificationNewlyModifiedFromOutside, lines 245-253, which the main *)
(* window calls to notice changes made by other programs: the time of the *)
(* file is compared with the last known one and becomes the last known    *)
(* one.                                                                    *)
isSpecificationNewlyModifiedFromOutside ==
  /\ projectOpen \/ specificationOnlyMode
  /\ lastKnownSpecificationModificationTime' = specStamp
  /\ UNCHANGED <<properties, entries, files, editor, specFile,
                 specificationModified, projectOpen, specificationOnlyMode,
                 now, stamp, specStamp, reinit, parseCopies>>

(* upToDateOutputFileExists, lines 275-287: the output exists and was not *)
(* modified before the input was.                                          *)
upToDateOutputFileExists(inputTime, output) ==
  output # Absent /\ inputTime <= output.time

(* saveProperty(property, true), lines 990-1010, as the parsing of a     *)
(* property (in the property dialog, not under src/) calls it: the text   *)
(* being parsed, saved or not, goes to the temporary folder.              *)
savePropertyForParsing(p) ==
  /\ projectOpen
  /\ now < MaxTime /\ now' = now + 1
  /\ parseCopies' = [parseCopies EXCEPT ![p.name, p.kind] = [text |-> p.text, time |-> now]]
  /\ UNCHANGED <<properties, entries, files, editor, specFile,
                 specificationModified, projectOpen, specificationOnlyMode,
                 stamp, specStamp, reinit, lastKnownSpecificationModificationTime>>

(* lastModified of propertyFilePath(property, forParsing), lines 163-168: *)
(* the copy in the temporary folder, or the file of the properties folder.*)
PropertyFileTime(p, forParsing) ==
  IF forParsing THEN parseCopies[p.name, p.kind].time ELSE stamp[p.name, p.kind]

(***************************************************************************)
(* createReinitialisedSpecification, lines 1012-1047, for property p      *)
(* (the callers, outside src/, are the verification steps, with the      *)
(* saved property, and the parsing of a property, with the copy it just   *)
(* saved for parsing): unless the file in the temporary folder is up to   *)
(* date with the specification file and with propertyFilePath(p,          *)
(* forParsing), the specification file is read (readSpecification), its  *)
(* init block is replaced by the property's process expression, and the  *)
(* result is written.  The output path does not depend on forParsing.    *)
(* The written file is the pair of the two texts it is made of.           *)
(***************************************************************************)
createReinitialisedSpecification(p, forParsing) ==
  /\ projectOpen
  /\ IF \/ ~upToDateOutputFileExists(specStamp, reinit[p.name])
        \/ ~upToDateOutputFileExists(PropertyFileTime(p, forParsing), reinit[p.name])
     THEN /\ reinit' = [reinit EXCEPT ![p.name] =
                          [spec |-> specFile, text |-> p.text, time |-> now]]
          /\ now < MaxTime /\ now' = now + 1
     ELSE UNCHANGED <<reinit, now>>
  /\ UNCHANGED <<properties, entries, files, editor, specFile,
                 specificationModified, projectOpen, specificationOnlyMode,
                 stamp, specStamp, parseCopies, lastKnownSpecificationModificationTime>>

(***************************************************************************)
(* openProjectFromFolder, lines 573-714, on the same project, reached by  *)
(* openProject (lines 716-726) in the same session or by a start in a    *)
(* new one (newSession, an empty temporary folder), after the property    *)
(* files in gone, and the specification file if specGone, were deleted   *)
(* outside the IDE.  When                        *)
(* loadSpecification fails, the information box is shown and the new     *)
(* session stays without a project, its folder unchanged on disk.         *)
(* Otherwise the read loop ends in one of its outcomes, each entry        *)
(* without a file asked about.                                             *)
(***************************************************************************)
openProjectFromFolder(newSession, specGone, gone, outcome) ==
  /\ projectOpen
  /\ LET fs == [f \in Names \X Kinds |-> IF f \in gone THEN Absent ELSE files[f]]
     IN  files' = fs
  /\ reinit' = IF newSession THEN NoReinit ELSE reinit
  /\ parseCopies' = IF newSession THEN NoParseCopies ELSE parseCopies
  /\ UNCHANGED <<now, stamp, specStamp>>
  /\ IF specGone
       THEN /\ properties' = <<>> /\ entries' = <<>>
            /\ editor' = Empty /\ specFile' = Absent
            /\ specificationModified' = FALSE /\ projectOpen' = FALSE
            /\ UNCHANGED <<specificationOnlyMode, lastKnownSpecificationModificationTime>>
       ELSE /\ loadSpecification(specFile)
            /\ entries' = outcome[1]
            /\ properties' = outcome[2]
            /\ UNCHANGED <<specFile, projectOpen, specificationOnlyMode>>

Next ==
  \/ \E t \in SpecTexts : EditSpecification(t)
  \/ \E force \in BOOLEAN : save(force)
  \/ \E sameFolder \in BOOLEAN : newProject(sameFolder)
  \/ \E sameFolder \in BOOLEAN : saveAs(sameFolder)
  \/ \E p \in Range(properties) : createReinitialisedSpecification(p, FALSE)
  \/ \E f \in {f \in Names \X Kinds : parseCopies[f] # Absent} :
       createReinitialisedSpecification(
         [name |-> f[1], kind |-> f[2], text |-> parseCopies[f].text], TRUE)
  \/ \E p \in Property : savePropertyForParsing(p)
  \/ isSpecificationNewlyModifiedFromOutside
  \/ \E p \in Property : newProperty(p)
  \/ \E sel \in SeqOf(Property, 2) \ {<<>>} : importProperties(sel)
  \/ \E old \in Range(properties), new \in Property : editProperty(old, new)
  \/ \E old \in Range(properties) : deleteProperty(old)
  \/ \E gone \in SUBSET {f \in Names \X Kinds : files[f] # Absent} :
       \E outcome \in ReopenOutcomes(entries, 1, <<>>,
                        [f \in Names \X Kinds |-> IF f \in gone THEN Absent ELSE files[f]]) :
         \E newSession \in BOOLEAN : openProjectFromFolder(newSession, FALSE, gone, outcome)
  \/ \E gone \in SUBSET {f \in Names \X Kinds : files[f] # Absent} :
       \E newSession \in BOOLEAN :
         openProjectFromFolder(newSession, TRUE, gone, <<entries, properties>>)

Spec == Init /\ [][Next]_vars

-----------------------------------------------------------------------------
TypeOK ==
  /\ properties \in Seq(Property) /\ entries \in Seq(Names)
  /\ files \in [Names \X Kinds -> Texts \cup {Absent}]
  /\ editor \in SpecTexts /\ specFile \in SpecTexts \cup {Absent}
  /\ specificationModified \in BOOLEAN
  /\ projectOpen \in BOOLEAN /\ specificationOnlyMode \in BOOLEAN
  /\ now \in 1 .. MaxTime /\ specStamp \in 0 .. MaxTime - 1
  /\ stamp \in [Names \X Kinds -> 0 .. MaxTime - 1]
  /\ lastKnownSpecificationModificationTime \in 0 .. MaxTime - 1
  /\ reinit \in [Names -> [spec : SpecTexts, text : Texts, time : 0 .. MaxTime - 1]
                           \cup {Absent}]
  /\ parseCopies \in [Names \X Kinds -> [text : Texts, time : 0 .. MaxTime - 1] \cup {Absent}]

(* Every property in memory has an entry in the project file, so the next  *)
(* session looks for it: newProperty adds the entry unless one of the name *)
(* exists, editProperty renames the entry with the property, a save as    *)
(* keeps the project options, and a reopen reads only properties that     *)
(* have one.                                                               *)
ProjectFileListsProperties ==
  PropertyNames \subseteq Range(entries)

(* Every property in memory is on disk as it is: the file of its name and *)
(* kind holds its text, whatever sequence of new, import, edit, delete,   *)
(* save, save as and reopen led here.                                      *)
EveryPropertyHasItsFile ==
  \A i \in DOMAIN properties :
    files[properties[i].name, properties[i].kind] = properties[i].text

(* With a project open, when the editor is not marked modified the        *)
(* specification file holds the editor's text: save writes it whenever    *)
(* the flag is set, newProject and save as force the write, and loading   *)
(* clears the flag only after reading the file.                            *)
ProjectSpecificationSaved ==
  projectOpen /\ ~specificationModified => editor = specFile

(***************************************************************************)
(* The IDE's own writes are never taken for changes made from outside:    *)
(* with a project open, the last known time of the specification file is  *)
(* its time, so isSpecificationNewlyModifiedFromOutside answers false      *)
(* until another program writes the file.  Every write of the             *)
(* specification by save, newProject and save as, and every load, must    *)
(* record the time.                                                        *)
(***************************************************************************)
SpecificationChangesNotMisreported ==
  projectOpen => lastKnownSpecificationModificationTime = specStamp

(* Whatever the IDE shows as saved is what opening it again gives back:   *)
(* when a project or a specification is open and the editor is not       *)
(* marked modified, the specification file holds the editor's text, and   *)
(* what openProjectFromFolder reads from the project file and the         *)
(* properties folder is the list in memory.                                *)
ReopenRestoresSession ==
  (projectOpen \/ specificationOnlyMode) /\ ~specificationModified =>
    /\ editor = specFile
    /\ ReadProperties(entries, files) = properties

=============================================================================
