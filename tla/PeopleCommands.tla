---------------------------- MODULE PeopleCommands ----------------------------
(* The commands of `contacts`, `people`, `groups` and `keep`                 *)
(* (internal/cmd/contacts*.go, people*.go, groups.go, keep.go).              *)
EXTENDS CommandSteps

FailEmpty == Check   \* --fail-empty: nothing found is an error

---------------------------------------------------------------------------
(* Contacts.                                                               *)

ContactsSearch == Connect \o <<Read("contact")>>
ContactsList == Connect \o <<Read("contact")>>
ContactsGet == <<Account, Check, Service, Read("contact")>>
ContactsCreate == <<Account, Check, Service, Check, Create("contact")>>

\* updateFromJSON.
ContactsUpdateFromJSON == <<Check, Read("contact"), Check, Guarded("contact")>>

\* The person that was read is sent back with its etag.
ContactsUpdate == <<Account, Check, Service>>
                    \o Either(ContactsUpdateFromJSON, <<Read("contact"), Check, Guarded("contact")>>)
ContactsDelete == <<Account, Check>> \o Confirm \o <<Service, Delete("contact")>>

ContactsDirectoryList == Connect \o <<Read("profile"), FailEmpty>>
ContactsDirectorySearch == Connect \o <<Read("profile"), FailEmpty>>
ContactsOtherList == Connect \o <<Read("otherContact"), FailEmpty>>
ContactsOtherSearch == Connect \o <<Read("otherContact")>>

\* deleteOtherContact: it is made a contact first, and the contact is deleted,
\* by a client of its own.
DeleteOtherContact == <<Service, Lend("otherContact"), Check, Service, TakeBack("otherContact")>>
ContactsOtherDelete == <<Check>> \o Confirm \o <<Account>> \o DeleteOtherContact

---------------------------------------------------------------------------
(* Profiles and groups.                                                    *)

PeopleMe == Connect \o <<Read("profile")>>
PeopleGet == <<Account, Check, Service, Read("profile")>>
PeopleSearch == <<Account, Check, Service, Read("profile"), FailEmpty>>
PeopleRelations == <<Account>> \o Opt(<<Check>>) \o <<Service, Read("profile")>>

GroupsList == Connect \o <<Read("group"), FailEmpty>>
GroupsMembers == <<Account, Check, Service, Read("group"), Read("member"), FailEmpty>>

---------------------------------------------------------------------------
(* Notes.                                                                  *)

\* getKeepService: a service account, of the flags or stored for the account.
KeepService == Either(<<Check, Service>>, <<Account, Check, Service>>)

KeepList == KeepService \o <<Read("note"), FailEmpty>>
KeepSearch == <<Check>> \o KeepService \o <<Read("note")>>
KeepGet == KeepService \o <<Read("note")>>
KeepAttachment == <<Check, DryRun>> \o KeepService \o <<Read("note"), Save("file")>>
KeepCreate == <<Check, DryRun>> \o KeepService \o <<Create("note")>>
KeepDelete == <<Check>> \o Confirm \o KeepService \o <<Delete("note")>>

---------------------------------------------------------------------------
PeopleCommandSet ==
  {Command("contacts search", ContactsSearch), Command("contacts list", ContactsList),
   Command("contacts get", ContactsGet), Command("contacts create", ContactsCreate),
   Command("contacts update", ContactsUpdate), Command("contacts delete", ContactsDelete),
   Command("contacts directory list", ContactsDirectoryList),
   Command("contacts directory search", ContactsDirectorySearch),
   Command("contacts other list", ContactsOtherList),
   Command("contacts other search", ContactsOtherSearch),
   Command("contacts other delete", ContactsOtherDelete), Command("people me", PeopleMe),
   Command("people get", PeopleGet), Command("people search", PeopleSearch),
   Command("people relations", PeopleRelations), Command("groups list", GroupsList),
   Command("groups members", GroupsMembers), Command("keep list", KeepList),
   Command("keep search", KeepSearch), Command("keep get", KeepGet),
   Command("keep attachment", KeepAttachment), Command("keep create", KeepCreate),
   Command("keep delete", KeepDelete)}
=============================================================================
