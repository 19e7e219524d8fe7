---------------------------- MODULE AuthCommands ----------------------------
(* The commands of `auth` and `config` (internal/cmd/auth*.go, config*.go):  *)
(* credentials of clients, tokens in the keyring, keys of service accounts,  *)
(* the configuration file.  How `auth add` comes to a token, its --manual    *)
(* prompt and `auth manage` are in Authorization; what other processes do to *)
(* the file and the tokens meanwhile is in ConfigStore and TokenStore.       *)
EXTENDS CommandSteps

Unlock  == Step("open", "keychain", 0)  \* ensureKeychainAccessIfNeeded
Keyring == Step("open", "keyring", 0)   \* openSecretsStore

\* The file is read, and the whole of it written.
SetInConfig == <<Check, Store("config")>>

---------------------------------------------------------------------------
(* Credentials of clients.                                                 *)

\* There is no dryRunExit.
AuthCredentialsSet == <<Check, Store("credentials")>> \o Opt(SetInConfig)
AuthCredentialsList == <<Check>>

\* accountsForClient.
AccountsOfClient == <<Keyring, Read("token")>>

\* DeleteClientCredentialsFor, removeTokensForClient and removeDomainMappings.
RemoveClient == <<Erase("credentials")>> \o Opt(<<Keyring>> \o Each(<<Erase("token")>>))
                  \o <<Check>> \o Opt(<<Store("config")>>)

\* One client, or all of them.
RemoveOneClient == <<Check, DryRun>> \o AccountsOfClient \o <<Ask>> \o RemoveClient
RemoveAll == <<Check, MayStop>> \o Each(AccountsOfClient) \o Confirm \o Each(RemoveClient)
AuthCredentialsRemove == <<Check>> \o Either(RemoveAll, RemoveOneClient)

---------------------------------------------------------------------------
(* Accounts.                                                               *)

\* Step 1 of --remote keeps the state of the address it prints for step 2, and
\* does not look at --dry-run.  The browser and a given answer are checks, --manual
\* has the answer typed; that the state is removed afterwards is in Authorization.
KeepState == Opt(<<Store("authState")>>)
Authorize == Either(<<Check>>, <<Check>> \o KeepState \o <<Typed, Check>>)
AuthAdd == <<Check>>
             \o Either(<<Check>> \o KeepState,
                       <<DryRun, Unlock>> \o Authorize \o <<Check, Check, Keyring, Store("token")>>
                         \o Opt(SetInConfig))
AuthServices == <<Check>>
AuthList == <<Keyring, Read("token"), Check>> \o Each(Tolerated(Check))
AuthStatus == <<Check>> \o Opt(<<Account, Check>>)
AuthRemove == <<Check>> \o Confirm \o <<Keyring, Check, Erase("token")>> \o SetInConfig

\* Nobody has to say yes: there is no dryRunExit.
AuthKeep == <<Check, Store("keepKey"), Store("serviceKey")>>

AuthAliasList == <<Check>>
AuthAliasSet == <<Check, DryRun>> \o SetInConfig
\* The file is written in any case; then it is an error that there is no such alias.
AuthAliasUnset == <<Check, DryRun>> \o SetInConfig \o <<Check>>
AuthKeyring == Either(<<Check>>, <<Check, DryRun>> \o SetInConfig)

AuthServiceAccountSet == <<Check, DryRun, Check, Store("serviceKey")>>
\* There may be no key.
AuthServiceAccountUnset == <<Check>> \o Confirm \o <<Check, MayStop, Erase("serviceKey")>>
AuthServiceAccountStatus == <<Check, MayStop, Check>>

---------------------------------------------------------------------------
(* Tokens.                                                                 *)

AuthTokensList == <<Keyring, Read("token")>>
AuthTokensDelete == <<Check>> \o Confirm \o <<Keyring, Check, Erase("token")>>
AuthTokensExport == <<Check, Keyring, Check, Read("token"), Save("token")>>
\* There is no dryRunExit.
AuthTokensImport == <<Check, Check, Unlock, Keyring, Store("token")>>

---------------------------------------------------------------------------
(* The configuration file.                                                 *)

ConfigGet == <<Check>>
ConfigKeys == <<>>
ConfigList == <<Check>>
ConfigPath == <<Check>>
\* What is written has been read before the look at --dry-run.
ConfigSet == <<Check, DryRun, Store("config")>>
ConfigUnset == <<Check, DryRun, Store("config")>>
ConfigNoSendSet == <<Check, DryRun>> \o SetInConfig
ConfigNoSendRemove == <<Check, DryRun>> \o SetInConfig
ConfigNoSendList == <<Check>>

---------------------------------------------------------------------------
AuthCommandSet ==
  {Command("auth credentials set", AuthCredentialsSet),
   Command("auth credentials list", AuthCredentialsList),
   Command("auth credentials remove", AuthCredentialsRemove), Command("auth add", AuthAdd),
   Command("auth services", AuthServices), Command("auth list", AuthList),
   Command("auth status", AuthStatus), Command("auth remove", AuthRemove),
   Command("auth keep", AuthKeep), Command("auth alias list", AuthAliasList),
   Command("auth alias set", AuthAliasSet), Command("auth alias unset", AuthAliasUnset),
   Command("auth keyring", AuthKeyring),
   Command("auth service-account set", AuthServiceAccountSet),
   Command("auth service-account unset", AuthServiceAccountUnset),
   Command("auth service-account status", AuthServiceAccountStatus),
   Command("auth tokens list", AuthTokensList), Command("auth tokens delete", AuthTokensDelete),
   Command("auth tokens export", AuthTokensExport),
   Command("auth tokens import", AuthTokensImport), Command("config get", ConfigGet),
   Command("config keys", ConfigKeys), Command("config list", ConfigList),
   Command("config path", ConfigPath), Command("config set", ConfigSet),
   Command("config unset", ConfigUnset), Command("config no-send set", ConfigNoSendSet),
   Command("config no-send remove", ConfigNoSendRemove),
   Command("config no-send list", ConfigNoSendList)}
=============================================================================
