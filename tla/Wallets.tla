------------------------------ MODULE Wallets ------------------------------
(***************************************************************************)
(* The wallets of one browser tab.  Two hooks over the one Stellar Wallets *)
(* Kit: the application's provider with its connect button, and the        *)
(* lobby's own (features/wallet, components/wallet); the hook over         *)
(* Freighter that the arena page and the host's modals use                 *)
(* (shared-d/hooks/useWallet.ts); and the passkey beside them.  They know  *)
(* nothing of each other, and a wallet answers whenever its owner does.    *)
(***************************************************************************)
EXTENDS Naturals, FiniteSets

CONSTANTS Accounts,     \* addresses a wallet may answer with
          NoAddress,    \* null
          MaxAsks       \* calls of one hook that wait for the wallet at once

VARIABLES
    kit,        \* the address the Stellar Wallets Kit is connected with
    signedOut,  \* localStorage: the user disconnected on purpose
    provider,   \* the provider's instance of useStellarWallet
    lobbyForm,  \* the lobby's form for a choice, with the lobby's instance
    hook,       \* shared-d useWallet in the component that is mounted
    passkey     \* usePasskeyWallet and the prompt of the connect button

walletVars == <<kit, signedOut, provider, lobbyForm, hook, passkey>>

Disconnected == [status |-> "disconnected", key |-> NoAddress, asks |-> 0]

HookStart == [status |-> "disconnected", address |-> NoAddress, asks |-> 0, checking |-> TRUE,
              refreshing |-> {}, loading |-> FALSE, balanceOf |-> NoAddress]

\* loadStored: a passkey of an earlier visit is found again.
PasskeyStart(a) == [key |-> a, prompt |-> FALSE, registering |-> 0]

WalletsInit ==
    /\ kit = NoAddress
    /\ signedOut \in BOOLEAN
    /\ provider = Disconnected
    /\ lobbyForm = [mounted |-> FALSE, form |-> "idle", wallet |-> Disconnected, left |-> 0]
    /\ hook = HookStart
    /\ \E a \in Accounts \cup {NoAddress} : passkey = PasskeyStart(a)

-----------------------------------------------------------------------------
(* useStellarWallet                                                        *)

\* connectWallet, up to the kit's modal.
Asking(w) == [w EXCEPT !.status = "connecting", !.asks = @ + 1]

Granted(w, a) == [w EXCEPT !.status = "connected", !.key = a, !.asks = @ - 1]

\* The modal was closed, the wallet failed, or its key is not a Stellar key.
Refused(w) == [w EXCEPT !.status = "error", !.key = NoAddress, !.asks = @ - 1]

\* What the connect button shows, on the landing page and the dashboard; a
\* passkey hides the wallet.
ButtonShows ==
    IF lobbyForm.mounted THEN "nothing"
    ELSE IF passkey.key # NoAddress THEN "passkey"
    ELSE IF provider.status \in {"connected", "error"} THEN provider.status
    ELSE IF passkey.prompt THEN "prompt"
    ELSE "options"

\* Mutant: the button is not disabled while connecting.
CanConnectAlways == ButtonShows \in {"options", "error"}

\* "Connect Extension Wallet" unless disabled, or "Retry".
CanConnect ==
    \/ ButtonShows = "options" /\ provider.status # "connecting"
    \/ ButtonShows = "error"

ConnectExtension ==
    /\ CanConnect /\ provider.asks < MaxAsks
    /\ provider' = Asking(provider)
    /\ signedOut' = FALSE
    /\ UNCHANGED <<kit, lobbyForm, hook, passkey>>

ConnectAnswered ==
    /\ provider.asks > 0
    /\ \/ \E a \in Accounts : provider' = Granted(provider, a) /\ kit' = a
       \/ provider' = Refused(provider) /\ UNCHANGED kit
    /\ UNCHANGED <<signedOut, lobbyForm, hook, passkey>>

Disconnect ==
    /\ ButtonShows = "connected"
    /\ provider' = [provider EXCEPT !.status = "disconnected", !.key = NoAddress]
    /\ kit' = NoAddress /\ signedOut' = TRUE
    /\ UNCHANGED <<lobbyForm, hook, passkey>>

-----------------------------------------------------------------------------
(* The lobby: its form connects when a choice is submitted                 *)

EnterLobby ==
    /\ ~lobbyForm.mounted
    /\ lobbyForm' = [lobbyForm EXCEPT !.mounted = TRUE, !.form = "idle", !.wallet = Disconnected]
    /\ passkey' = [passkey EXCEPT !.prompt = FALSE]
    /\ UNCHANGED <<kit, signedOut, provider, hook>>

\* The cleanup disconnects the kit that the provider uses, too.
LeaveLobby ==
    /\ lobbyForm.mounted /\ lobbyForm.left + lobbyForm.wallet.asks <= MaxAsks
    /\ lobbyForm' = [lobbyForm EXCEPT !.mounted = FALSE, !.form = "idle", !.left = @ + lobbyForm.wallet.asks]
    /\ kit' = NoAddress
    /\ UNCHANGED <<signedOut, provider, hook, passkey>>

\* The wallet answers a form that is gone: only the kit is told.
LeftFormAnswered ==
    /\ lobbyForm.left > 0
    /\ lobbyForm' = [lobbyForm EXCEPT !.left = @ - 1]
    /\ kit' \in Accounts \cup {kit}
    /\ UNCHANGED <<signedOut, provider, hook, passkey>>

\* Without a key of its own the form asks for one; with one it signs at once.
SubmitChoice ==
    /\ lobbyForm.mounted /\ lobbyForm.form \in {"idle", "error"}
    /\ IF lobbyForm.wallet.key = NoAddress
       THEN /\ lobbyForm' = [lobbyForm EXCEPT !.form = "asking", !.wallet = Asking(@)]
            /\ signedOut' = FALSE
       ELSE lobbyForm' = [lobbyForm EXCEPT !.form = "signing"] /\ UNCHANGED signedOut
    /\ UNCHANGED <<kit, provider, hook, passkey>>

LobbyAnswered ==
    /\ lobbyForm.form = "asking"
    /\ \/ \E a \in Accounts :
             /\ lobbyForm' = [lobbyForm EXCEPT !.form = "signing", !.wallet = Granted(@, a)]
             /\ kit' = a
       \/ /\ lobbyForm' = [lobbyForm EXCEPT !.form = "error", !.wallet = Refused(@)]
          /\ UNCHANGED kit
    /\ UNCHANGED <<signedOut, provider, hook, passkey>>

\* signTransaction and what follows; the kit may have been disconnected.
Sign ==
    /\ lobbyForm.form = "signing"
    /\ \E form \in {"submitted", "error"} : lobbyForm' = [lobbyForm EXCEPT !.form = form]
    /\ UNCHANGED <<kit, signedOut, provider, hook, passkey>>

-----------------------------------------------------------------------------
(* shared-d useWallet                                                      *)

\* Another component with the hook, or a reload of the page with it.
Mount ==
    /\ hook' = HookStart
    /\ UNCHANGED <<kit, signedOut, provider, lobbyForm, passkey>>

\* The effect of address and status asks for the balance; fetchAssetBalance
\* answers 0 for whatever fails.
WithAddress(h, a) ==
    [h EXCEPT !.status = "connected", !.address = a, !.refreshing = @ \cup {a}, !.loading = TRUE]

\* checkConnection: Freighter still grants access, whatever `signedOut' says.
Checked ==
    /\ hook.checking
    /\ \E h \in {hook} \cup {WithAddress(hook, a) : a \in Accounts} :
          hook' = [h EXCEPT !.checking = FALSE]
    /\ UNCHANGED <<kit, signedOut, provider, lobbyForm, passkey>>

\* The components call `connect' whenever they are not connected.
ConnectFreighter ==
    /\ hook.status # "connected" /\ hook.asks < MaxAsks
    /\ hook' = [hook EXCEPT !.status = "connecting", !.asks = @ + 1]
    /\ UNCHANGED <<kit, signedOut, provider, lobbyForm, passkey>>

FreighterRefused(h) == [h EXCEPT !.status = "error", !.address = NoAddress]

FreighterAnswered ==
    /\ hook.asks > 0
    /\ \E h \in {FreighterRefused(hook)} \cup {WithAddress(hook, a) : a \in Accounts} :
          hook' = [h EXCEPT !.asks = @ - 1]
    /\ UNCHANGED <<kit, signedOut, provider, lobbyForm, passkey>>

BalanceLoaded ==
    /\ \E a \in hook.refreshing :
          hook' = [hook EXCEPT !.refreshing = @ \ {a}, !.loading = FALSE, !.balanceOf = a]
    /\ UNCHANGED <<kit, signedOut, provider, lobbyForm, passkey>>

-----------------------------------------------------------------------------
(* usePasskeyWallet and its prompt                                         *)

UsePasskey ==
    /\ ButtonShows = "options"
    /\ passkey' = [passkey EXCEPT !.prompt = TRUE]
    /\ UNCHANGED <<kit, signedOut, provider, lobbyForm, hook>>

\* "Register Passkey", as often as it is clicked, and "Cancel", which stops nothing.
PasskeyPrompt ==
    /\ ButtonShows = "prompt"
    /\ \/ passkey.registering < MaxAsks /\ passkey' = [passkey EXCEPT !.registering = @ + 1]
       \/ passkey' = [passkey EXCEPT !.prompt = FALSE]
    /\ UNCHANGED <<kit, signedOut, provider, lobbyForm, hook>>

Registered ==
    /\ passkey.registering > 0
    /\ \/ \E a \in Accounts : passkey' = [key |-> a, prompt |-> FALSE, registering |-> passkey.registering - 1]
       \/ passkey' = [passkey EXCEPT !.registering = @ - 1]
    /\ UNCHANGED <<kit, signedOut, provider, lobbyForm, hook>>

ForgetPasskey ==
    /\ ButtonShows = "passkey"
    /\ passkey' = [passkey EXCEPT !.key = NoAddress]
    /\ UNCHANGED <<kit, signedOut, provider, lobbyForm, hook>>

KitNext ==
    \/ ConnectExtension \/ ConnectAnswered \/ Disconnect
    \/ EnterLobby \/ LeaveLobby \/ LeftFormAnswered \/ SubmitChoice \/ LobbyAnswered \/ Sign
    \/ UsePasskey \/ PasskeyPrompt \/ Registered \/ ForgetPasskey

FreighterNext ==
    \/ Mount \/ Checked \/ ConnectFreighter \/ FreighterAnswered \/ BalanceLoaded

WalletsSpec == WalletsInit /\ [][KitNext \/ FreighterNext]_walletVars

-----------------------------------------------------------------------------
(* Properties *)

\* A connected wallet was asked for since it was last let go: once connected,
\* no call is left whose late answer could connect again after "Disconnect",
\* although calls cannot be cancelled, a passkey hides and uncovers the button,
\* and a failed call is retried (ConnectWalletButton.tsx, connectWallet).
ConnectedIsSettled == provider.status = "connected" => provider.asks = 0
=============================================================================
