--------------------------- MODULE MCConfigStore ---------------------------
(* Instances of ConfigStore for TLC.                                        *)
EXTENDS ConfigStore

CONSTANTS l1, l2, pw1, pw2, s1, s2, short, page, addr

Blank == DefaultAppConfig

\* A manifest with an allowlist, a listener and a password.
ManifestFull ==
    [Blank EXCEPT !.libs = {l1}, !.listen = addr, !.plain = pw1]

ManifestsOne == {ManifestFull}
ManifestsTwo == {ManifestFull, [Blank EXCEPT !.libs = {l2}, !.secret = s1]}

\* Rows an older installation leaves behind: a plaintext password and no
\* secret yet, or a complete configuration.
LegacyRow == [Blank EXCEPT !.libs = {l2}, !.plain = pw2, !.required = TRUE]
FullRow == [Blank EXCEPT !.libs = {l1, l2}, !.hash = pw1, !.required = TRUE,
                         !.secret = s1, !.html = page]
ListenerRow == [FullRow EXCEPT !.listen = addr]

RowsSome == {LegacyRow, ListenerRow}
RowsFull == {FullRow}

\* The bodies the admin page sends: settings and a new password.
SettingsBody(libs) == [sent |-> {"libs"}, val |-> [Blank EXCEPT !.libs = libs]]
PasswordBody(pw) == [sent |-> {"plain", "required"},
                     val  |-> [Blank EXCEPT !.plain = pw, !.required = TRUE]]

\* A client of the API that sends the configuration it read, changed.
WholeBody(libs, secret, listen) ==
    [sent |-> Fields,
     val  |-> [Blank EXCEPT !.libs = libs, !.required = TRUE, !.secret = secret,
                            !.html = page, !.listen = listen]]

NewPassword == {PasswordBody(pw1)}
NarrowPatches == {WholeBody({l1}, None, None)}
MixedPatches == {SettingsBody({l1}), PasswordBody(pw2),
                 WholeBody({l1}, s2, addr), WholeBody({l1, l2}, short, addr)}
=============================================================================
