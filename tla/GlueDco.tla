------------------------------ MODULE GlueDco -------------------------------

(***************************************************************************)
(* The "DCO" codec of the generated Flutter glue: Rust gives an array of   *)
(* values (frb_generated.rs, impl IntoDart), Dart takes its elements by    *)
(* position (frb_generated.dart, the functions dco_decode_).  The Rust    *)
(* code names only the fields of the array; the types they have are those  *)
(* the static checks of the same file pin (frb_generated.rs,               *)
(* static_checks), by name.                                                *)
(***************************************************************************)
EXTENDS RustSse

(***************************************************************************)
(* What is given: for each type the names of the fields, in order.         *)
(***************************************************************************)
Named(names) == [kind |-> "record", variants |-> << <<"", names>> >>]
NamedVariants(vs) == [kind |-> "union", variants |-> vs]

RustGivesCancelToken ==
       "CancelToken" :> Plain("opaque") @@ "ExtensionClient" :> Plain("opaque")
    @@ "ManagerClient" :> Plain("opaque") @@ "ProxyAdapter" :> Plain("opaque")
    @@ "ProxyExtension" :> Plain("opaque")
    @@ "Account" :> Named(<< "domain", "userName", "cover", "auth", "creds" >>)
    @@ "Action" :> NamedVariants(<<
        <<"OpenBrowser", << "url" >> >>,
        <<"Popup", << "title", "content", "actions" >> >>,
        <<"Nav", << "title", "content" >> >>,
        <<"PopView", << >> >>,
        <<"NavEntry", << "entry" >> >>,
        <<"ShowToast", << "message", "kind" >> >> >>)

RustGivesAlignment ==
       "Alignment" :> Units(<< "Center", "TopLeft", "TopCenter", "TopRight", "CenterLeft", "CenterRight",
          "BottomLeft", "BottomCenter", "BottomRight" >>)
    @@ "AuthCreds" :> NamedVariants(<<
        <<"Cookies", << "cookies" >> >>,
        <<"ApiKey", << "key" >> >>,
        <<"UserPass", << "username", "password" >> >>,
        <<"OAuth", << "accessToken", "refreshToken", "expiresAt" >> >> >>)
    @@ "AuthData" :> NamedVariants(<<
        <<"Cookie", << "loginpage", "logonpage" >> >>,
        <<"ApiKey", << >> >>,
        <<"UserPass", << >> >>,
        <<"OAuth", << "authorizationUrl", "tokenUrl", "clientId", "clientSecret", "scope" >> >> >>)
    @@ "ButtonType" :> Units(<< "Filled", "Ghost", "Elevated" >>)

RustGivesChapter ==
       "Chapter" :> Named(<< "title", "start", "end", "kind" >>)
    @@ "ChapterKind" :> Units(<< "Intro", "Outro", "Recap", "Filler", "Preview" >>)
    @@ "ColorToken" :> Units(<< "Primary", "OnPrimary", "PrimaryContainer", "OnPrimaryContainer", "Secondary",
          "OnSecondary", "Surface", "OnSurface", "SurfaceContainer",
          "SurfaceContainerHighest", "Error", "OnError", "Disabled", "Shadow" >>)
    @@ "ContainerType" :> Units(<< "Ghost", "Filled", "Outlined" >>)
    @@ "CrossAxisAlignment" :> Units(<< "Start", "Center", "End", "Stretch", "Baseline" >>)

RustGivesCustomUIText == <<
    <<"Text", << "text", "style" >> >>,
    <<"Image", << "image", "width", "height" >> >>,
    <<"Link", << "link", "label" >> >>,
    <<"Timestamp", << "timestamp", "display" >> >>,
    <<"EntryCard", << "entry" >> >>,
    <<"Card", << "image", "top", "bottom", "onClick" >> >>,
    <<"Spinner", << >> >>,
    <<"Feed", << "handler", "data" >> >>,
    <<"Button", << "label", "onClick", "buttonType", "color" >> >>,
    <<"InlineSetting", << "settingId", "settingKind", "onCommit" >> >>,
    <<"Slot", << "handler", "child", "staticData", "subscriptions" >> >>,
    <<"Column", << "children", "mainAxisAlignment", "crossAxisAlignment", "mainAxisSize", "scrollable" >> >>,
    <<"Row", << "children", "mainAxisAlignment", "crossAxisAlignment", "mainAxisSize", "scrollable" >> >>,
    <<"TextInput", << "onChange", "debounceMs", "initial", "onCommit" >> >>,
    <<"Padding", << "padding", "child" >> >> >>

RustGivesCustomUIContainer == <<
    <<"Container", << "child", "containerType", "color", "borderColor", "padding", "width", "height", "alignment", "emphasized" >> >>,
    <<"Clickable", << "child", "onClick", "onLongClick" >> >>,
    <<"Expanded", << "child", "flex" >> >>,
    <<"SizedBox", << "width", "height", "child" >> >>,
    <<"Spacer", << "flex" >> >>,
    <<"Wrap", << "children", "spacing", "runSpacing", "alignment" >> >>,
    <<"Center", << "child" >> >>,
    <<"Align", << "alignment", "child" >> >>,
    <<"Stack", << "children", "alignment", "fit" >> >>,
    <<"Divider", << >> >>,
    <<"ListTile", << "leading", "title", "subtitle", "trailing", "onClick", "onLongClick" >> >>,
    <<"Badge", << "child", "color" >> >>,
    <<"FoldableText", << "text", "maxLines", "style", "animate" >> >>,
    <<"StarDisplay", << "fill", "maxStars" >> >> >>

RustGivesCustomUIDropdown == <<
    <<"Dropdown", << "items", "initialValue", "onChange" >> >> >>

RustGivesCustomUI == "CustomUI" :> NamedVariants(RustGivesCustomUIText \o RustGivesCustomUIContainer \o RustGivesCustomUIDropdown)

RustGivesDropdownItem ==
       "DropdownItem" :> Named(<< "value", "label" >>)
    @@ "DropdownOption" :> Named(<< "label", "value" >>)
    @@ "EdgeInsets" :> Named(<< "left", "top", "right", "bottom" >>)
    @@ "Entry" :> Named(<< "id", "url", "title", "mediaType", "cover", "author", "rating", "views",
          "length" >>)
    @@ "EntryActivity" :> NamedVariants(<< <<"EpisodeActivity", << "progress" >> >> >>)

RustGivesEntryDetailed ==
       "EntryDetailed" :> Named(<< "id", "url", "titles", "author", "ui", "meta", "mediaType", "status",
          "description", "language", "cover", "poster", "episodes", "genres", "rating",
          "views", "length" >>)
    @@ "EntryDetailedResult" :> Named(<< "entry", "settings" >>)
    @@ "EntryId" :> Named(<< "uid", "iddata" >>)
    @@ "EntryList" :> Named(<< "hasnext", "length", "content" >>)
    @@ "Episode" :> Named(<< "id", "name", "description", "url", "cover", "timestamp",
          "announced" >>)
    @@ "EpisodeId" :> Named(<< "uid", "iddata" >>)

RustGivesEventData ==
       "EventData" :> NamedVariants(<<
        <<"LoadSlot", << "handler", "staticData", "values" >> >>,
        <<"LoadPage", << "handler", "data", "page" >> >>,
        <<"Invoke", << "handler", "payload" >> >> >>)
    @@ "EventResult" :> NamedVariants(<<
        <<"SlotContent", << "customui" >> >>,
        <<"FeedPage", << "items", "hasMore" >> >> >>)
    @@ "ExtensionData" :> Named(<< "id", "name", "url", "icon", "desc", "author", "tags", "lang", "nsfw",
          "mediaType", "extensionType", "repo", "version", "license", "compatible",
          "permissions" >>)
    @@ "ExtensionKind" :> Units(<< "EntryProvider", "SourceProcessor", "EntryProcessor",
          "UrlHandler" >>)

RustGivesExtensionManagerData ==
       "ExtensionManagerData" :> Named(<< "name", "icon", "repo", "apiVersion" >>)
    @@ "ExtensionRepo" :> Named(<< "remoteId", "name", "description", "url" >>)
    @@ "ExtensionType" :> NamedVariants(<<
        <<"EntryProvider", << "hasSearch" >> >>,
        <<"SourceProcessor", << "sourcetypes", "opentype" >> >>,
        <<"EntryProcessor", << "triggerMapEntry", "triggerOnEntryActivity" >> >>,
        <<"URLHandler", << "urlPatterns" >> >> >>)
    @@ "ImageListAudio" :> Named(<< "link", "from", "to" >>)

RustGivesInteraction ==
       "Interaction" :> NamedVariants(<<
        <<"Invoke", << "handler", "payload" >> >>,
        <<"WriteKey", << "key", "value" >> >> >>)
    @@ "Link" :> Named(<< "url", "header" >>)
    @@ "MainAxisAlignment" :> Units(<< "Start", "Center", "End", "SpaceBetween", "SpaceAround",
          "SpaceEvenly" >>)
    @@ "MainAxisSize" :> Units(<< "Min", "Max" >>)
    @@ "MediaType" :> Units(<< "Video", "Comic", "Audio", "Book", "Unknown" >>)

RustGivesMixedContent ==
       "MixedContent" :> NamedVariants(<<
        <<"Text", << "content", "style" >> >>,
        <<"CustomUI", << "ui" >> >>,
        <<"Table", << "columns" >> >> >>)
    @@ "Paragraph" :> NamedVariants(<<
        <<"Text", << "content", "style" >> >>,
        <<"Mixed", << "content" >> >>,
        <<"CustomUI", << "ui" >> >>,
        <<"Table", << "columns" >> >> >>)
    @@ "Permission" :> NamedVariants(<<
        <<"Storage", << "path", "write" >> >>,
        <<"Network", << "domains" >> >>,
        <<"ActionPopup", << >> >>,
        <<"ArbitraryNetwork", << >> >> >>)
    @@ "PopupAction" :> Named(<< "label", "onclick" >>)
    @@ "ReleaseStatus" :> Units(<< "Releasing", "Complete", "Unknown" >>)

RustGivesRemoteExtension ==
       "RemoteExtension" :> Named(<< "remoteId", "id", "name", "url", "cover", "version", "compatible", "permissions",
          "authors", "lang", "tags", "nsfw", "mediaType", "extensionKinds" >>)
    @@ "RemoteExtensionResult" :> Named(<< "content", "hasnext", "length" >>)
    @@ "Row" :> Named(<< "cells" >>)
    @@ "Setting" :> Named(<< "label", "value", "default", "visible", "ui" >>)
    @@ "SettingKind" :> Units(<< "Extension", "Search" >>)

RustGivesSettingValue ==
       "SettingValue" :> NamedVariants(<<
        <<"String", << "data" >> >>,
        <<"Number", << "data" >> >>,
        <<"Boolean", << "data" >> >>,
        <<"StringList", << "data" >> >> >>)
    @@ "SettingsUI" :> NamedVariants(<<
        <<"CheckBox", << >> >>,
        <<"Slider", << "min", "max", "step" >> >>,
        <<"Dropdown", << "options" >> >>,
        <<"MultiDropdown", << "options" >> >>,
        <<"Directory", << "write" >> >>,
        <<"CustomUI", << "ui" >> >> >>)
    @@ "SlotValue" :> NamedVariants(<<
        <<"Setting", << "value" >> >>,
        <<"Store", << "key", "value" >> >> >>)

RustGivesSource ==
       "Source" :> NamedVariants(<<
        <<"Epub", << "link" >> >>,
        <<"Pdf", << "link" >> >>,
        <<"Imagelist", << "links", "audio" >> >>,
        <<"Video", << "sources", "sub", "chapters" >> >>,
        <<"Audio", << "sources", "chapters" >> >>,
        <<"Paragraphlist", << "paragraphs", "audio" >> >> >>)
    @@ "SourceOpenType" :> Units(<< "Download", "Stream" >>)
    @@ "SourceResult" :> Named(<< "source", "settings" >>)
    @@ "SourceType" :> Units(<< "Epub", "Pdf", "Imagelist", "Video", "Audio", "Paragraphlist" >>)
    @@ "StackFit" :> Units(<< "Loose", "Expand", "Passthrough" >>)

RustGivesStorageUsage ==
       "StorageUsage" :> Named(<< "cache", "extensionBytes", "data" >>)
    @@ "StreamSource" :> Named(<< "name", "lang", "url" >>)
    @@ "Subscription" :> Named(<< "source", "key", "stateKey" >>)
    @@ "SubscriptionSource" :> NamedVariants(<<
        <<"Store", << >> >>,
        <<"Setting", << "kind" >> >>,
        <<"EntrySetting", << >> >> >>)
    @@ "Subtitles" :> Named(<< "title", "lang", "url" >>)
    @@ "TextStyle" :> Named(<< "bold", "italic", "underline", "strikethrough", "code", "link",
          "fontSize" >>)

RustGivesTimestampType ==
       "TimestampType" :> Units(<< "Relative", "Absolute" >>)
    @@ "ToastKind" :> Units(<< "Info", "Success", "Warning", "Error" >>)
    @@ "WrapAlignment" :> Units(<< "Start", "Center", "End", "SpaceBetween", "SpaceAround",
          "SpaceEvenly" >>)

(***************************************************************************)
(* The types of the fields, for each variant of each type.                 *)
(***************************************************************************)
RustTypesAccount ==
       "Account" :> << [domain |-> "String", userName |-> "Option<String>", cover |-> "Option<String>",
          auth |-> "AuthData", creds |-> "Option<AuthCreds>"] >>
    @@ "Action" :> <<
        [url |-> "String"],
        [title |-> "String", content |-> "Box<CustomUI>", actions |-> "Vec<PopupAction>"],
        [title |-> "String", content |-> "Box<CustomUI>"],
        << >>,
        [entry |-> "Box<EntryDetailed>"],
        [message |-> "String", kind |-> "ToastKind"] >>
    @@ "AuthCreds" :> <<
        [cookies |-> "HashMap<String, Vec<String>>"],
        [key |-> "String"],
        [username |-> "String", password |-> "String"],
        [accessToken |-> "String", refreshToken |-> "Option<String>",
            expiresAt |-> "Option<u32>"] >>
    @@ "AuthData" :> <<
        [loginpage |-> "String", logonpage |-> "String"],
        << >>,
        << >>,
        [authorizationUrl |-> "String", tokenUrl |-> "Option<String>",
            clientId |-> "String", clientSecret |-> "String", scope |-> "Option<String>"] >>
    @@ "Chapter" :> << [title |-> "String", start |-> "f64", end |-> "Option<f64>",
          kind |-> "Option<ChapterKind>"] >>

RustTypesCustomUIFrom1 == <<
    [text |-> "String", style |-> "Option<TextStyle>"],
    [image |-> "Link", width |-> "Option<i32>", height |-> "Option<i32>"],
    [link |-> "String", label |-> "Option<String>"],
    [timestamp |-> "DateTime", display |-> "TimestampType"],
    [entry |-> "Entry"],
    [image |-> "Link", top |-> "Box<CustomUI>", bottom |-> "Box<CustomUI>",
        onClick |-> "Option<Box<Interaction>>"],
    << >>,
    [handler |-> "String", data |-> "String"],
    [label |-> "String", onClick |-> "Option<Box<Interaction>>",
        buttonType |-> "Option<ButtonType>", color |-> "Option<ColorToken>"],
    [settingId |-> "String", settingKind |-> "SettingKind",
        onCommit |-> "Option<Box<Interaction>>"],
    [handler |-> "String", child |-> "Box<CustomUI>", staticData |-> "String",
        subscriptions |-> "Vec<Subscription>"],
    [children |-> "Vec<CustomUI>", mainAxisAlignment |-> "Option<MainAxisAlignment>",
        crossAxisAlignment |-> "Option<CrossAxisAlignment>",
        mainAxisSize |-> "Option<MainAxisSize>", scrollable |-> "bool"],
    [children |-> "Vec<CustomUI>", mainAxisAlignment |-> "Option<MainAxisAlignment>",
        crossAxisAlignment |-> "Option<CrossAxisAlignment>",
        mainAxisSize |-> "Option<MainAxisSize>", scrollable |-> "bool"],
    [onChange |-> "Option<Box<Interaction>>", debounceMs |-> "Option<i32>",
        initial |-> "Option<String>", onCommit |-> "Option<Box<Interaction>>"],
    [padding |-> "EdgeInsets", child |-> "Box<CustomUI>"],
    [child |-> "Box<CustomUI>", containerType |-> "Option<ContainerType>",
        color |-> "Option<ColorToken>", borderColor |-> "Option<ColorToken>",
        padding |-> "Option<EdgeInsets>", width |-> "Option<f32>", height |-> "Option<f32>",
        alignment |-> "Option<Alignment>", emphasized |-> "Option<bool>"] >>

RustTypesCustomUIFrom17 == <<
    [child |-> "Box<CustomUI>", onClick |-> "Option<Box<Interaction>>",
        onLongClick |-> "Option<Box<Interaction>>"],
    [child |-> "Box<CustomUI>", flex |-> "i32"],
    [width |-> "Option<f32>", height |-> "Option<f32>", child |-> "Option<Box<CustomUI>>"],
    [flex |-> "i32"],
    [children |-> "Vec<CustomUI>", spacing |-> "Option<f32>", runSpacing |-> "Option<f32>",
        alignment |-> "Option<WrapAlignment>"],
    [child |-> "Box<CustomUI>"],
    [alignment |-> "Alignment", child |-> "Box<CustomUI>"],
    [children |-> "Vec<CustomUI>", alignment |-> "Option<Alignment>",
        fit |-> "Option<StackFit>"],
    << >>,
    [leading |-> "Option<Box<CustomUI>>", title |-> "Option<Box<CustomUI>>",
        subtitle |-> "Option<Box<CustomUI>>", trailing |-> "Option<Box<CustomUI>>",
        onClick |-> "Option<Box<Interaction>>", onLongClick |-> "Option<Box<Interaction>>"],
    [child |-> "Box<CustomUI>", color |-> "Option<ColorToken>"],
    [text |-> "String", maxLines |-> "i32", style |-> "Option<TextStyle>",
        animate |-> "bool"],
    [fill |-> "f32", maxStars |-> "i32"],
    [items |-> "Vec<DropdownItem>", initialValue |-> "Option<String>",
        onChange |-> "Option<Box<Interaction>>"] >>

RustTypesCustomUI == "CustomUI" :> (RustTypesCustomUIFrom1 \o RustTypesCustomUIFrom17)

RustTypesDropdownItem ==
       "DropdownItem" :> << [value |-> "String", label |-> "String"] >>
    @@ "DropdownOption" :> << [label |-> "String", value |-> "String"] >>
    @@ "EdgeInsets" :> << [left |-> "Option<f32>", top |-> "Option<f32>", right |-> "Option<f32>",
          bottom |-> "Option<f32>"] >>
    @@ "Entry" :> << [id |-> "EntryId", url |-> "String", title |-> "String", mediaType |-> "MediaType",
          cover |-> "Option<Link>", author |-> "Option<Vec<String>>",
          rating |-> "Option<f32>", views |-> "Option<f32>", length |-> "Option<i32>"] >>
    @@ "EntryActivity" :> << [progress |-> "i32"] >>
    @@ "EntryDetailed" :> << [id |-> "EntryId", url |-> "String", titles |-> "Vec<String>",
          author |-> "Option<Vec<String>>", ui |-> "Option<CustomUI>",
          meta |-> "Option<HashMap<String, String>>", mediaType |-> "MediaType",
          status |-> "ReleaseStatus", description |-> "String", language |-> "String",
          cover |-> "Option<Link>", poster |-> "Option<Link>", episodes |-> "Vec<Episode>",
          genres |-> "Option<Vec<String>>", rating |-> "Option<f32>",
          views |-> "Option<f32>", length |-> "Option<i32>"] >>
    @@ "EntryDetailedResult" :> << [entry |-> "EntryDetailed",
          settings |-> "HashMap<String, Setting>"] >>
    @@ "EntryId" :> << [uid |-> "String", iddata |-> "Option<String>"] >>
    @@ "EntryList" :> << [hasnext |-> "Option<bool>", length |-> "Option<i32>",
          content |-> "Vec<Entry>"] >>
    @@ "Episode" :> << [id |-> "EpisodeId", name |-> "String", description |-> "Option<String>",
          url |-> "String", cover |-> "Option<Link>", timestamp |-> "Option<DateTime>",
          announced |-> "Option<bool>"] >>
    @@ "EpisodeId" :> << [uid |-> "String", iddata |-> "Option<String>"] >>
    @@ "EventData" :> <<
        [handler |-> "String", staticData |-> "String",
            values |-> "HashMap<String, SlotValue>"],
        [handler |-> "String", data |-> "String", page |-> "i32"],
        [handler |-> "String", payload |-> "String"] >>
    @@ "EventResult" :> <<
        [customui |-> "CustomUI"],
        [items |-> "Vec<CustomUI>", hasMore |-> "bool"] >>
    @@ "ExtensionData" :> << [id |-> "String", name |-> "String", url |-> "String", icon |-> "String",
          desc |-> "Option<String>", author |-> "Vec<String>", tags |-> "Vec<String>",
          lang |-> "Vec<String>", nsfw |-> "bool", mediaType |-> "HashSet<MediaType>",
          extensionType |-> "HashSet<ExtensionType>", repo |-> "Option<String>",
          version |-> "String", license |-> "String", compatible |-> "bool",
          permissions |-> "Option<Vec<Permission>>"] >>
    @@ "ExtensionManagerData" :> << [name |-> "String", icon |-> "Option<String>", repo |-> "Option<String>",
          apiVersion |-> "u32"] >>

RustTypesExtensionRepo ==
       "ExtensionRepo" :> << [remoteId |-> "String", name |-> "String", description |-> "String",
          url |-> "String"] >>
    @@ "ExtensionType" :> <<
        [hasSearch |-> "bool"],
        [sourcetypes |-> "HashSet<SourceType>", opentype |-> "HashSet<SourceOpenType>"],
        [triggerMapEntry |-> "bool", triggerOnEntryActivity |-> "bool"],
        [urlPatterns |-> "Vec<String>"] >>
    @@ "ImageListAudio" :> << [link |-> "Link", from |-> "i32", to |-> "i32"] >>
    @@ "Interaction" :> <<
        [handler |-> "String", payload |-> "String"],
        [key |-> "String", value |-> "String"] >>
    @@ "Link" :> << [url |-> "String", header |-> "Option<HashMap<String, String>>"] >>
    @@ "MixedContent" :> <<
        [content |-> "String", style |-> "Option<TextStyle>"],
        [ui |-> "Box<CustomUI>"],
        [columns |-> "Vec<Row>"] >>
    @@ "Paragraph" :> <<
        [content |-> "String", style |-> "Option<TextStyle>"],
        [content |-> "Vec<MixedContent>"],
        [ui |-> "Box<CustomUI>"],
        [columns |-> "Vec<Row>"] >>
    @@ "Permission" :> <<
        [path |-> "String", write |-> "bool"],
        [domains |-> "Vec<String>"],
        << >>,
        << >> >>
    @@ "PopupAction" :> << [label |-> "String", onclick |-> "Box<Action>"] >>
    @@ "RemoteExtension" :> << [remoteId |-> "String", id |-> "String", name |-> "String", url |-> "String",
          cover |-> "Option<Link>", version |-> "String", compatible |-> "bool",
          permissions |-> "Option<Vec<Permission>>", authors |-> "Vec<String>",
          lang |-> "Vec<String>", tags |-> "Vec<String>", nsfw |-> "bool",
          mediaType |-> "HashSet<MediaType>", extensionKinds |-> "Vec<ExtensionKind>"] >>
    @@ "RemoteExtensionResult" :> << [content |-> "Vec<RemoteExtension>", hasnext |-> "Option<bool>",
          length |-> "Option<i32>"] >>
    @@ "Row" :> << [cells |-> "Vec<Paragraph>"] >>
    @@ "Setting" :> << [label |-> "String", value |-> "SettingValue", default |-> "SettingValue",
          visible |-> "bool", ui |-> "Option<SettingsUI>"] >>
    @@ "SettingValue" :> <<
        [data |-> "String"],
        [data |-> "f32"],
        [data |-> "bool"],
        [data |-> "Vec<String>"] >>

RustTypesSettingsUI ==
       "SettingsUI" :> <<
        << >>,
        [min |-> "f64", max |-> "f64", step |-> "i32"],
        [options |-> "Vec<DropdownOption>"],
        [options |-> "Vec<DropdownOption>"],
        [write |-> "bool"],
        [ui |-> "CustomUI"] >>
    @@ "SlotValue" :> <<
        [value |-> "SettingValue"],
        [key |-> "String", value |-> "String"] >>
    @@ "Source" :> <<
        [link |-> "Link"],
        [link |-> "Link"],
        [links |-> "Vec<Link>", audio |-> "Option<Vec<ImageListAudio>>"],
        [sources |-> "Vec<StreamSource>", sub |-> "Vec<Subtitles>",
            chapters |-> "Option<Vec<Chapter>>"],
        [sources |-> "Vec<StreamSource>", chapters |-> "Option<Vec<Chapter>>"],
        [paragraphs |-> "Vec<Paragraph>", audio |-> "Option<Vec<ImageListAudio>>"] >>
    @@ "SourceResult" :> << [source |-> "Source", settings |-> "HashMap<String, Setting>"] >>
    @@ "StorageUsage" :> << [cache |-> "f64", extensionBytes |-> "f64", data |-> "f64"] >>
    @@ "StreamSource" :> << [name |-> "String", lang |-> "String", url |-> "Link"] >>
    @@ "Subscription" :> << [source |-> "SubscriptionSource", key |-> "String",
          stateKey |-> "String"] >>
    @@ "SubscriptionSource" :> <<
        << >>,
        [kind |-> "SettingKind"],
        << >> >>
    @@ "Subtitles" :> << [title |-> "String", lang |-> "String", url |-> "Link"] >>
    @@ "TextStyle" :> << [bold |-> "Option<bool>", italic |-> "Option<bool>", underline |-> "Option<bool>",
          strikethrough |-> "Option<bool>", code |-> "Option<bool>",
          link |-> "Option<String>", fontSize |-> "Option<i32>"] >>

(***************************************************************************)
(* What Dart takes: the functions dco_decode_.                             *)
(***************************************************************************)
DartTakesAnyhowException ==
       "AnyhowException" :> Wraps("String") @@ "Auto_Owned_CancelToken" :> Plain("opaque")
    @@ "Auto_Owned_ExtensionClient" :> Plain("opaque")
    @@ "Auto_Owned_ManagerClient" :> Plain("opaque")
    @@ "Auto_Owned_ProxyAdapter" :> Plain("opaque")
    @@ "Auto_Owned_ProxyExtension" :> Plain("opaque")
    @@ "Auto_RefMut_ProxyExtension" :> Plain("opaque")
    @@ "Auto_Ref_CancelToken" :> Plain("opaque") @@ "Auto_Ref_ManagerClient" :> Plain("opaque")
    @@ "Auto_Ref_ProxyAdapter" :> Plain("opaque")
    @@ "Auto_Ref_ProxyExtension" :> Plain("opaque") @@ "Chrono_Utc" :> Plain("timestamp")

DartTakesDartOpaque ==
       "DartOpaque" :> Plain("DartOpaque")
    @@ "Map_String_String_None" :> Wraps("list_record_string_string")
    @@ "Map_String_list_String_None" :> Wraps("list_record_string_list_string")
    @@ "Map_String_setting_None" :> Wraps("list_record_string_setting")
    @@ "Map_String_slot_value_None" :> Wraps("list_record_string_slot_value")
    @@ "CancelToken" :> Plain("opaque") @@ "ExtensionClient" :> Plain("opaque")
    @@ "ManagerClient" :> Plain("opaque") @@ "ProxyAdapter" :> Plain("opaque")
    @@ "ProxyExtension" :> Plain("opaque")
    @@ "Set_extension_type_None" :> Wraps("list_extension_type")
    @@ "Set_media_type_None" :> Wraps("list_media_type")
    @@ "Set_source_open_type_None" :> Wraps("list_source_open_type")
    @@ "Set_source_type_None" :> Wraps("list_source_type")
    @@ "String" :> Plain("String")
    @@ "account" :> Fields(<< <<"domain", "String">>, <<"userName", "opt_String">>, <<"cover", "opt_String">>,
          <<"auth", "auth_data">>, <<"creds", "opt_box_autoadd_auth_creds">> >>)

DartTakesAction ==
       "action" :> OneOf(<<
        << "OpenBrowser", << <<"url", "String">> >> >>,
        << "Popup", << <<"title", "String">>, <<"content", "box_custom_ui">>,
            <<"actions", "list_popup_action">> >> >>,
        << "Nav", << <<"title", "String">>, <<"content", "box_custom_ui">> >> >>,
        << "PopView", << >> >>,
        << "NavEntry", << <<"entry", "box_entry_detailed">> >> >>,
        << "ShowToast", << <<"message", "String">>, <<"kind", "toast_kind">> >> >> >>)
    @@ "alignment" :> Units(<< "Center", "TopLeft", "TopCenter", "TopRight", "CenterLeft", "CenterRight",
          "BottomLeft", "BottomCenter", "BottomRight" >>)
    @@ "auth_creds" :> OneOf(<<
        << "Cookies", << <<"cookies", "Map_String_list_String_None">> >> >>,
        << "ApiKey", << <<"key", "String">> >> >>,
        << "UserPass", << <<"username", "String">>, <<"password", "String">> >> >>,
        << "OAuth", << <<"accessToken", "String">>, <<"refreshToken", "opt_String">>,
            <<"expiresAt", "opt_box_autoadd_u_32">> >> >> >>)
    @@ "auth_data" :> OneOf(<<
        << "Cookie", << <<"loginpage", "String">>, <<"logonpage", "String">> >> >>,
        << "ApiKey", << >> >>,
        << "UserPass", << >> >>,
        << "OAuth", << <<"authorizationUrl", "String">>, <<"tokenUrl", "opt_String">>,
            <<"clientId", "String">>, <<"clientSecret", "String">>,
            <<"scope", "opt_String">> >> >> >>)
    @@ "bool" :> Plain("bool") @@ "box_action" :> Wraps("action")
    @@ "box_autoadd_Auto_Owned_CancelToken" :> Wraps("Auto_Owned_CancelToken")
    @@ "box_autoadd_Chrono_Utc" :> Wraps("Chrono_Utc")
    @@ "box_autoadd_account" :> Wraps("account")
    @@ "box_autoadd_alignment" :> Wraps("alignment")
    @@ "box_autoadd_auth_creds" :> Wraps("auth_creds")
    @@ "box_autoadd_bool" :> Wraps("bool")
    @@ "box_autoadd_button_type" :> Wraps("button_type")

DartTakesBoxAutoaddChapterKind ==
       "box_autoadd_chapter_kind" :> Wraps("chapter_kind")
    @@ "box_autoadd_color_token" :> Wraps("color_token")
    @@ "box_autoadd_container_type" :> Wraps("container_type")
    @@ "box_autoadd_cross_axis_alignment" :> Wraps("cross_axis_alignment")
    @@ "box_autoadd_custom_ui" :> Wraps("custom_ui")
    @@ "box_autoadd_edge_insets" :> Wraps("edge_insets")
    @@ "box_autoadd_entry" :> Wraps("entry")
    @@ "box_autoadd_entry_activity" :> Wraps("entry_activity")
    @@ "box_autoadd_entry_detailed" :> Wraps("entry_detailed")
    @@ "box_autoadd_entry_id" :> Wraps("entry_id")
    @@ "box_autoadd_episode_id" :> Wraps("episode_id")
    @@ "box_autoadd_event_data" :> Wraps("event_data")
    @@ "box_autoadd_event_result" :> Wraps("event_result")
    @@ "box_autoadd_extension_repo" :> Wraps("extension_repo")
    @@ "box_autoadd_f_32" :> Wraps("f_32") @@ "box_autoadd_f_64" :> Wraps("f_64")
    @@ "box_autoadd_i_32" :> Wraps("i_32") @@ "box_autoadd_link" :> Wraps("link")
    @@ "box_autoadd_main_axis_alignment" :> Wraps("main_axis_alignment")
    @@ "box_autoadd_main_axis_size" :> Wraps("main_axis_size")
    @@ "box_autoadd_permission" :> Wraps("permission")
    @@ "box_autoadd_setting" :> Wraps("setting")
    @@ "box_autoadd_setting_value" :> Wraps("setting_value")
    @@ "box_autoadd_settings_ui" :> Wraps("settings_ui")
    @@ "box_autoadd_source" :> Wraps("source")

DartTakesBoxAutoaddStackFit ==
       "box_autoadd_stack_fit" :> Wraps("stack_fit")
    @@ "box_autoadd_text_style" :> Wraps("text_style")
    @@ "box_autoadd_u_32" :> Wraps("u_32")
    @@ "box_autoadd_wrap_alignment" :> Wraps("wrap_alignment")
    @@ "box_custom_ui" :> Wraps("custom_ui")
    @@ "box_entry_detailed" :> Wraps("entry_detailed")
    @@ "box_interaction" :> Wraps("interaction")
    @@ "button_type" :> Units(<< "Filled", "Ghost", "Elevated" >>)
    @@ "chapter" :> Fields(<< <<"title", "String">>, <<"start", "f_64">>, <<"end", "opt_box_autoadd_f_64">>,
          <<"kind", "opt_box_autoadd_chapter_kind">> >>)
    @@ "chapter_kind" :> Units(<< "Intro", "Outro", "Recap", "Filler", "Preview" >>)
    @@ "color_token" :> Units(<< "Primary", "OnPrimary", "PrimaryContainer", "OnPrimaryContainer", "Secondary",
          "OnSecondary", "Surface", "OnSurface", "SurfaceContainer",
          "SurfaceContainerHighest", "Error", "OnError", "Disabled", "Shadow" >>)
    @@ "container_type" :> Units(<< "Ghost", "Filled", "Outlined" >>)
    @@ "cross_axis_alignment" :> Units(<< "Start", "Center", "End", "Stretch", "Baseline" >>)

DartTakesCustomUIText == <<
    << "Text", << <<"text", "String">>, <<"style", "opt_box_autoadd_text_style">> >> >>,
    << "Image", << <<"image", "box_autoadd_link">>, <<"width", "opt_box_autoadd_i_32">>,
        <<"height", "opt_box_autoadd_i_32">> >> >>,
    << "Link", << <<"link", "String">>, <<"label", "opt_String">> >> >>,
    << "Timestamp", << <<"timestamp", "Chrono_Utc">>, <<"display", "timestamp_type">> >> >>,
    << "EntryCard", << <<"entry", "box_autoadd_entry">> >> >>,
    << "Card", << <<"image", "box_autoadd_link">>, <<"top", "box_custom_ui">>,
        <<"bottom", "box_custom_ui">>, <<"onClick", "opt_box_interaction">> >> >>,
    << "Spinner", << >> >>,
    << "Feed", << <<"handler", "String">>, <<"data", "String">> >> >>,
    << "Button", << <<"label", "String">>, <<"onClick", "opt_box_interaction">>,
        <<"buttonType", "opt_box_autoadd_button_type">>,
        <<"color", "opt_box_autoadd_color_token">> >> >>,
    << "InlineSetting", << <<"settingId", "String">>, <<"settingKind", "setting_kind">>,
        <<"onCommit", "opt_box_interaction">> >> >>,
    << "Slot", << <<"handler", "String">>, <<"child", "box_custom_ui">>,
        <<"staticData", "String">>, <<"subscriptions", "list_subscription">> >> >>,
    << "Column", << <<"children", "list_custom_ui">>,
        <<"mainAxisAlignment", "opt_box_autoadd_main_axis_alignment">>,
        <<"crossAxisAlignment", "opt_box_autoadd_cross_axis_alignment">>,
        <<"mainAxisSize", "opt_box_autoadd_main_axis_size">>, <<"scrollable", "bool">> >> >>,
    << "Row", << <<"children", "list_custom_ui">>,
        <<"mainAxisAlignment", "opt_box_autoadd_main_axis_alignment">>,
        <<"crossAxisAlignment", "opt_box_autoadd_cross_axis_alignment">>,
        <<"mainAxisSize", "opt_box_autoadd_main_axis_size">>, <<"scrollable", "bool">> >> >>,
    << "TextInput", << <<"onChange", "opt_box_interaction">>,
        <<"debounceMs", "opt_box_autoadd_i_32">>, <<"initial", "opt_String">>,
        <<"onCommit", "opt_box_interaction">> >> >>,
    << "Padding", << <<"padding", "box_autoadd_edge_insets">>,
        <<"child", "box_custom_ui">> >> >>,
    << "Container", << <<"child", "box_custom_ui">>,
        <<"containerType", "opt_box_autoadd_container_type">>,
        <<"color", "opt_box_autoadd_color_token">>,
        <<"borderColor", "opt_box_autoadd_color_token">>,
        <<"padding", "opt_box_autoadd_edge_insets">>, <<"width", "opt_box_autoadd_f_32">>,
        <<"height", "opt_box_autoadd_f_32">>, <<"alignment", "opt_box_autoadd_alignment">>,
        <<"emphasized", "opt_box_autoadd_bool">> >> >>,
    << "Clickable", << <<"child", "box_custom_ui">>, <<"onClick", "opt_box_interaction">>,
        <<"onLongClick", "opt_box_interaction">> >> >>,
    << "Expanded", << <<"child", "box_custom_ui">>, <<"flex", "i_32">> >> >>,
    << "SizedBox", << <<"width", "opt_box_autoadd_f_32">>,
        <<"height", "opt_box_autoadd_f_32">>, <<"child", "opt_box_custom_ui">> >> >>,
    << "Spacer", << <<"flex", "i_32">> >> >>,
    << "Wrap", << <<"children", "list_custom_ui">>, <<"spacing", "opt_box_autoadd_f_32">>,
        <<"runSpacing", "opt_box_autoadd_f_32">>,
        <<"alignment", "opt_box_autoadd_wrap_alignment">> >> >>,
    << "Center", << <<"child", "box_custom_ui">> >> >>,
    << "Align", << <<"alignment", "alignment">>, <<"child", "box_custom_ui">> >> >> >>

DartTakesCustomUIStack == <<
    << "Stack", << <<"children", "list_custom_ui">>,
        <<"alignment", "opt_box_autoadd_alignment">>,
        <<"fit", "opt_box_autoadd_stack_fit">> >> >>,
    << "Divider", << >> >>,
    << "ListTile", << <<"leading", "opt_box_custom_ui">>, <<"title", "opt_box_custom_ui">>,
        <<"subtitle", "opt_box_custom_ui">>, <<"trailing", "opt_box_custom_ui">>,
        <<"onClick", "opt_box_interaction">>, <<"onLongClick", "opt_box_interaction">> >> >>,
    << "Badge", << <<"child", "box_custom_ui">>,
        <<"color", "opt_box_autoadd_color_token">> >> >>,
    << "FoldableText", << <<"text", "String">>, <<"maxLines", "i_32">>,
        <<"style", "opt_box_autoadd_text_style">>, <<"animate", "bool">> >> >>,
    << "StarDisplay", << <<"fill", "f_32">>, <<"maxStars", "i_32">> >> >>,
    << "Dropdown", << <<"items", "list_dropdown_item">>, <<"initialValue", "opt_String">>,
        <<"onChange", "opt_box_interaction">> >> >> >>

DartTakesCustomUI == "custom_ui" :> OneOf(DartTakesCustomUIText \o DartTakesCustomUIStack)

DartTakesDropdownItem ==
       "dropdown_item" :> Fields(<< <<"value", "String">>, <<"label", "String">> >>)
    @@ "dropdown_option" :> Fields(<< <<"label", "String">>, <<"value", "String">> >>)
    @@ "edge_insets" :> Fields(<< <<"left", "opt_box_autoadd_f_32">>, <<"top", "opt_box_autoadd_f_32">>,
          <<"right", "opt_box_autoadd_f_32">>, <<"bottom", "opt_box_autoadd_f_32">> >>)
    @@ "entry" :> Fields(<< <<"id", "entry_id">>, <<"url", "String">>, <<"title", "String">>,
          <<"mediaType", "media_type">>, <<"cover", "opt_box_autoadd_link">>,
          <<"author", "opt_list_String">>, <<"rating", "opt_box_autoadd_f_32">>,
          <<"views", "opt_box_autoadd_f_32">>, <<"length", "opt_box_autoadd_i_32">> >>)
    @@ "entry_activity" :> OneOf(<<
        << "EpisodeActivity", << <<"progress", "i_32">> >> >> >>)
    @@ "entry_detailed" :> Fields(<< <<"id", "entry_id">>, <<"url", "String">>, <<"titles", "list_String">>,
          <<"author", "opt_list_String">>, <<"ui", "opt_box_autoadd_custom_ui">>,
          <<"meta", "opt_Map_String_String_None">>, <<"mediaType", "media_type">>,
          <<"status", "release_status">>, <<"description", "String">>,
          <<"language", "String">>, <<"cover", "opt_box_autoadd_link">>,
          <<"poster", "opt_box_autoadd_link">>, <<"episodes", "list_episode">>,
          <<"genres", "opt_list_String">>, <<"rating", "opt_box_autoadd_f_32">>,
          <<"views", "opt_box_autoadd_f_32">>, <<"length", "opt_box_autoadd_i_32">> >>)
    @@ "entry_detailed_result" :> Fields(<< <<"entry", "entry_detailed">>,
          <<"settings", "Map_String_setting_None">> >>)
    @@ "entry_id" :> Fields(<< <<"uid", "String">>, <<"iddata", "opt_String">> >>)
    @@ "entry_list" :> Fields(<< <<"hasnext", "opt_box_autoadd_bool">>, <<"length", "opt_box_autoadd_i_32">>,
          <<"content", "list_entry">> >>)
    @@ "episode" :> Fields(<< <<"id", "episode_id">>, <<"name", "String">>, <<"description", "opt_String">>,
          <<"url", "String">>, <<"cover", "opt_box_autoadd_link">>,
          <<"timestamp", "opt_box_autoadd_Chrono_Utc">>,
          <<"announced", "opt_box_autoadd_bool">> >>)

DartTakesEpisodeId ==
       "episode_id" :> Fields(<< <<"uid", "String">>, <<"iddata", "opt_String">> >>)
    @@ "event_data" :> OneOf(<<
        << "LoadSlot", << <<"handler", "String">>, <<"staticData", "String">>,
            <<"values", "Map_String_slot_value_None">> >> >>,
        << "LoadPage", << <<"handler", "String">>, <<"data", "String">>,
            <<"page", "i_32">> >> >>,
        << "Invoke", << <<"handler", "String">>, <<"payload", "String">> >> >> >>)
    @@ "event_result" :> OneOf(<<
        << "SlotContent", << <<"customui", "box_autoadd_custom_ui">> >> >>,
        << "FeedPage", << <<"items", "list_custom_ui">>, <<"hasMore", "bool">> >> >> >>)
    @@ "extension_data" :> Fields(<< <<"id", "String">>, <<"name", "String">>, <<"url", "String">>,
          <<"icon", "String">>, <<"desc", "opt_String">>, <<"author", "list_String">>,
          <<"tags", "list_String">>, <<"lang", "list_String">>, <<"nsfw", "bool">>,
          <<"mediaType", "Set_media_type_None">>,
          <<"extensionType", "Set_extension_type_None">>, <<"repo", "opt_String">>,
          <<"version", "String">>, <<"license", "String">>, <<"compatible", "bool">>,
          <<"permissions", "opt_list_permission">> >>)
    @@ "extension_kind" :> Units(<< "EntryProvider", "SourceProcessor", "EntryProcessor",
          "UrlHandler" >>)
    @@ "extension_manager_data" :> Fields(<< <<"name", "String">>, <<"icon", "opt_String">>, <<"repo", "opt_String">>,
          <<"apiVersion", "u_32">> >>)
    @@ "extension_repo" :> Fields(<< <<"remoteId", "String">>, <<"name", "String">>, <<"description", "String">>,
          <<"url", "String">> >>)
    @@ "extension_type" :> OneOf(<<
        << "EntryProvider", << <<"hasSearch", "bool">> >> >>,
        << "SourceProcessor", << <<"sourcetypes", "Set_source_type_None">>,
            <<"opentype", "Set_source_open_type_None">> >> >>,
        << "EntryProcessor", << <<"triggerMapEntry", "bool">>,
            <<"triggerOnEntryActivity", "bool">> >> >>,
        << "URLHandler", << <<"urlPatterns", "list_String">> >> >> >>)
    @@ "f_32" :> Plain("f32")

DartTakesF64 ==
       "f_64" :> Plain("f64") @@ "i_32" :> Plain("i32") @@ "i_64" :> Plain("64 bits")
    @@ "image_list_audio" :> Fields(<< <<"link", "link">>, <<"from", "i_32">>, <<"to", "i_32">> >>)
    @@ "interaction" :> OneOf(<<
        << "Invoke", << <<"handler", "String">>, <<"payload", "String">> >> >>,
        << "WriteKey", << <<"key", "String">>, <<"value", "String">> >> >> >>)
    @@ "isize" :> Plain("64 bits")
    @@ "link" :> Fields(<< <<"url", "String">>, <<"header", "opt_Map_String_String_None">> >>)
    @@ "list_Auto_Owned_ProxyExtension" :> ListOf("Auto_Owned_ProxyExtension")
    @@ "list_String" :> ListOf("String") @@ "list_account" :> ListOf("account")
    @@ "list_chapter" :> ListOf("chapter") @@ "list_custom_ui" :> ListOf("custom_ui")
    @@ "list_dropdown_item" :> ListOf("dropdown_item")
    @@ "list_dropdown_option" :> ListOf("dropdown_option")
    @@ "list_entry" :> ListOf("entry") @@ "list_episode" :> ListOf("episode")
    @@ "list_extension_kind" :> ListOf("extension_kind")
    @@ "list_extension_type" :> ListOf("extension_type")
    @@ "list_image_list_audio" :> ListOf("image_list_audio")
    @@ "list_link" :> ListOf("link")

DartTakesListMediaType ==
       "list_media_type" :> ListOf("media_type")
    @@ "list_mixed_content" :> ListOf("mixed_content")
    @@ "list_paragraph" :> ListOf("paragraph") @@ "list_permission" :> ListOf("permission")
    @@ "list_popup_action" :> ListOf("popup_action") @@ "list_prim_u_8_strict" :> ListOf("u_8")
    @@ "list_record_string_list_string" :> ListOf("record_string_list_string")
    @@ "list_record_string_setting" :> ListOf("record_string_setting")
    @@ "list_record_string_slot_value" :> ListOf("record_string_slot_value")
    @@ "list_record_string_string" :> ListOf("record_string_string")
    @@ "list_remote_extension" :> ListOf("remote_extension")
    @@ "list_row" :> ListOf("row")
    @@ "list_source_open_type" :> ListOf("source_open_type")
    @@ "list_source_type" :> ListOf("source_type")
    @@ "list_stream_source" :> ListOf("stream_source")
    @@ "list_subscription" :> ListOf("subscription") @@ "list_subtitles" :> ListOf("subtitles")
    @@ "main_axis_alignment" :> Units(<< "Start", "Center", "End", "SpaceBetween", "SpaceAround",
          "SpaceEvenly" >>)
    @@ "main_axis_size" :> Units(<< "Min", "Max" >>)
    @@ "media_type" :> Units(<< "Video", "Comic", "Audio", "Book", "Unknown" >>)
    @@ "mixed_content" :> OneOf(<<
        << "Text", << <<"content", "String">>,
            <<"style", "opt_box_autoadd_text_style">> >> >>,
        << "CustomUI", << <<"ui", "box_custom_ui">> >> >>,
        << "Table", << <<"columns", "list_row">> >> >> >>)

DartTakesOptMapStringStringNone ==
       "opt_Map_String_String_None" :> Maybe("Map_String_String_None")
    @@ "opt_String" :> Maybe("String")
    @@ "opt_box_autoadd_Auto_Owned_CancelToken" :> Maybe("box_autoadd_Auto_Owned_CancelToken")
    @@ "opt_box_autoadd_Chrono_Utc" :> Maybe("box_autoadd_Chrono_Utc")
    @@ "opt_box_autoadd_account" :> Maybe("box_autoadd_account")
    @@ "opt_box_autoadd_alignment" :> Maybe("box_autoadd_alignment")
    @@ "opt_box_autoadd_auth_creds" :> Maybe("box_autoadd_auth_creds")
    @@ "opt_box_autoadd_bool" :> Maybe("box_autoadd_bool")
    @@ "opt_box_autoadd_button_type" :> Maybe("box_autoadd_button_type")
    @@ "opt_box_autoadd_chapter_kind" :> Maybe("box_autoadd_chapter_kind")
    @@ "opt_box_autoadd_color_token" :> Maybe("box_autoadd_color_token")
    @@ "opt_box_autoadd_container_type" :> Maybe("box_autoadd_container_type")
    @@ "opt_box_autoadd_cross_axis_alignment" :> Maybe("box_autoadd_cross_axis_alignment")
    @@ "opt_box_autoadd_custom_ui" :> Maybe("box_autoadd_custom_ui")
    @@ "opt_box_autoadd_edge_insets" :> Maybe("box_autoadd_edge_insets")
    @@ "opt_box_autoadd_event_result" :> Maybe("box_autoadd_event_result")
    @@ "opt_box_autoadd_f_32" :> Maybe("box_autoadd_f_32")
    @@ "opt_box_autoadd_f_64" :> Maybe("box_autoadd_f_64")
    @@ "opt_box_autoadd_i_32" :> Maybe("box_autoadd_i_32")
    @@ "opt_box_autoadd_link" :> Maybe("box_autoadd_link")
    @@ "opt_box_autoadd_main_axis_alignment" :> Maybe("box_autoadd_main_axis_alignment")
    @@ "opt_box_autoadd_main_axis_size" :> Maybe("box_autoadd_main_axis_size")
    @@ "opt_box_autoadd_settings_ui" :> Maybe("box_autoadd_settings_ui")

DartTakesOptBoxAutoaddStackFit ==
       "opt_box_autoadd_stack_fit" :> Maybe("box_autoadd_stack_fit")
    @@ "opt_box_autoadd_text_style" :> Maybe("box_autoadd_text_style")
    @@ "opt_box_autoadd_u_32" :> Maybe("box_autoadd_u_32")
    @@ "opt_box_autoadd_wrap_alignment" :> Maybe("box_autoadd_wrap_alignment")
    @@ "opt_box_custom_ui" :> Maybe("box_custom_ui")
    @@ "opt_box_interaction" :> Maybe("box_interaction")
    @@ "opt_list_String" :> Maybe("list_String") @@ "opt_list_chapter" :> Maybe("list_chapter")
    @@ "opt_list_image_list_audio" :> Maybe("list_image_list_audio")
    @@ "opt_list_permission" :> Maybe("list_permission")
    @@ "paragraph" :> OneOf(<<
        << "Text", << <<"content", "String">>,
            <<"style", "opt_box_autoadd_text_style">> >> >>,
        << "Mixed", << <<"content", "list_mixed_content">> >> >>,
        << "CustomUI", << <<"ui", "box_custom_ui">> >> >>,
        << "Table", << <<"columns", "list_row">> >> >> >>)
    @@ "permission" :> OneOf(<<
        << "Storage", << <<"path", "String">>, <<"write", "bool">> >> >>,
        << "Network", << <<"domains", "list_String">> >> >>,
        << "ActionPopup", << >> >>,
        << "ArbitraryNetwork", << >> >> >>)
    @@ "popup_action" :> Fields(<< <<"label", "String">>, <<"onclick", "box_action">> >>)
    @@ "record_string_list_string" :> Fields(<< <<"field0", "String">>,
          <<"field1", "list_String">> >>)
    @@ "record_string_setting" :> Fields(<< <<"field0", "String">>, <<"field1", "setting">> >>)

DartTakesRecordStringSlotValue ==
       "record_string_slot_value" :> Fields(<< <<"field0", "String">>,
          <<"field1", "slot_value">> >>)
    @@ "record_string_string" :> Fields(<< <<"field0", "String">>, <<"field1", "String">> >>)
    @@ "release_status" :> Units(<< "Releasing", "Complete", "Unknown" >>)
    @@ "remote_extension" :> Fields(<< <<"remoteId", "String">>, <<"id", "String">>, <<"name", "String">>,
          <<"url", "String">>, <<"cover", "opt_box_autoadd_link">>, <<"version", "String">>,
          <<"compatible", "bool">>, <<"permissions", "opt_list_permission">>,
          <<"authors", "list_String">>, <<"lang", "list_String">>,
          <<"tags", "list_String">>, <<"nsfw", "bool">>,
          <<"mediaType", "Set_media_type_None">>,
          <<"extensionKinds", "list_extension_kind">> >>)
    @@ "remote_extension_result" :> Fields(<< <<"content", "list_remote_extension">>, <<"hasnext", "opt_box_autoadd_bool">>,
          <<"length", "opt_box_autoadd_i_32">> >>)
    @@ "row" :> Fields(<< <<"cells", "list_paragraph">> >>)
    @@ "setting" :> Fields(<< <<"label", "String">>, <<"value", "setting_value">>,
          <<"default", "setting_value">>, <<"visible", "bool">>,
          <<"ui", "opt_box_autoadd_settings_ui">> >>)
    @@ "setting_kind" :> Units(<< "Extension", "Search" >>)
    @@ "setting_value" :> OneOf(<<
        << "String", << <<"data", "String">> >> >>,
        << "Number", << <<"data", "f_32">> >> >>,
        << "Boolean", << <<"data", "bool">> >> >>,
        << "StringList", << <<"data", "list_String">> >> >> >>)

DartTakesSettingsUi ==
       "settings_ui" :> OneOf(<<
        << "CheckBox", << >> >>,
        << "Slider", << <<"min", "f_64">>, <<"max", "f_64">>, <<"step", "i_32">> >> >>,
        << "Dropdown", << <<"options", "list_dropdown_option">> >> >>,
        << "MultiDropdown", << <<"options", "list_dropdown_option">> >> >>,
        << "Directory", << <<"write", "bool">> >> >>,
        << "CustomUI", << <<"ui", "box_autoadd_custom_ui">> >> >> >>)
    @@ "slot_value" :> OneOf(<<
        << "Setting", << <<"value", "box_autoadd_setting_value">> >> >>,
        << "Store", << <<"key", "String">>, <<"value", "String">> >> >> >>)
    @@ "source" :> OneOf(<<
        << "Epub", << <<"link", "box_autoadd_link">> >> >>,
        << "Pdf", << <<"link", "box_autoadd_link">> >> >>,
        << "Imagelist", << <<"links", "list_link">>,
            <<"audio", "opt_list_image_list_audio">> >> >>,
        << "Video", << <<"sources", "list_stream_source">>, <<"sub", "list_subtitles">>,
            <<"chapters", "opt_list_chapter">> >> >>,
        << "Audio", << <<"sources", "list_stream_source">>,
            <<"chapters", "opt_list_chapter">> >> >>,
        << "Paragraphlist", << <<"paragraphs", "list_paragraph">>,
            <<"audio", "opt_list_image_list_audio">> >> >> >>)
    @@ "source_open_type" :> Units(<< "Download", "Stream" >>)
    @@ "source_result" :> Fields(<< <<"source", "source">>,
          <<"settings", "Map_String_setting_None">> >>)
    @@ "source_type" :> Units(<< "Epub", "Pdf", "Imagelist", "Video", "Audio", "Paragraphlist" >>)
    @@ "stack_fit" :> Units(<< "Loose", "Expand", "Passthrough" >>)
    @@ "storage_usage" :> Fields(<< <<"cache", "f_64">>, <<"extensionBytes", "f_64">>,
          <<"data", "f_64">> >>)
    @@ "stream_source" :> Fields(<< <<"name", "String">>, <<"lang", "String">>,
          <<"url", "link">> >>)

DartTakesSubscription ==
       "subscription" :> Fields(<< <<"source", "subscription_source">>, <<"key", "String">>,
          <<"stateKey", "String">> >>)
    @@ "subscription_source" :> OneOf(<<
        << "Store", << >> >>,
        << "Setting", << <<"kind", "setting_kind">> >> >>,
        << "EntrySetting", << >> >> >>)
    @@ "subtitles" :> Fields(<< <<"title", "String">>, <<"lang", "String">>, <<"url", "link">> >>)
    @@ "text_style" :> Fields(<< <<"bold", "opt_box_autoadd_bool">>, <<"italic", "opt_box_autoadd_bool">>,
          <<"underline", "opt_box_autoadd_bool">>,
          <<"strikethrough", "opt_box_autoadd_bool">>, <<"code", "opt_box_autoadd_bool">>,
          <<"link", "opt_String">>, <<"fontSize", "opt_box_autoadd_i_32">> >>)
    @@ "timestamp_type" :> Units(<< "Relative", "Absolute" >>)
    @@ "toast_kind" :> Units(<< "Info", "Success", "Warning", "Error" >>)
    @@ "u_32" :> Plain("u32") @@ "u_8" :> Plain("u8") @@ "unit" :> Plain("unit")
    @@ "usize" :> Plain("64 bits")
    @@ "wrap_alignment" :> Units(<< "Start", "Center", "End", "SpaceBetween", "SpaceAround",
          "SpaceEvenly" >>)

(***************************************************************************)
(* The whole tables.  What the library gives by itself (IntoDart of        *)
(* flutter_rust_bridge) has the shape of the other codec, but for the      *)
(* values that are objects of Dart.                                        *)
(***************************************************************************)
Given ==
    RustGivesCancelToken @@ RustGivesAlignment @@ RustGivesChapter @@ RustGivesCustomUI
    @@ RustGivesDropdownItem @@ RustGivesEntryDetailed @@ RustGivesEventData
    @@ RustGivesExtensionManagerData @@ RustGivesInteraction @@ RustGivesMixedContent
    @@ RustGivesRemoteExtension @@ RustGivesSettingValue @@ RustGivesSource
    @@ RustGivesStorageUsage @@ RustGivesTimestampType

RustTypes ==
    RustTypesAccount @@ RustTypesCustomUI @@ RustTypesDropdownItem
    @@ RustTypesExtensionRepo @@ RustTypesSettingsUI

DartTakes ==
    DartTakesAnyhowException @@ DartTakesDartOpaque @@ DartTakesAction
    @@ DartTakesBoxAutoaddChapterKind @@ DartTakesBoxAutoaddStackFit
    @@ DartTakesCustomUI @@ DartTakesDropdownItem @@ DartTakesEpisodeId @@ DartTakesF64
    @@ DartTakesListMediaType @@ DartTakesOptMapStringStringNone
    @@ DartTakesOptBoxAutoaddStackFit @@ DartTakesRecordStringSlotValue
    @@ DartTakesSettingsUi @@ DartTakesSubscription

WithTypes(t) ==
    [Given[t] EXCEPT !.variants =
        [i \in DOMAIN Given[t].variants |->
            LET v == Given[t].variants[i]
            IN  <<v[1], [j \in DOMAIN v[2] |-> <<v[2][j], RustTypes[t][i][v[2][j]]>>]>>]]

LibraryGives ==
       "anyhow::Error" :> Wraps("String") @@ "String" :> Plain("String")
    @@ "bool" :> Plain("bool") @@ "()" :> Plain("unit") @@ "DateTime" :> Plain("timestamp")

RustGives == [t \in DOMAIN Given |-> WithTypes(t)] @@ LibraryGives @@ RustWrites
=============================================================================
